CONSTANTS
    ana = ana
    ben = ben
    a1 = a1
    b1 = b1
    b2 = b2
    tick = tick
    Players = {ana, ben}
    Sockets = {a1, b1, b2}
    Owner <- OwnerOfTwo
    Clocks = {tick}
    Creator = ana
    First = a1
    Length = 1
    Does <- DoesOfTwo
    MaxBusy = 2
    MaxRaces = 1
SPECIFICATION Spec
INVARIANTS
    TypeOK
    PagesAgree
    FinishedIsWhole
CHECK_DEADLOCK FALSE
