CONSTANTS
    a = a
    b = b
    me = me
    u1 = u1
    u2 = u2
    u3 = u3
    u4 = u4
    TextIds = {1, 2, 3}
    Content <- ContentOfTwo
    Alphabet = {a, b}
    Users = {me, u1, u2, u3, u4}
    Me = me
    DayLength = 2
    DayHash <- HashOfDays
    MinMedianGap = 1
    MinGaps = 3
    MachineKeys = 3
    MachineGap = 0
    MaxAge = 2
    MaxAhead = 1
    Resolution = 2
    Scale = 12
    Casts <- NextTyper
    MaxNow = 3
    MaxRows = 6
SPECIFICATION Spec
INVARIANTS
    WholeTextSubmits
CHECK_DEADLOCK FALSE
