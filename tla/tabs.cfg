CONSTANTS
    ana = ana
    ben = ben
    a1 = a1
    a2 = a2
    b1 = b1
    t1 = t1
    r1 = r1
    r2 = r2
    Players = {ana, ben}
    Sockets = {a1, a2, b1}
    Owner <- OwnerOfTabs
    Relay <- RelayOfTabs
    Timers = {t1}
    Replicas = {r1}
    Home <- OneReplica
    Creator = ana
    MaxPlayers = 1
    Countdown = 0
    RaceMax = 1
    FinishGrace = 1
    LobbyGrace = 1
    Ticking = {}
    Frames = {"start", "finish", "leave"}
    Faults = {}
    MaxFaults = 0
    MaxRaces = 1
SPECIFICATION Spec
SYMMETRY TabsOfAna
INVARIANTS
    TypeOK
    PresenceFollowsSocket
    OnlyTheField
CHECK_DEADLOCK FALSE
