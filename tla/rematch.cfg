CONSTANTS
    ana = ana
    ben = ben
    a1 = a1
    a2 = a2
    b1 = b1
    t1 = t1
    r1 = r1
    r2 = r2
    Players = {ana, ben}
    Sockets = {a1, b1}
    Owner <- OwnerSolo
    Relay <- RelaySolo
    Timers = {}
    Replicas = {r1}
    Home <- OneReplica
    Creator = ana
    MaxPlayers = 2
    Countdown = 0
    RaceMax = 1
    FinishGrace = 1
    LobbyGrace = 0
    Ticking = {}
    Frames = {"start", "finish", "play_again", "leave"}
    Faults = {}
    MaxFaults = 0
    MaxRaces = 2
SPECIFICATION Spec
INVARIANTS
    OnlyTheField
    PlacesHold
PROPERTIES
    EndsOnAFinish
    ImplementsLifecycle
    DeadlineOnlyCloser
CHECK_DEADLOCK FALSE
