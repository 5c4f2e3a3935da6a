CONSTANTS
    x = x
    y = y
    x1 = x1
    x2 = x2
    y1 = y1
    None = None
    Tabs = {x, y}
    Calls = {x1, x2, y1}
    TabOf <- TabOfTwo
    Does <- DoesTwo
    Limited = FALSE
    Times <- TimesAny
    Window = 1
    Ceiling = 2
    MaxIssued = 3
    MaxExpired = 1
    MaxFaults = 1
SPECIFICATION Spec
INVARIANTS
    TypeOK
    OneLivePerLogin
    NoSelfRefusal
    NoneLeftWaiting
CHECK_DEADLOCK FALSE
