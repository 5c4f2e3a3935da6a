CONSTANTS
    x = x
    y = y
    x1 = x1
    x2 = x2
    y1 = y1
    None = None
    Tabs = {x}
    Calls = {x1, x2}
    TabOf <- TabOfOne
    Does <- DoesOne
    Limited = TRUE
    Times <- TimesOne
    Window = 2
    Ceiling = 3
    MaxIssued = 2
    MaxExpired = 1
    MaxFaults = 1
SPECIFICATION Spec
INVARIANTS
    CookieWorks
    GuessesBounded
PROPERTIES
    WindowsEnd
CHECK_DEADLOCK FALSE
