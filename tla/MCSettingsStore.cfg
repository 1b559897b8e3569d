SPECIFICATION SettingsFairSpec
CONSTANTS
    p1 = p1
    p2 = p2
    u = u
    v = v
    d = d
    k = k
    l = l
    Ids = {p1, p2}
    Urls = {u, v}
    Drivers = {d}
    Keys = {k, l}
    Fields = {"policies"}
    MaxGeneration = 2
    Callers = {1, 2}
    Builds <- BuildsOfAllKinds
    Installed <- FirstAndLater
    MaxRequests = 2
    MaxStops = 1
PROPERTIES
    ImplementsAtomicSettings
CHECK_DEADLOCK FALSE
