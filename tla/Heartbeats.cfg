SPECIFICATION FairCollectorSpec
CONSTANTS
    s1 = s1  s2 = s2  a = a  b = b
    Malformed = Malformed  None = None  User = User  Pinger = Pinger
    Services = {s1}
    Hosts = {a, b}
    ServiceOrder <- OneService
    Refreshers <- AllRefreshers
    Instance <- MyInstance
    Apps <- MyApp
    Worlds <- SomeWorlds
    MaxChanges = 1
    MaxThrows = 1
    MayStop = TRUE
INVARIANTS
    CollectorTypeOK ReportsAreSound StoppedIsQuiet UnboundOnlyInRun
PROPERTIES
    ReportsConverge StopReturns
CHECK_DEADLOCK FALSE
