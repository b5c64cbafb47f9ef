SPECIFICATION FairClientSpec
CONSTANTS
    s1 = s1  s2 = s2  a = a  t1 = t1  t2 = t2
    Malformed = Malformed  None = None  User = User  Pinger = Pinger
    Services = {s1}
    Hosts = {a}
    ServiceOrder <- OneService
    Refreshers <- AllRefreshers
    Instance <- MyInstance
    Apps <- MyApp
    Worlds <- OneWorld
    MaxChanges = 0
    MaxThrows = 0
    MayStop = TRUE
    Users = {t1}
    Sizes = {1, 13}
    Overhead = 2
    MaxData = 3
    Capacity = 8
    Word = 16
    Unknown = Unknown
    MaxSends = 3
    MaxConnects = 1
    CallbackCalls = TRUE
INVARIANTS
    ClientTypeOK WithinCapacity DestroyedIsQuiet NoOtherCircle
PROPERTIES
    CallsReturn
CHECK_DEADLOCK FALSE
