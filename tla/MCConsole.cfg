\* Two builds and one restart; three logins and two requests; two alerts; a
\* node that is well again after four good reports; one execution.
SPECIFICATION ConsoleSpec
CONSTANTS
    MaxJobs = 2
    Builders = {1, 2}
    Clients = {c1}
    MaxImages = 2
    MaxRestarts = 1
    MaxSessions = 3
    MaxPasswords = 2
    Requests = {r1, r2}
    NoRequest = NoRequest
    MaxAlerts = 2
    Fingerprints = {f1, f2}
    People = {p1}
    MaxCrashes = 1
    Enough = 4
INVARIANTS
    ConsoleTypeOK
    OneThreadPerJob RegisteredIsPushed
    SessionsBounded
PROPERTIES
    CancelStopsBuild JobEnds
    ReplacedWasAsked
    AlertReaches
    PoolFollowsHealth
    ResultReported
CHECK_DEADLOCK FALSE
