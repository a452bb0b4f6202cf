SPECIFICATION Spec
CONSTANTS
    Requests = {r1, r2, r3}
    Companies = {a}
    Connections = {c1, c2}
    Threads = 2
    MaxEvents = 1
    NoCompany = NoCompany
    NoConnection = NoConnection
    NoRequest = NoRequest
INVARIANTS
    TenantIsolation
    NoHoldAndWait
    EmptyPoolIsInUse
    EventsAreKept
    LockHolderFindsThread
PROPERTIES
    EveryRequestEnds
CHECK_DEADLOCK FALSE
