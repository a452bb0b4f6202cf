SPECIFICATION Spec
CONSTANTS
    Workers = {w1, w2, w3}
    Sessions = {1, 2}
    Tokens = {t1, t2, t3}
    Routes = {"login", "refresh", "logout_all", "suspend"}
    Ends = {}
    None = None
SYMMETRY Symmetry
INVARIANTS DeadlockNeedsTwoBulkRequests
CHECK_DEADLOCK FALSE
