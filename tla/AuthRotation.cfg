SPECIFICATION Spec
CONSTANTS
    Workers = {w1, w2, w3}
    Sessions = {1}
    Tokens = {t1, t2, t3}
    Routes = {"login", "refresh", "logout", "suspend", "reactivate"}
    Ends = {"expiry", "deactivation"}
    None = None
SYMMETRY Symmetry
INVARIANTS
    TypeOK
    CsrfOfUsableGeneration
    OneSuccessor
    AtMostOneLateRotation
PROPERTIES
    RevocationIsFinal
CHECK_DEADLOCK FALSE
