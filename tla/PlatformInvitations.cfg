SPECIFICATION Spec
CONSTANTS
    Workers = {w1, w2}
    Companies = {c1}
    Invitations = {i1, i2, i3}
    Emails = {e1, e2}
    Routes = {"create", "invite", "revoke", "validate", "accept", "suspend", "reactivate"}
    None = None
SYMMETRY Symmetry
INVARIANTS
    TypeOK
    OnePendingPerEmail
    OwnersWereInvited
PROPERTIES
    AcceptedFromPending
CHECK_DEADLOCK FALSE
