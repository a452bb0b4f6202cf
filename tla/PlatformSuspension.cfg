SPECIFICATION Spec
CONSTANTS
    Workers = {w1}
    Companies = {c1}
    Invitations = {i1}
    Emails = {e1}
    Routes = {"create", "accept", "suspend"}
    None = None
SYMMETRY Symmetry
PROPERTIES
    SuspensionLastsUntilReactivation
CHECK_DEADLOCK FALSE
