SPECIFICATION Spec
CONSTANTS
    Workers = {w1, w2}
    Conversations = {c1, c2}
    Messages = {m1, m2, m3}
    ExternalIds = {x1}
    Settings = {}
    Values = {v1}
    Routes = {"create", "mark_read", "mark_unread", "inbound"}
    None = None
SYMMETRY Symmetry
INVARIANTS
    TypeOK
    RetriesAreNotCounted
PROPERTIES
    ImplementsLifecycle
