SPECIFICATION Spec
CONSTANTS
    Workers = {w1, w2}
    Conversations = {c1}
    Messages = {m1, m2}
    ExternalIds = {x1}
    Settings = {}
    Values = {v1}
    Routes = {"create", "mark_read", "inbound"}
    None = None
SYMMETRY Symmetry
PROPERTIES
    InboundIncrements
