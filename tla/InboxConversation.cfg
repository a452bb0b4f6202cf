SPECIFICATION Spec
CONSTANTS
    Workers = {w1, w2}
    Conversations = {c1}
    Messages = {m1}
    ExternalIds = {x1}
    Settings = {"priority"}
    Values = {v1, v2}
    Routes = {"create", "status", "reopen", "archive", "settings", "mark_read", "mark_unread", "inbound", "draft", "update_draft", "discard_draft", "queue", "send"}
    None = None
SYMMETRY Symmetry
INVARIANTS
    TimestampsMatchStatus
    OneArchiveEvent
    OneEventPerSentMessage
PROPERTIES
    ClosedOnlyReopens
    NoMessageEntersReadOnly
    ImplementsLifecycle
