SPECIFICATION Spec
CONSTANTS
    Workers = {w1, w2}
    Conversations = {c1}
    Notes = {n1}
    Tags = {t1, t2}
    Words = {a, b}
    Texts = {x1, x2}
    Routes = {"create_note", "update_note", "archive_note", "create_tag", "update_tag", "add_tag", "remove_tag"}
    None = None
SYMMETRY Symmetry
INVARIANTS
    TypeOK
    OneTagPerName
PROPERTIES
    ArchivedNoteStays
    OnlyStragglersCommit
