SPECIFICATION Spec
CONSTANTS
    Workers = {w1, w2}
    Contacts = {c1, c2}
    Leads = {l1}
    Tasks = {t1}
    Emails = {e1}
    Reasons = {r1, r2}
    Details = {}
    Targets = {"new", "qualified", "won", "lost"}
    Routes = {"create_contact", "update_contact", "archive_contact", "create_lead", "create_lead_with_contact", "update_lead", "archive_lead", "change_status", "create_task", "update_task", "complete_task"}
    None = None
CONSTRAINT Focus
SYMMETRY Symmetry
INVARIANTS
    TypeOK
    StatusWasRecorded
PROPERTIES
    ArchivedAtIsFinal
CHECK_DEADLOCK FALSE
