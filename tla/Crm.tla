-------------------------------- MODULE Crm --------------------------------
(***************************************************************************)
(* The operational CRM: contacts, leads and tasks, changed by HTTP         *)
(* requests that the server runs concurrently.                             *)
(*                                                                         *)
(* As in Inbox, a request decides on the rows it has loaded and its UPDATE *)
(* writes only the columns that it changed, over the latest row; but no    *)
(* trigger checks what it writes, only constraints of the tables.  Every   *)
(* request here updates at most one row that others can see, so that its   *)
(* flush and its commit are one step: another request that would see the   *)
(* lock between the two waits for the commit.                              *)
(***************************************************************************)
EXTENDS Naturals, FiniteSets

CONSTANTS
    Workers,   \* the threads that serve requests
    Contacts,  \* identifiers of contacts
    Leads,     \* identifiers of leads
    Tasks,     \* identifiers of tasks
    Emails,    \* email addresses, normalised
    Reasons,   \* the values of lost_reason
    Details,   \* the values of the columns that are not modelled one by one
    Targets,   \* the statuses of a lead that clients ask for
    Routes,    \* the routes that clients call
    None       \* SQL NULL

ContactStatus == {"active", "inactive", "archived"}

LeadStatus ==
    {"new", "to_qualify", "qualified", "appointment_scheduled", "proposal_sent",
     "won", "lost", "archived"}

TaskStatus == {"todo", "in_progress", "completed", "cancelled"}

\* The routes that begin by loading a row; the others create from nothing.
ContactRoutes == {"update_contact", "archive_contact", "create_lead"}
LeadRoutes    == {"update_lead", "archive_lead", "change_status", "create_task"}
TaskRoutes    == {"update_task", "complete_task"}

ASSUME TargetsAssumption == Targets \subseteq LeadStatus
ASSUME NullAssumption ==
    None \notin Contacts \union Leads \union Tasks \union Emails \union Reasons \union Details
             \union TaskStatus \union ContactRoutes \union LeadRoutes \union TaskRoutes

VARIABLES
    contact,   \* committed rows of contacts
    lead,      \* committed rows of leads
    task,      \* committed rows of crm_tasks
    recorded,  \* statuses of each lead that an activity status_change records
    req        \* the route of each worker's request and the row it has loaded

vars == <<contact, lead, task, recorded, req>>

\* Timestamps are abstracted to "is not NULL".  details stands for the columns
\* that only update_contact, update_lead, assign_lead and update_task write.
ContactRow ==
    [status: ContactStatus \union {"absent"}, archived_at: BOOLEAN,
     email: Emails \union {None}, details: Details \union {None}]

LeadRow ==
    [status: LeadStatus \union {"absent"}, contact: Contacts \union {None},
     archived_at: BOOLEAN, lost_reason: Reasons \union {None}, details: Details \union {None}]

TaskRow ==
    [status: TaskStatus \union {"absent"}, lead: Leads \union {None},
     contact: Contacts \union {None}, completed_at: BOOLEAN, details: Details \union {None}]

NoContact ==
    [status |-> "absent", archived_at |-> FALSE, email |-> None, details |-> None]

NoLead ==
    [status |-> "absent", contact |-> None, archived_at |-> FALSE,
     lost_reason |-> None, details |-> None]

NoTask ==
    [status |-> "absent", lead |-> None, contact |-> None, completed_at |-> FALSE,
     details |-> None]

Transaction ==
    [route: Routes \union {None}, id: Contacts \union Leads \union Tasks \union {None},
     seen: ContactRow \union LeadRow \union TaskRow]

Idle == [route |-> None, id |-> None, seen |-> NoContact]

Init ==
    /\ contact = [c \in Contacts |-> NoContact]
    /\ lead = [l \in Leads |-> NoLead]
    /\ task = [t \in Tasks |-> NoTask]
    /\ recorded = [l \in Leads |-> {}]
    /\ req = [w \in Workers |-> Idle]

-----------------------------------------------------------------------------
(* Columns and constraints.                                                 *)

\* What an UPDATE leaves in a column that was loaded, set and is committed so.
Written(loaded, new, current) == IF new = loaded THEN current ELSE new

\* An optional timestamp that is kept if it was loaded ("x or now").
Stamped(loaded, current) == Written(loaded, TRUE, current)

\* The unique constraint on (company_id, email_normalized), archived contacts
\* included; a concurrent INSERT or UPDATE with the address waits.
EmailFree(c, e) == e # None => \A d \in Contacts \ {c} : contact[d].email # e

LostReasonRequired(row) == row.status = "lost" => row.lost_reason # None

CompletedAtRequired(row) == row.status = "completed" => row.completed_at

EnsureContactAcceptsLead(row) == row.status # "archived" /\ ~row.archived_at

EnsureLeadModifiable(row) == row.status # "archived" /\ ~row.archived_at

-----------------------------------------------------------------------------
(* Loading the row that a route is about.                                   *)

Load(w, route, id, row) ==
    /\ req[w] = Idle /\ route \in Routes
    /\ row.status # "absent"
    /\ req' = [req EXCEPT ![w] = [route |-> route, id |-> id, seen |-> row]]
    /\ UNCHANGED <<contact, lead, task, recorded>>

LoadContact(w, c) ==
    \E route \in ContactRoutes : Load(w, route, c, contact[c])

LoadLead(w, l) ==
    \E route \in LeadRoutes : Load(w, route, l, lead[l])

LoadTask(w, t) ==
    \E route \in TaskRoutes : Load(w, route, t, task[t])

Ends(w) == req' = [req EXCEPT ![w] = Idle]

-----------------------------------------------------------------------------
(* Contacts.                                                                *)

NewContact(status, e, d) ==
    [NoContact EXCEPT !.status = status, !.email = e, !.details = d]

\* The status is the client's, "archived" included.
CreateContact(c, status, e, d) ==
    /\ "create_contact" \in Routes
    /\ contact[c].status = "absent"
    /\ EmailFree(c, e)
    /\ contact' = [contact EXCEPT ![c] = NewContact(status, e, d)]
    /\ UNCHANGED <<lead, task, recorded, req>>

\* Only the status is checked, not archived_at.
UpdateContact(w, status, e, d) ==
    LET seen == req[w].seen
        c == req[w].id
    IN  /\ req[w].route = "update_contact"
        /\ seen.status # "archived" /\ status # "archived"
        /\ e # seen.email => EmailFree(c, e)
        /\ contact' = [contact EXCEPT
              ![c].status = Written(seen.status, status, @),
              ![c].email = Written(seen.email, e, @),
              ![c].details = Written(seen.details, d, @)]
        /\ Ends(w)
        /\ UNCHANGED <<lead, task, recorded>>

ArchiveContact(w) ==
    LET seen == req[w].seen
        c == req[w].id
    IN  /\ req[w].route = "archive_contact"
        /\ seen.status # "archived" \/ ~seen.archived_at
        /\ contact' = [contact EXCEPT
              ![c].status = Written(seen.status, "archived", @),
              ![c].archived_at = Stamped(seen.archived_at, @)]
        /\ Ends(w)
        /\ UNCHANGED <<lead, task, recorded>>

-----------------------------------------------------------------------------
(* Leads.                                                                   *)

NewLead(c, d) == [NoLead EXCEPT !.status = "new", !.contact = c, !.details = d]

CreateLead(w, l, d) ==
    /\ req[w].route = "create_lead"
    /\ EnsureContactAcceptsLead(req[w].seen)
    /\ lead[l].status = "absent"
    /\ lead' = [lead EXCEPT ![l] = NewLead(req[w].id, d)]
    /\ Ends(w)
    /\ UNCHANGED <<contact, task, recorded>>

\* Neither is visible without the other.
CreateLeadWithContact(c, l, status, e, d) ==
    /\ "create_lead_with_contact" \in Routes
    /\ contact[c].status = "absent" /\ lead[l].status = "absent"
    /\ EmailFree(c, e)
    /\ contact' = [contact EXCEPT ![c] = NewContact(status, e, d)]
    /\ lead' = [lead EXCEPT ![l] = NewLead(c, d)]
    /\ UNCHANGED <<task, recorded, req>>

\* update_lead and assign_lead.  (The activity of an assignment is not modelled.)
UpdateLead(w, d) ==
    LET l == req[w].id
    IN  /\ req[w].route = "update_lead"
        /\ EnsureLeadModifiable(req[w].seen)
        /\ lead' = [lead EXCEPT ![l].details = Written(req[w].seen.details, d, @)]
        /\ Ends(w)
        /\ UNCHANGED <<contact, task, recorded>>

\* Mutant: every column is written, as it was loaded.
ChangeLoadedStatus(w, target, reason) ==
    LET new == [req[w].seen EXCEPT !.status = target, !.lost_reason = reason]
    IN  /\ req[w].route = "change_status"
        /\ EnsureLeadModifiable(req[w].seen)
        /\ target # "archived"
        /\ (target = "lost") <=> (reason # None)
        /\ lead' = [lead EXCEPT ![req[w].id] = new]
        /\ recorded' = [recorded EXCEPT ![req[w].id] = @ \union {target}]
        /\ Ends(w)
        /\ UNCHANGED <<contact, task>>

\* The check is made on the loaded lead.  The activity is added whether the
\* UPDATE changes the row or not.
ChangeLeadStatus(w, target, reason) ==
    LET seen == req[w].seen
        l == req[w].id
        new == [lead[l] EXCEPT !.status = Written(seen.status, target, @),
                               !.lost_reason = Written(seen.lost_reason, reason, @)]
    IN  /\ req[w].route = "change_status"
        /\ EnsureLeadModifiable(seen)
        /\ target # "archived"
        /\ (target = "lost") <=> (reason # None)
        /\ LostReasonRequired(new)
        /\ lead' = [lead EXCEPT ![l] = new]
        /\ recorded' = [recorded EXCEPT ![l] = @ \union {target}]
        /\ Ends(w)
        /\ UNCHANGED <<contact, task>>

\* Mutant: the activity is left out.
ArchiveLeadSilently(w) ==
    LET l == req[w].id
    IN  /\ req[w].route = "archive_lead"
        /\ lead' = [lead EXCEPT ![l].status = "archived", ![l].archived_at = TRUE]
        /\ Ends(w)
        /\ UNCHANGED <<contact, task, recorded>>

\* A lead that was loaded archived in full is left as it is.
ArchiveLead(w) ==
    LET seen == req[w].seen
        l == req[w].id
    IN  /\ req[w].route = "archive_lead"
        /\ seen.status # "archived" \/ ~seen.archived_at
        /\ lead' = [lead EXCEPT
              ![l].status = Written(seen.status, "archived", @),
              ![l].archived_at = Stamped(seen.archived_at, @)]
        /\ recorded' = [recorded EXCEPT ![l] = @ \union {"archived"}]
        /\ Ends(w)
        /\ UNCHANGED <<contact, task>>

-----------------------------------------------------------------------------
(* Tasks.                                                                   *)

\* Mutant: the lead's own key is stored as the contact's.
CreateTaskOfLeadOnly(w, t, d) ==
    /\ req[w].route = "create_task"
    /\ task[t].status = "absent"
    /\ task' = [task EXCEPT ![t] =
          [NoTask EXCEPT !.status = "todo", !.lead = req[w].id, !.contact = req[w].id]]
    /\ Ends(w)
    /\ UNCHANGED <<contact, lead, recorded>>

\* The task of a lead takes the lead's contact.
CreateTask(w, t, d) ==
    /\ req[w].route = "create_task"
    /\ EnsureLeadModifiable(req[w].seen)
    /\ task[t].status = "absent"
    /\ task' = [task EXCEPT ![t] =
          [NoTask EXCEPT !.status = "todo", !.lead = req[w].id,
                         !.contact = req[w].seen.contact, !.details = d]]
    /\ Ends(w)
    /\ UNCHANGED <<contact, lead, recorded>>

\* The task of a contact, whose status is not checked.
CreateContactTask(t, c, d) ==
    /\ "create_task" \in Routes
    /\ contact[c].status # "absent" /\ task[t].status = "absent"
    /\ task' = [task EXCEPT ![t] =
          [NoTask EXCEPT !.status = "todo", !.contact = c, !.details = d]]
    /\ UNCHANGED <<contact, lead, recorded, req>>

WriteTask(w, new) ==
    /\ CompletedAtRequired(new)
    /\ task' = [task EXCEPT ![req[w].id] = new]
    /\ Ends(w)
    /\ UNCHANGED <<contact, lead, recorded>>

\* completed_at follows the status in the payload, if there is one.
UpdateTask(w, status, d) ==
    LET seen == req[w].seen
    IN  /\ req[w].route = "update_task"
        /\ WriteTask(w, [task[req[w].id] EXCEPT
              !.status = IF status = None THEN @ ELSE Written(seen.status, status, @),
              !.completed_at = CASE status = None -> @
                                 [] status = "completed" -> Stamped(seen.completed_at, @)
                                 [] OTHER -> Written(seen.completed_at, FALSE, @),
              !.details = Written(seen.details, d, @)])

CompleteTask(w) ==
    LET seen == req[w].seen
    IN  /\ req[w].route = "complete_task"
        /\ WriteTask(w, [task[req[w].id] EXCEPT
              !.status = Written(seen.status, "completed", @),
              !.completed_at = Stamped(seen.completed_at, @)])

-----------------------------------------------------------------------------
\* Refused by a check or a constraint, without a change to make, or failed.
Rollback(w) ==
    /\ req[w] # Idle
    /\ Ends(w)
    /\ UNCHANGED <<contact, lead, task, recorded>>

Step(w) ==
    \/ \E c \in Contacts : LoadContact(w, c)
    \/ \E l \in Leads : LoadLead(w, l)
    \/ \E t \in Tasks : LoadTask(w, t)
    \/ \E status \in ContactStatus, e \in Emails \union {None}, d \in Details \union {None} :
          UpdateContact(w, status, e, d)
    \/ ArchiveContact(w)
    \/ \E l \in Leads, d \in Details \union {None} : CreateLead(w, l, d)
    \/ \E d \in Details \union {None} : UpdateLead(w, d)
    \/ \E target \in Targets, reason \in Reasons \union {None} :
          ChangeLeadStatus(w, target, reason)
    \/ ArchiveLead(w)
    \/ \E t \in Tasks, d \in Details \union {None} : CreateTask(w, t, d)
    \/ \E status \in TaskStatus \union {None}, d \in Details \union {None} :
          UpdateTask(w, status, d)
    \/ CompleteTask(w)
    \/ Rollback(w)

Next ==
    \/ \E c \in Contacts, e \in Emails \union {None}, d \in Details \union {None},
          status \in ContactStatus :
          \/ CreateContact(c, status, e, d)
          \/ \E l \in Leads : CreateLeadWithContact(c, l, status, e, d)
    \/ \E t \in Tasks, c \in Contacts, d \in Details \union {None} : CreateContactTask(t, c, d)
    \/ \E w \in Workers : Step(w)

Spec == Init /\ [][Next]_vars

-----------------------------------------------------------------------------
(* What the CRM guarantees.                                                 *)

TypeOK ==
    /\ contact \in [Contacts -> ContactRow]
    /\ lead \in [Leads -> LeadRow]
    /\ task \in [Tasks -> TaskRow]
    /\ recorded \in [Leads -> SUBSET LeadStatus]
    /\ req \in [Workers -> Transaction]

\* Whatever status change races an archive, archived_at is never lost again:
\* the lead or the contact stays refused by EnsureLeadModifiable and
\* EnsureContactAcceptsLead.  An archived lead has its archived_at.
ArchivedAtIsFinal ==
    [][/\ \A l \in Leads :
             /\ lead[l].archived_at => lead'[l].archived_at
             /\ lead'[l].status = "archived" => lead'[l].archived_at
       /\ \A c \in Contacts : contact[c].archived_at => contact'[c].archived_at]_vars

\* The history of a lead misses no status: the activity is committed with the
\* status it records, even when the loaded status was stale.
StatusWasRecorded ==
    \A l \in Leads : lead[l].status \in {"absent", "new"} \union recorded[l]

=============================================================================
