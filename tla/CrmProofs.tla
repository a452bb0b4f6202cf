------------------------------ MODULE CrmProofs ------------------------------
(***************************************************************************)
(* What the CRM guarantees, proved for any number of workers, contacts,    *)
(* leads and tasks and any set of values.                                  *)
(*                                                                         *)
(* No request locks what it decides on, so that the row it has loaded may  *)
(* be stale.  The argument rests on what never goes back: archived_at, and *)
(* the history of a lead.  A request that has loaded a row archived finds  *)
(* it archived when it writes; one that has not writes archived_at itself, *)
(* or no status "archived".                                                *)
(***************************************************************************)
EXTENDS Crm, TLAPS

\* A row that is not there has no archived_at, and an archived lead has one.
LeadOK(row) ==
    /\ row.status = "absent" => ~row.archived_at
    /\ row.status = "archived" => row.archived_at

ContactOK(row) == row.status = "absent" => ~row.archived_at

\* What a request remembers of the row that it has loaded.
RowOK(row) ==
    /\ row.route \in ContactRoutes =>
          /\ row.id \in Contacts /\ row.seen \in ContactRow
          /\ contact[row.id].status # "absent"
          /\ row.seen.archived_at => contact[row.id].archived_at
    /\ row.route \in LeadRoutes =>
          /\ row.id \in Leads /\ row.seen \in LeadRow
          /\ lead[row.id].status # "absent"
          /\ row.seen.archived_at => lead[row.id].archived_at
    /\ row.route \in TaskRoutes =>
          /\ row.id \in Tasks /\ row.seen \in TaskRow
          /\ task[row.id].status # "absent"

\* The inductive invariant.
IInv ==
    /\ TypeOK
    /\ StatusWasRecorded
    /\ \A l \in Leads : LeadOK(lead[l])
    /\ \A c \in Contacts : ContactOK(contact[c])
    /\ \A w \in Workers : RowOK(req[w])

\* What no step takes back from the rows of others' transactions.
Keeps ==
    /\ \A c \in Contacts :
          /\ contact[c].status # "absent" => contact'[c].status # "absent"
          /\ contact[c].archived_at => contact'[c].archived_at
    /\ \A l \in Leads :
          /\ lead[l].status # "absent" => lead'[l].status # "absent"
          /\ lead[l].archived_at => lead'[l].archived_at
    /\ \A t \in Tasks : task[t].status # "absent" => task'[t].status # "absent"

-----------------------------------------------------------------------------
(* Typing.                                                                  *)

LEMMA EmptyRows ==
    /\ NoContact \in ContactRow /\ NoLead \in LeadRow /\ NoTask \in TaskRow
    /\ Idle \in Transaction
  BY DEF NoContact, ContactRow, ContactStatus, NoLead, LeadRow, LeadStatus, NoTask, TaskRow,
         TaskStatus, Idle, Transaction

LEMMA IdleOK == RowOK(Idle)
  BY NullAssumption DEF RowOK, Idle

\* A column holds what was loaded and is committed, or what is written.
LEMMA WrittenIn ==
    ASSUME NEW S, NEW new \in S, NEW current \in S, NEW loaded
    PROVE  Written(loaded, new, current) \in S
  BY DEF Written

LEMMA StampedIn ==
    ASSUME NEW current \in BOOLEAN, NEW loaded \in BOOLEAN
    PROVE  /\ Stamped(loaded, current) \in BOOLEAN
           /\ current => Stamped(loaded, current)
           /\ ~loaded => Stamped(loaded, current)
  BY DEF Stamped, Written

-----------------------------------------------------------------------------
(* The parts of a step.                                                     *)

\* Whoever is in progress still finds its row, as archived as before.
LEMMA KeepsRows ==
    ASSUME Keeps, NEW row \in Transaction, RowOK(row)
    PROVE  RowOK(row)'
  BY DEF Keeps, RowOK

\* A request ends, or was never in progress.
LEMMA EndPreserves ==
    ASSUME IInv, Keeps, NEW w, Ends(w) \/ req' = req,
           contact' \in [Contacts -> ContactRow], lead' \in [Leads -> LeadRow],
           task' \in [Tasks -> TaskRow], recorded' \in [Leads -> SUBSET LeadStatus],
           StatusWasRecorded',
           \A l \in Leads : LeadOK(lead'[l]),
           \A c \in Contacts : ContactOK(contact'[c])
    PROVE  IInv'
<1>1. req \in [Workers -> Transaction]
  BY DEF IInv, TypeOK
<1>2. req' \in [Workers -> Transaction]
  BY <1>1, EmptyRows DEF Ends
<1>3. ASSUME NEW v \in Workers  PROVE RowOK(req[v])'
  <2>1. PICK row \in Transaction : row = req'[v]
    BY <1>2
  <2>2. row = req[v] \/ row = Idle
    BY <1>1, <2>1 DEF Ends
  <2>3. RowOK(row)
    BY <2>2, IdleOK DEF IInv
  <2>4. RowOK(row)'
    BY <2>3, KeepsRows
  <2> QED
    BY <2>1, <2>4 DEF RowOK
<1>4. TypeOK'
  BY <1>2 DEF TypeOK
<1> QED
  BY <1>3, <1>4 DEF IInv

\* A request loads its row.
LEMMA LoadPreserves ==
    ASSUME IInv, NEW w \in Workers, NEW row \in Transaction, RowOK(row),
           req' = [req EXCEPT ![w] = row], UNCHANGED <<contact, lead, task, recorded>>
    PROVE  IInv'
<1>1. TypeOK'
  BY DEF IInv, TypeOK
<1>2. ASSUME NEW v \in Workers  PROVE RowOK(req[v])'
  <2>1. req'[v] = req[v] \/ req'[v] = row
    BY DEF IInv, TypeOK
  <2> QED
    BY <2>1 DEF IInv, RowOK
<1>3. StatusWasRecorded'
  BY DEF IInv, StatusWasRecorded
<1> QED
  BY <1>1, <1>2, <1>3 DEF IInv

-----------------------------------------------------------------------------
(* Loads and ends.                                                          *)

LEMMA InitInv == Init => IInv
<1> SUFFICES ASSUME Init  PROVE IInv
    OBVIOUS
<1>1. TypeOK
  BY EmptyRows DEF Init, TypeOK
<1>2. StatusWasRecorded
  BY DEF Init, StatusWasRecorded, NoLead
<1>3. \A l \in Leads : LeadOK(lead[l])
  BY DEF Init, LeadOK, NoLead
<1>4. \A c \in Contacts : ContactOK(contact[c])
  BY DEF Init, ContactOK, NoContact
<1>5. \A w \in Workers : RowOK(req[w])
  BY IdleOK DEF Init
<1> QED
  BY <1>1, <1>2, <1>3, <1>4, <1>5 DEF IInv

\* The names of the routes tell which table the row is of.
LEMMA RoutesApart ==
    /\ ContactRoutes \intersect LeadRoutes = {}
    /\ ContactRoutes \intersect TaskRoutes = {}
    /\ LeadRoutes \intersect TaskRoutes = {}
  BY DEF ContactRoutes, LeadRoutes, TaskRoutes

LEMMA LoadContactPreserves ==
    ASSUME IInv, NEW w \in Workers, NEW c \in Contacts, LoadContact(w, c)
    PROVE  IInv'
<1>1. PICK route \in ContactRoutes : Load(w, route, c, contact[c])
  BY DEF LoadContact
<1>2. contact[c] \in ContactRow /\ contact[c].status # "absent" /\ route \in Routes
  BY <1>1 DEF IInv, TypeOK, Load
<1>3. PICK row : row = [route |-> route, id |-> c, seen |-> contact[c]]
  OBVIOUS
<1>4. row \in Transaction
  BY <1>2, <1>3 DEF Transaction
<1>5. row.route = route /\ row.id = c /\ row.seen = contact[c]
  BY <1>3
<1>6. RowOK(row)
  BY <1>2, <1>5, RoutesApart DEF RowOK
<1> QED
  BY <1>1, <1>3, <1>4, <1>6, LoadPreserves DEF Load

LEMMA LoadLeadPreserves ==
    ASSUME IInv, NEW w \in Workers, NEW l \in Leads, LoadLead(w, l)
    PROVE  IInv'
<1>1. PICK route \in LeadRoutes : Load(w, route, l, lead[l])
  BY DEF LoadLead
<1>2. lead[l] \in LeadRow /\ lead[l].status # "absent" /\ route \in Routes
  BY <1>1 DEF IInv, TypeOK, Load
<1>3. PICK row : row = [route |-> route, id |-> l, seen |-> lead[l]]
  OBVIOUS
<1>4. row \in Transaction
  BY <1>2, <1>3 DEF Transaction
<1>5. row.route = route /\ row.id = l /\ row.seen = lead[l]
  BY <1>3
<1>6. RowOK(row)
  BY <1>2, <1>5, RoutesApart DEF RowOK
<1> QED
  BY <1>1, <1>3, <1>4, <1>6, LoadPreserves DEF Load

LEMMA LoadTaskPreserves ==
    ASSUME IInv, NEW w \in Workers, NEW t \in Tasks, LoadTask(w, t)
    PROVE  IInv'
<1>1. PICK route \in TaskRoutes : Load(w, route, t, task[t])
  BY DEF LoadTask
<1>2. task[t] \in TaskRow /\ task[t].status # "absent" /\ route \in Routes
  BY <1>1 DEF IInv, TypeOK, Load
<1>3. PICK row : row = [route |-> route, id |-> t, seen |-> task[t]]
  OBVIOUS
<1>4. row \in Transaction
  BY <1>2, <1>3 DEF Transaction
<1>5. row.route = route /\ row.id = t /\ row.seen = task[t]
  BY <1>3
<1>6. RowOK(row)
  BY <1>2, <1>5, RoutesApart DEF RowOK
<1> QED
  BY <1>1, <1>3, <1>4, <1>6, LoadPreserves DEF Load

LEMMA RollbackPreserves ==
    ASSUME IInv, NEW w \in Workers, Rollback(w)
    PROVE  IInv' /\ Keeps
<1>1. Keeps
  BY DEF Rollback, Keeps
<1>2. req' = [req EXCEPT ![w] = Idle] /\ UNCHANGED <<contact, lead, task, recorded>>
  BY DEF Rollback, Ends
<1> QED
  BY <1>1, <1>2, EmptyRows, IdleOK, LoadPreserves

-----------------------------------------------------------------------------
(* Writes of one row: a contact, a lead, a task.                            *)

LEMMA ContactWritePreserves ==
    ASSUME IInv, NEW w, NEW c \in Contacts, NEW new \in ContactRow,
           contact' = [contact EXCEPT ![c] = new], UNCHANGED <<lead, task, recorded>>,
           Ends(w) \/ req' = req,
           new.status # "absent", contact[c].archived_at => new.archived_at
    PROVE  IInv' /\ Keeps
<1>1. TypeOK
  BY DEF IInv
<1>2. /\ contact' \in [Contacts -> ContactRow] /\ contact'[c] = new
      /\ \A d \in Contacts \ {c} : contact'[d] = contact[d]
  BY <1>1 DEF TypeOK
<1>3. Keeps
  BY <1>2 DEF Keeps
<1>4. \A d \in Contacts : ContactOK(contact'[d])
  BY <1>2 DEF IInv, ContactOK
<1>5. StatusWasRecorded' /\ \A l \in Leads : LeadOK(lead'[l])
  BY DEF IInv, StatusWasRecorded
<1> QED
  BY <1>1, <1>2, <1>3, <1>4, <1>5, EndPreserves DEF TypeOK

LEMMA LeadWritePreserves ==
    ASSUME IInv, NEW w, NEW l \in Leads, NEW new \in LeadRow,
           NEW statuses \in SUBSET LeadStatus,
           lead' = [lead EXCEPT ![l] = new], recorded' = [recorded EXCEPT ![l] = statuses],
           UNCHANGED <<contact, task>>, Ends(w) \/ req' = req,
           new.status \in {"new"} \union statuses, new.status # "absent",
           lead[l].archived_at => new.archived_at,
           new.status = "archived" => new.archived_at
    PROVE  IInv' /\ Keeps
<1>1. TypeOK
  BY DEF IInv
<1>2. /\ lead' \in [Leads -> LeadRow] /\ lead'[l] = new
      /\ \A k \in Leads \ {l} : lead'[k] = lead[k]
  BY <1>1 DEF TypeOK
<1>3. /\ recorded' \in [Leads -> SUBSET LeadStatus] /\ recorded'[l] = statuses
      /\ \A k \in Leads \ {l} : recorded'[k] = recorded[k]
  BY <1>1 DEF TypeOK
<1>4. Keeps
  BY <1>2 DEF Keeps
<1>5. \A k \in Leads : LeadOK(lead'[k])
  BY <1>2 DEF IInv, LeadOK
<1>6. StatusWasRecorded'
  BY <1>2, <1>3 DEF IInv, StatusWasRecorded
<1>7. \A c \in Contacts : ContactOK(contact'[c])
  BY DEF IInv
<1> QED
  BY <1>1, <1>2, <1>3, <1>4, <1>5, <1>6, <1>7, EndPreserves DEF TypeOK

LEMMA TaskWritePreserves ==
    ASSUME IInv, NEW w, NEW t \in Tasks, NEW new \in TaskRow,
           task' = [task EXCEPT ![t] = new], UNCHANGED <<contact, lead, recorded>>,
           Ends(w) \/ req' = req, new.status # "absent"
    PROVE  IInv' /\ Keeps
<1>1. TypeOK
  BY DEF IInv
<1>2. /\ task' \in [Tasks -> TaskRow] /\ task'[t] = new
      /\ \A u \in Tasks \ {t} : task'[u] = task[u]
  BY <1>1 DEF TypeOK
<1>3. Keeps
  BY <1>2 DEF Keeps
<1>4. StatusWasRecorded' /\ \A l \in Leads : LeadOK(lead'[l])
  BY DEF IInv, StatusWasRecorded
<1>5. \A c \in Contacts : ContactOK(contact'[c])
  BY DEF IInv
<1> QED
  BY <1>1, <1>2, <1>3, <1>4, <1>5, EndPreserves DEF TypeOK

-----------------------------------------------------------------------------
(* The routes of contacts.                                                  *)

LEMMA NewContactRow ==
    ASSUME NEW status \in ContactStatus, NEW e \in Emails \union {None},
           NEW d \in Details \union {None}
    PROVE  /\ NewContact(status, e, d) \in ContactRow
           /\ NewContact(status, e, d).status = status
           /\ ~NewContact(status, e, d).archived_at
<1>1. NoContact \in ContactRow /\ ~NoContact.archived_at
  BY EmptyRows DEF NoContact
<1> QED
  BY <1>1 DEF NewContact, ContactRow

LEMMA CreateContactPreserves ==
    ASSUME IInv, NEW c \in Contacts, NEW status \in ContactStatus,
           NEW e \in Emails \union {None}, NEW d \in Details \union {None},
           CreateContact(c, status, e, d)
    PROVE  IInv' /\ Keeps
<1>1. ~contact[c].archived_at /\ status # "absent"
  BY DEF IInv, ContactOK, CreateContact, ContactStatus
<1>2. NewContact(status, e, d) \in ContactRow /\ NewContact(status, e, d).status # "absent"
  BY <1>1, NewContactRow
<1> QED
  BY <1>1, <1>2, ContactWritePreserves DEF CreateContact

LEMMA UpdateContactPreserves ==
    ASSUME IInv, NEW w \in Workers, NEW status \in ContactStatus,
           NEW e \in Emails \union {None}, NEW d \in Details \union {None},
           UpdateContact(w, status, e, d)
    PROVE  IInv' /\ Keeps
<1>1. req[w].route = "update_contact" /\ RowOK(req[w])
  BY DEF IInv, UpdateContact
<1>2. PICK c \in Contacts : c = req[w].id /\ contact[c].status # "absent"
  BY <1>1 DEF RowOK, ContactRoutes
<1>3. contact[c] \in ContactRow
  BY DEF IInv, TypeOK
<1>4. PICK s, f, g :
          /\ s = Written(req[w].seen.status, status, contact[c].status)
          /\ f = Written(req[w].seen.email, e, contact[c].email)
          /\ g = Written(req[w].seen.details, d, contact[c].details)
  OBVIOUS
<1>5. s \in ContactStatus /\ f \in Emails \union {None} /\ g \in Details \union {None}
  BY <1>2, <1>3, <1>4 DEF Written, ContactRow
<1>6. PICK new : new = [contact[c] EXCEPT !.status = s, !.email = f, !.details = g]
  OBVIOUS
<1>7. /\ new \in ContactRow /\ new.status # "absent"
      /\ new.archived_at = contact[c].archived_at
  BY <1>3, <1>5, <1>6 DEF ContactRow, ContactStatus
<1>8. contact' = [contact EXCEPT ![c] = new]
  BY <1>2, <1>4, <1>6 DEF UpdateContact
<1>9. contact[c].archived_at => new.archived_at
  BY <1>7
<1>10. UNCHANGED <<lead, task, recorded>> /\ Ends(w)
  BY DEF UpdateContact
<1> QED
  BY <1>7, <1>8, <1>9, <1>10, ContactWritePreserves

LEMMA ArchiveContactPreserves ==
    ASSUME IInv, NEW w \in Workers, ArchiveContact(w)
    PROVE  IInv' /\ Keeps
<1>1. req[w].route = "archive_contact" /\ RowOK(req[w])
  BY DEF IInv, ArchiveContact
<1>2. PICK c \in Contacts : c = req[w].id /\ contact[c].status # "absent"
  BY <1>1 DEF RowOK, ContactRoutes
<1>3. contact[c] \in ContactRow /\ req[w].seen \in ContactRow
  BY <1>1 DEF IInv, TypeOK, RowOK, ContactRoutes
<1>4. PICK s, a :
          /\ s = Written(req[w].seen.status, "archived", contact[c].status)
          /\ a = Stamped(req[w].seen.archived_at, contact[c].archived_at)
  OBVIOUS
<1>5. /\ s \in ContactStatus /\ a \in BOOLEAN
      /\ contact[c].archived_at => a
  BY <1>2, <1>3, <1>4, StampedIn DEF Written, ContactRow, ContactStatus
<1>6. PICK new : new = [contact[c] EXCEPT !.status = s, !.archived_at = a]
  OBVIOUS
<1>7. new \in ContactRow /\ new.status # "absent" /\ new.archived_at = a
  BY <1>3, <1>5, <1>6 DEF ContactRow, ContactStatus
<1>8. contact' = [contact EXCEPT ![c] = new]
  BY <1>2, <1>4, <1>6 DEF ArchiveContact
<1> QED
  BY <1>5, <1>7, <1>8, ContactWritePreserves DEF ArchiveContact

-----------------------------------------------------------------------------
(* The routes of leads.                                                     *)

LEMMA NewLeadRow ==
    ASSUME NEW c \in Contacts, NEW d \in Details \union {None}
    PROVE  /\ NewLead(c, d) \in LeadRow
           /\ NewLead(c, d).status = "new" /\ ~NewLead(c, d).archived_at
<1>1. NoLead \in LeadRow /\ ~NoLead.archived_at /\ "new" \in LeadStatus
  BY EmptyRows DEF NoLead, LeadStatus
<1> QED
  BY <1>1 DEF NewLead, LeadRow

LEMMA CreateLeadPreserves ==
    ASSUME IInv, NEW w \in Workers, NEW l \in Leads, NEW d \in Details \union {None},
           CreateLead(w, l, d)
    PROVE  IInv' /\ Keeps
<1>1. req[w].route = "create_lead" /\ RowOK(req[w])
  BY DEF IInv, CreateLead
<1>2. PICK c \in Contacts : c = req[w].id
  BY <1>1 DEF RowOK, ContactRoutes
<1>3. /\ NewLead(c, d) \in LeadRow
      /\ NewLead(c, d).status = "new" /\ ~NewLead(c, d).archived_at
  BY NewLeadRow
<1>4. ~lead[l].archived_at
  BY DEF IInv, LeadOK, CreateLead
<1>5. recorded' = [recorded EXCEPT ![l] = recorded[l]] /\ recorded[l] \in SUBSET LeadStatus
  BY DEF IInv, TypeOK, CreateLead
<1> QED
  BY <1>2, <1>3, <1>4, <1>5, LeadWritePreserves DEF CreateLead

\* The contact and the lead are both new.
LEMMA CreateLeadWithContactPreserves ==
    ASSUME IInv, NEW c \in Contacts, NEW l \in Leads,
           NEW status \in ContactStatus, NEW e \in Emails \union {None},
           NEW d \in Details \union {None}, CreateLeadWithContact(c, l, status, e, d)
    PROVE  IInv' /\ Keeps
<1>1. TypeOK /\ ~contact[c].archived_at /\ ~lead[l].archived_at
  BY DEF IInv, ContactOK, LeadOK, CreateLeadWithContact
<1>2. PICK row, new : row = NewContact(status, e, d) /\ new = NewLead(c, d)
  OBVIOUS
<1>3. /\ row \in ContactRow /\ row.status # "absent" /\ ~row.archived_at
      /\ new \in LeadRow /\ new.status = "new" /\ ~new.archived_at
  BY <1>2, NewContactRow, NewLeadRow DEF ContactStatus
<1>4. /\ contact' \in [Contacts -> ContactRow] /\ contact'[c] = row
      /\ \A k \in Contacts \ {c} : contact'[k] = contact[k]
  BY <1>1, <1>2, <1>3 DEF TypeOK, CreateLeadWithContact
<1>5. /\ lead' \in [Leads -> LeadRow] /\ lead'[l] = new
      /\ \A k \in Leads \ {l} : lead'[k] = lead[k]
  BY <1>1, <1>2, <1>3 DEF TypeOK, CreateLeadWithContact
<1>6. task' = task /\ recorded' = recorded /\ req' = req
  BY DEF CreateLeadWithContact
<1>7. Keeps
  BY <1>1, <1>3, <1>4, <1>5, <1>6 DEF Keeps
<1>8. StatusWasRecorded'
  BY <1>3, <1>5, <1>6 DEF IInv, StatusWasRecorded
<1>9. \A k \in Leads : LeadOK(lead'[k])
  BY <1>3, <1>5 DEF IInv, LeadOK
<1>10. \A k \in Contacts : ContactOK(contact'[k])
  BY <1>3, <1>4 DEF IInv, ContactOK
<1> QED
  BY <1>1, <1>4, <1>5, <1>6, <1>7, <1>8, <1>9, <1>10, EndPreserves DEF TypeOK

LEMMA UpdateLeadPreserves ==
    ASSUME IInv, NEW w \in Workers, NEW d \in Details \union {None}, UpdateLead(w, d)
    PROVE  IInv' /\ Keeps
<1>1. req[w].route = "update_lead" /\ RowOK(req[w])
  BY DEF IInv, UpdateLead
<1>2. PICK l \in Leads : l = req[w].id /\ lead[l].status # "absent"
  BY <1>1 DEF RowOK, LeadRoutes
<1>3. /\ lead[l] \in LeadRow /\ recorded[l] \in SUBSET LeadStatus
      /\ lead[l].status \in {"new"} \union recorded[l] /\ LeadOK(lead[l])
  BY <1>2 DEF IInv, TypeOK, StatusWasRecorded
<1>4. PICK g : g = Written(req[w].seen.details, d, lead[l].details)
  OBVIOUS
<1>5. g \in Details \union {None}
  BY <1>3, <1>4 DEF Written, LeadRow
<1>6. PICK new : new = [lead[l] EXCEPT !.details = g]
  OBVIOUS
<1>7. /\ new \in LeadRow /\ new.status = lead[l].status
      /\ new.archived_at = lead[l].archived_at
  BY <1>3, <1>5, <1>6 DEF LeadRow
<1>8. lead' = [lead EXCEPT ![l] = new]
  BY <1>2, <1>4, <1>6 DEF UpdateLead
<1>9. recorded' = [recorded EXCEPT ![l] = recorded[l]]
  BY DEF IInv, TypeOK, UpdateLead
<1> QED
  BY <1>2, <1>3, <1>7, <1>8, <1>9, LeadWritePreserves DEF UpdateLead, LeadOK

\* The new status is recorded; the loaded one, if it stays, was.
LEMMA ChangeLeadStatusPreserves ==
    ASSUME IInv, NEW w \in Workers, NEW target \in Targets,
           NEW reason \in Reasons \union {None}, ChangeLeadStatus(w, target, reason)
    PROVE  IInv' /\ Keeps
<1>1. req[w].route = "change_status" /\ RowOK(req[w]) /\ target # "archived"
  BY DEF IInv, ChangeLeadStatus
<1>2. PICK l \in Leads : l = req[w].id /\ lead[l].status # "absent"
  BY <1>1 DEF RowOK, LeadRoutes
<1>3. /\ lead[l] \in LeadRow /\ recorded[l] \in SUBSET LeadStatus
      /\ lead[l].status \in {"new"} \union recorded[l] /\ LeadOK(lead[l])
  BY <1>2 DEF IInv, TypeOK, StatusWasRecorded
<1>4. PICK s, f :
          /\ s = Written(req[w].seen.status, target, lead[l].status)
          /\ f = Written(req[w].seen.lost_reason, reason, lead[l].lost_reason)
  OBVIOUS
<1>5. s \in {target, lead[l].status} /\ f \in Reasons \union {None}
  BY <1>3, <1>4 DEF Written, LeadRow
<1>6. target \in LeadStatus /\ target # "absent" /\ s # "absent" /\ s \in LeadStatus
  BY <1>2, <1>3, <1>5, TargetsAssumption DEF LeadStatus, LeadRow
<1>7. PICK new : new = [lead[l] EXCEPT !.status = s, !.lost_reason = f]
  OBVIOUS
<1>8. /\ new \in LeadRow /\ new.status = s
      /\ new.archived_at = lead[l].archived_at
  BY <1>3, <1>5, <1>6, <1>7 DEF LeadRow
<1>9. lead' = [lead EXCEPT ![l] = new]
  BY <1>2, <1>4, <1>7 DEF ChangeLeadStatus
<1>10. PICK statuses : statuses = recorded[l] \union {target}
  OBVIOUS
<1>11. statuses \in SUBSET LeadStatus /\ s \in {"new"} \union statuses
  BY <1>3, <1>5, <1>6, <1>10
<1>12. recorded' = [recorded EXCEPT ![l] = statuses]
  BY <1>2, <1>10 DEF ChangeLeadStatus
<1>13. s = "archived" => lead[l].archived_at
  BY <1>1, <1>3, <1>5 DEF LeadOK
<1>14. UNCHANGED <<contact, task>> /\ Ends(w)
  BY DEF ChangeLeadStatus
<1> QED
  BY <1>6, <1>8, <1>9, <1>11, <1>12, <1>13, <1>14, LeadWritePreserves

\* Whoever loaded archived_at finds it; whoever did not writes it.
LEMMA ArchiveLeadPreserves ==
    ASSUME IInv, NEW w \in Workers, ArchiveLead(w)
    PROVE  IInv' /\ Keeps
<1>1. req[w].route = "archive_lead" /\ RowOK(req[w])
  BY DEF IInv, ArchiveLead
<1>2. PICK l \in Leads : l = req[w].id /\ lead[l].status # "absent"
  BY <1>1 DEF RowOK, LeadRoutes
<1>3. /\ lead[l] \in LeadRow /\ recorded[l] \in SUBSET LeadStatus
      /\ lead[l].status \in {"new"} \union recorded[l] /\ LeadOK(lead[l])
      /\ req[w].seen \in LeadRow /\ (req[w].seen.archived_at => lead[l].archived_at)
  BY <1>1, <1>2 DEF IInv, TypeOK, StatusWasRecorded, RowOK, LeadRoutes
<1>4. PICK s, a :
          /\ s = Written(req[w].seen.status, "archived", lead[l].status)
          /\ a = Stamped(req[w].seen.archived_at, lead[l].archived_at)
  OBVIOUS
<1>5. s \in {"archived", lead[l].status}
  BY <1>4 DEF Written
<1>6. a = TRUE
  <2>1. lead[l].archived_at \in BOOLEAN
    BY <1>3 DEF LeadRow
  <2>2. req[w].seen.archived_at \in BOOLEAN
    BY <1>3 DEF LeadRow
  <2>3. a = IF TRUE = req[w].seen.archived_at THEN lead[l].archived_at ELSE TRUE
    BY <1>4 DEF Stamped, Written
  <2>4. CASE req[w].seen.archived_at
    BY <1>3, <2>1, <2>2, <2>3, <2>4
  <2>5. CASE ~req[w].seen.archived_at
    BY <2>2, <2>3, <2>5
  <2> QED
    BY <2>4, <2>5
<1>7. PICK new : new = [lead[l] EXCEPT !.status = s, !.archived_at = a]
  OBVIOUS
<1>8. s \in LeadStatus /\ s # "absent"
  BY <1>2, <1>3, <1>5 DEF LeadRow, LeadStatus
<1>9. new \in LeadRow /\ new.status = s /\ new.archived_at = TRUE
  BY <1>3, <1>6, <1>7, <1>8 DEF LeadRow
<1>10. lead' = [lead EXCEPT ![l] = new]
  BY <1>2, <1>4, <1>7 DEF ArchiveLead
<1>11. PICK statuses : statuses = recorded[l] \union {"archived"}
  OBVIOUS
<1>12. statuses \in SUBSET LeadStatus /\ s \in {"new"} \union statuses
  BY <1>3, <1>5, <1>11 DEF LeadStatus
<1>13. recorded' = [recorded EXCEPT ![l] = statuses]
  BY <1>2, <1>11 DEF ArchiveLead
<1>14. UNCHANGED <<contact, task>> /\ Ends(w)
  BY DEF ArchiveLead
<1> QED
  BY <1>8, <1>9, <1>10, <1>12, <1>13, <1>14, LeadWritePreserves
-----------------------------------------------------------------------------
(* The routes of tasks.                                                     *)

LEMMA CreateTaskPreserves ==
    ASSUME IInv, NEW w \in Workers, NEW t \in Tasks, NEW d \in Details \union {None},
           CreateTask(w, t, d)
    PROVE  IInv' /\ Keeps
<1>1. req[w].route = "create_task" /\ RowOK(req[w])
  BY DEF IInv, CreateTask
<1>2. req[w].id \in Leads /\ req[w].seen.contact \in Contacts \union {None}
  BY <1>1 DEF RowOK, LeadRoutes, LeadRow
<1>3. PICK new :
          new = [NoTask EXCEPT !.status = "todo", !.lead = req[w].id,
                               !.contact = req[w].seen.contact, !.details = d]
  OBVIOUS
<1>4. new \in TaskRow /\ new.status # "absent"
  <2>1. NoTask \in TaskRow /\ "todo" \in TaskStatus
    BY EmptyRows DEF TaskStatus
  <2> QED
    BY <1>2, <1>3, <2>1 DEF TaskRow
<1>5. task' = [task EXCEPT ![t] = new] /\ UNCHANGED <<contact, lead, recorded>> /\ Ends(w)
  BY <1>3 DEF CreateTask
<1> QED
  BY <1>4, <1>5, TaskWritePreserves

LEMMA CreateContactTaskPreserves ==
    ASSUME IInv, NEW t \in Tasks, NEW c \in Contacts,
           NEW d \in Details \union {None}, CreateContactTask(t, c, d)
    PROVE  IInv' /\ Keeps
<1>1. PICK new : new = [NoTask EXCEPT !.status = "todo", !.contact = c, !.details = d]
  OBVIOUS
<1>2. new \in TaskRow /\ new.status # "absent"
  <2>1. NoTask \in TaskRow /\ "todo" \in TaskStatus
    BY EmptyRows DEF TaskStatus
  <2> QED
    BY <1>1, <2>1 DEF TaskRow
<1>3. task' = [task EXCEPT ![t] = new] /\ UNCHANGED <<contact, lead, recorded>> /\ req' = req
  BY <1>1 DEF CreateContactTask
<1> QED
  BY <1>2, <1>3, TaskWritePreserves

LEMMA UpdateTaskPreserves ==
    ASSUME IInv, NEW w \in Workers, NEW status \in TaskStatus \union {None},
           NEW d \in Details \union {None}, UpdateTask(w, status, d)
    PROVE  IInv' /\ Keeps
<1>1. req[w].route = "update_task" /\ RowOK(req[w])
  BY DEF IInv, UpdateTask
<1>2. PICK t \in Tasks : t = req[w].id /\ task[t].status # "absent"
  BY <1>1 DEF RowOK, TaskRoutes
<1>3. task[t] \in TaskRow /\ req[w].seen \in TaskRow
  BY <1>1 DEF IInv, TypeOK, RowOK, TaskRoutes
<1>4. PICK s, a, g :
          /\ s = IF status = None THEN task[t].status
                 ELSE Written(req[w].seen.status, status, task[t].status)
          /\ a = CASE status = None -> task[t].completed_at
                   [] status = "completed" -> Stamped(req[w].seen.completed_at, task[t].completed_at)
                   [] OTHER -> Written(req[w].seen.completed_at, FALSE, task[t].completed_at)
          /\ g = Written(req[w].seen.details, d, task[t].details)
  OBVIOUS
<1>5. s \in TaskStatus /\ g \in Details \union {None}
  BY <1>2, <1>3, <1>4 DEF Written, TaskRow
<1>6. a \in BOOLEAN
  <2>1. task[t].completed_at \in BOOLEAN
    BY <1>3 DEF TaskRow
  <2>2. CASE status = None
    <3>1. status # "completed"
      BY <2>2, NullAssumption DEF TaskStatus
    <3> QED
      BY <1>4, <2>1, <2>2, <3>1
  <2>3. CASE status # None /\ status = "completed"
    <3>1. a = Stamped(req[w].seen.completed_at, task[t].completed_at)
      BY <1>4, <2>3
    <3>2. a = task[t].completed_at \/ a = TRUE
      BY <3>1 DEF Stamped, Written
    <3> QED
      BY <2>1, <3>2
  <2>4. CASE status # None /\ status # "completed"
    <3>1. a = Written(req[w].seen.completed_at, FALSE, task[t].completed_at)
      BY <1>4, <2>4
    <3>2. a = task[t].completed_at \/ a = FALSE
      BY <3>1 DEF Written
    <3> QED
      BY <2>1, <3>2
  <2> QED
    BY <2>2, <2>3, <2>4
<1>7. PICK new : new = [task[t] EXCEPT !.status = s, !.completed_at = a, !.details = g]
  OBVIOUS
<1>8. new \in TaskRow /\ new.status # "absent"
  BY <1>3, <1>5, <1>6, <1>7 DEF TaskRow, TaskStatus
<1>9. task' = [task EXCEPT ![t] = new] /\ UNCHANGED <<contact, lead, recorded>> /\ Ends(w)
  BY <1>2, <1>4, <1>7 DEF UpdateTask, WriteTask
<1> QED
  BY <1>8, <1>9, TaskWritePreserves

LEMMA CompleteTaskPreserves ==
    ASSUME IInv, NEW w \in Workers, CompleteTask(w)
    PROVE  IInv' /\ Keeps
<1>1. req[w].route = "complete_task" /\ RowOK(req[w])
  BY DEF IInv, CompleteTask
<1>2. PICK t \in Tasks : t = req[w].id /\ task[t].status # "absent"
  BY <1>1 DEF RowOK, TaskRoutes
<1>3. task[t] \in TaskRow
  BY DEF IInv, TypeOK
<1>4. PICK s, a :
          /\ s = Written(req[w].seen.status, "completed", task[t].status)
          /\ a = Stamped(req[w].seen.completed_at, task[t].completed_at)
  OBVIOUS
<1>5. s \in TaskStatus
  BY <1>2, <1>3, <1>4 DEF Written, TaskRow, TaskStatus
<1>6. a \in BOOLEAN
  <2>1. task[t].completed_at \in BOOLEAN
    BY <1>3 DEF TaskRow
  <2>2. a = task[t].completed_at \/ a = TRUE
    BY <1>4 DEF Stamped, Written
  <2> QED
    BY <2>1, <2>2
<1>7. PICK new : new = [task[t] EXCEPT !.status = s, !.completed_at = a]
  OBVIOUS
<1>8. new \in TaskRow /\ new.status # "absent"
  BY <1>3, <1>5, <1>6, <1>7 DEF TaskRow, TaskStatus
<1>9. task' = [task EXCEPT ![t] = new] /\ UNCHANGED <<contact, lead, recorded>> /\ Ends(w)
  BY <1>2, <1>4, <1>7 DEF CompleteTask, WriteTask
<1> QED
  BY <1>8, <1>9, TaskWritePreserves

-----------------------------------------------------------------------------
(* The invariant and the theorems.                                          *)

LEMMA LoadsKeep ==
    ASSUME NEW w \in Workers, NEW route, NEW id, NEW row, Load(w, route, id, row)
    PROVE  Keeps
  BY DEF Load, Keeps

LEMMA StepPreserves ==
    ASSUME IInv, NEW w \in Workers, Step(w)
    PROVE  IInv' /\ Keeps
<1>1. CASE \E c \in Contacts : LoadContact(w, c)
  BY <1>1, LoadContactPreserves, LoadsKeep DEF LoadContact
<1>2. CASE \E l \in Leads : LoadLead(w, l)
  BY <1>2, LoadLeadPreserves, LoadsKeep DEF LoadLead
<1>3. CASE \E t \in Tasks : LoadTask(w, t)
  BY <1>3, LoadTaskPreserves, LoadsKeep DEF LoadTask
<1>4. CASE \E status \in ContactStatus, e \in Emails \union {None},
              d \in Details \union {None} : UpdateContact(w, status, e, d)
  BY <1>4, UpdateContactPreserves
<1>5. CASE ArchiveContact(w)
  BY <1>5, ArchiveContactPreserves
<1>6. CASE \E l \in Leads, d \in Details \union {None} : CreateLead(w, l, d)
  BY <1>6, CreateLeadPreserves
<1>7. CASE \E d \in Details \union {None} : UpdateLead(w, d)
  BY <1>7, UpdateLeadPreserves
<1>8. CASE \E target \in Targets, reason \in Reasons \union {None} :
              ChangeLeadStatus(w, target, reason)
  BY <1>8, ChangeLeadStatusPreserves
<1>9. CASE ArchiveLead(w)
  BY <1>9, ArchiveLeadPreserves
<1>10. CASE \E t \in Tasks, d \in Details \union {None} : CreateTask(w, t, d)
  BY <1>10, CreateTaskPreserves
<1>11. CASE \E status \in TaskStatus \union {None}, d \in Details \union {None} :
               UpdateTask(w, status, d)
  BY <1>11, UpdateTaskPreserves
<1>12. CASE CompleteTask(w)
  BY <1>12, CompleteTaskPreserves
<1>13. CASE Rollback(w)
  BY <1>13, RollbackPreserves
<1> QED
  BY <1>1, <1>2, <1>3, <1>4, <1>5, <1>6, <1>7, <1>8, <1>9, <1>10, <1>11, <1>12, <1>13
     DEF Step

LEMMA StutterPreserves == IInv /\ UNCHANGED vars => IInv'
  BY DEF IInv, TypeOK, StatusWasRecorded, RowOK, vars

LEMMA CreatePreserves ==
    ASSUME IInv, NEW c \in Contacts, NEW status \in ContactStatus,
           NEW e \in Emails \union {None}, NEW d \in Details \union {None},
           \/ CreateContact(c, status, e, d)
           \/ \E l \in Leads : CreateLeadWithContact(c, l, status, e, d)
           \/ \E t \in Tasks : CreateContactTask(t, c, d)
    PROVE  IInv' /\ Keeps
  BY CreateContactPreserves, CreateLeadWithContactPreserves, CreateContactTaskPreserves

LEMMA NextPreserves == ASSUME IInv, Next  PROVE IInv' /\ Keeps
<1>1. CASE \E w \in Workers : Step(w)
  BY <1>1, StepPreserves
<1>2. CASE \E c \in Contacts, e \in Emails \union {None}, d \in Details \union {None},
              status \in ContactStatus :
              \/ CreateContact(c, status, e, d)
              \/ \E l \in Leads : CreateLeadWithContact(c, l, status, e, d)
  BY <1>2, CreatePreserves
<1>3. CASE \E t \in Tasks, c \in Contacts, d \in Details \union {None} :
              CreateContactTask(t, c, d)
  <2>1. "active" \in ContactStatus
    BY DEF ContactStatus
  <2> QED
    BY <1>3, <2>1, CreatePreserves
<1> QED
  BY <1>1, <1>2, <1>3 DEF Next

LEMMA Invariance == Spec => []IInv
<1>1. IInv /\ [Next]_vars => IInv'
  BY NextPreserves, StutterPreserves
<1> QED
  BY <1>1, InitInv, PTL DEF Spec

\* Contacts, leads, tasks and the requests in progress keep the columns of their tables,
\* for any number of them.
THEOREM TypeCorrectness == Spec => []TypeOK
<1>1. IInv => TypeOK
  BY DEF IInv
<1> QED
  BY <1>1, Invariance, PTL

\* The history of a lead (add_activity) misses none of its statuses, however stale the
\* lead was that change_lead_status and archive_lead had loaded.
THEOREM HistoryIsComplete == Spec => []StatusWasRecorded
<1>1. IInv => StatusWasRecorded
  BY DEF IInv
<1> QED
  BY <1>1, Invariance, PTL

\* No request, stale as it may be, takes archived_at from a lead or a contact, or leaves
\* a lead archived without it (archive_lead, change_lead_status, update_contact).
THEOREM ArchivesLast == Spec => ArchivedAtIsFinal
<1> DEFINE Final ==
      /\ \A l \in Leads :
            /\ lead[l].archived_at => lead'[l].archived_at
            /\ lead'[l].status = "archived" => lead'[l].archived_at
      /\ \A c \in Contacts : contact[c].archived_at => contact'[c].archived_at
<1>1. IInv /\ [Next]_vars => [Final]_vars
  <2> SUFFICES ASSUME IInv, Next  PROVE Final
      OBVIOUS
  <2>1. IInv' /\ Keeps
    BY NextPreserves
  <2>2. \A l \in Leads : lead'[l].status = "archived" => lead'[l].archived_at
    BY <2>1 DEF IInv, LeadOK
  <2> QED
    BY <2>1, <2>2 DEF Keeps
<1> QED
  BY <1>1, Invariance, PTL DEF Spec, ArchivedAtIsFinal
=============================================================================
