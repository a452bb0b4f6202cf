--------------------------- MODULE PlatformProofs ---------------------------
(***************************************************************************)
(* What the platform guarantees of invitations and owners, proved for any  *)
(* number of workers, companies, invitations and addresses.                *)
(*                                                                         *)
(* Listings and loads lock nothing, so that a request may close an         *)
(* invitation that was decided meanwhile.  The argument rests on the row   *)
(* locks of the invitations that are being written, on the unique index,   *)
(* which keeps the insertions in progress apart, and on accepted_at, which *)
(* nobody takes back.                                                      *)
(***************************************************************************)
EXTENDS Platform, TLAPS, FiniteSetTheorems

\* An invitation that is there has the address and the company that it is for.
InvitationOK(i) ==
    /\ invitation[i].status = "absent" => ~invitation[i].accepted_at
    /\ invitation[i].status # "absent" =>
          /\ invitation[i].company \in Companies /\ invitation[i].email \in Emails
          /\ company[invitation[i].company].status # "absent"

\* No two pending invitations are for the same address and company.
PendingApart ==
    \A i, j \in Invitations :
        /\ invitation[i].status = "pending" /\ invitation[j].status = "pending"
        /\ invitation[i].company = invitation[j].company
        /\ invitation[i].email = invitation[j].email
        => i = j

\* What an invite_owner in progress has to insert: nobody has the identifier, and every
\* pending invitation of the address is one that it closes.
InsertOK(row) ==
    row.new # None =>
        /\ row.phase = "flushed" /\ row.route = "invite" /\ row.email \in Emails
        /\ invitation[row.new].status = "absent"
        /\ \A i \in Invitations :
              invitation[i].status = "pending" /\ invitation[i].company = row.c
                  /\ invitation[i].email = row.email
              => i \in row.closing

\* The invitation that an acceptance holds is as it found it.
AcceptOK(row) ==
    row.phase \in {"locked", "accepted"} =>
        /\ row.i \in Invitations /\ row.i \in row.locks
        /\ invitation[row.i].status = "pending"
        /\ invitation[row.i].company = row.c /\ invitation[row.i].email = row.email

\* The rows that a request knows exist, and what it flushed it has locked.
KnowsOK(row) ==
    /\ \A i \in row.closing \union row.locks : invitation[i].status # "absent"
    /\ row.phase = "flushed" => row.closing \subseteq row.locks
    /\ row.phase = "listed" => row.route = "invite"
    /\ row.phase \in {"listed", "flushed", "loaded"}
          /\ row.route \in {"invite", "suspend", "reactivate"} =>
          row.c \in Companies /\ company[row.c].status # "absent"

RowOK(row) == InsertOK(row) /\ AcceptOK(row) /\ KnowsOK(row)

\* Two requests in progress lock different invitations, and insert different ones, for
\* different addresses or companies.
Apart(r, s) ==
    /\ r.locks \intersect s.locks = {}
    /\ r.new # None => r.new # s.new
    /\ r.new # None /\ s.new # None => r.c # s.c \/ r.email # s.email

\* The inductive invariant.
IInv ==
    /\ TypeOK
    /\ \A i \in Invitations : InvitationOK(i)
    /\ PendingApart
    /\ OwnersWereInvited
    /\ \A w \in Workers : RowOK(req[w])
    /\ \A v, w \in Workers : v # w => Apart(req[v], req[w])

-----------------------------------------------------------------------------
(* Typing and the empty rows.                                               *)

LEMMA EmptyRows ==
    NoCompany \in CompanyRow /\ NoInvitation \in InvitationRow /\ Idle \in Transaction
<1>1. NoCompany \in CompanyRow
  BY DEF NoCompany, CompanyRow
<1>2. NoInvitation \in InvitationRow
  BY DEF NoInvitation, InvitationRow
<1> QED
  BY <1>1, <1>2 DEF Idle, Transaction

LEMMA IdleOK == RowOK(Idle) /\ \A s : Apart(Idle, s)
  BY DEF RowOK, InsertOK, AcceptOK, KnowsOK, Apart, Idle

LEMMA ApartCommutes == ASSUME NEW r, NEW s, Apart(r, s)  PROVE Apart(s, r)
  BY DEF Apart

LEMMA NewInvitationRow ==
    ASSUME NEW c \in Companies, NEW e \in Emails
    PROVE  /\ NewInvitation(c, e) \in InvitationRow
           /\ NewInvitation(c, e).status = "pending"
           /\ NewInvitation(c, e).company = c /\ NewInvitation(c, e).email = e
           /\ NewInvitation(c, e).accepted_at = FALSE
<1>1. NoInvitation \in InvitationRow /\ NoInvitation.accepted_at = FALSE
  BY EmptyRows DEF NoInvitation
<1> QED
  BY <1>1 DEF NewInvitation, InvitationRow

LEMMA ClosedRow ==
    ASSUME NEW w \in Workers, NEW row \in InvitationRow
    PROVE  /\ Closed(w, row) \in InvitationRow
           /\ Closed(w, row).status \in {"expired", "revoked"}
           /\ Closed(w, row).company = row.company /\ Closed(w, row).email = row.email
           /\ Closed(w, row).accepted_at = row.accepted_at
  BY DEF Closed, InvitationRow

LEMMA InitInv == Init => IInv
<1> SUFFICES ASSUME Init  PROVE IInv
    OBVIOUS
<1>1. [NoCompany EXCEPT !.status = "active"] \in CompanyRow
  BY EmptyRows DEF CompanyRow
<1>2. TypeOK
  BY <1>1, EmptyRows DEF Init, TypeOK
<1>3. \A i \in Invitations : InvitationOK(i)
  BY DEF Init, InvitationOK, NoInvitation
<1>4. PendingApart
  BY DEF Init, PendingApart, NoInvitation
<1>5. OwnersWereInvited
  BY DEF Init, OwnersWereInvited, NoInvitation
<1>6. \A w \in Workers : RowOK(req[w])
  BY IdleOK DEF Init
<1>7. \A v, w \in Workers : Apart(req[v], req[w])
  BY IdleOK DEF Init
<1> QED
  BY <1>2, <1>3, <1>4, <1>5, <1>6, <1>7 DEF IInv

\* What the invariant says of the pending invitations is what the run checks.
LEMMA OneIsEnough == IInv => OnePendingPerEmail
<1> SUFFICES ASSUME IInv, NEW c \in Companies, NEW e \in Emails
             PROVE  Cardinality(PendingFor(c, e)) <= 1
    BY DEF OnePendingPerEmail
<1>1. \A i, j \in PendingFor(c, e) : i = j
  BY DEF IInv, PendingApart, PendingFor, Pending
<1>2. CASE PendingFor(c, e) = {}
  BY <1>2, FS_EmptySet
<1>3. CASE PendingFor(c, e) # {}
  <2>1. PICK i : PendingFor(c, e) = {i}
    BY <1>1, <1>3
  <2> QED
    BY <2>1, FS_Singleton
<1> QED
  BY <1>2, <1>3

-----------------------------------------------------------------------------
(* A request changes nothing but its own transaction.                       *)

LEMMA ChangePreserves ==
    ASSUME IInv, NEW w \in Workers, NEW row \in Transaction, Change(w, row), RowOK(row),
           \A v \in Workers \ {w} : Apart(row, req[v])
    PROVE  IInv'
<1>1. UNCHANGED <<company, invitation, overdue, users, owners>>
  BY DEF Change, committed
<1>2. /\ req' \in [Workers -> Transaction] /\ req'[w] = row
      /\ \A v \in Workers \ {w} : req'[v] = req[v]
  BY DEF IInv, TypeOK, Change
<1>3. TypeOK'
  BY <1>1, <1>2 DEF IInv, TypeOK
<1>4. \A i \in Invitations : InvitationOK(i)'
  BY <1>1 DEF IInv, InvitationOK
<1>5. PendingApart'
  BY <1>1 DEF IInv, PendingApart
<1>6. OwnersWereInvited'
  BY <1>1 DEF IInv, OwnersWereInvited
<1>7. ASSUME NEW v \in Workers  PROVE RowOK(req[v])'
  <2>1. PICK s : s = req'[v] /\ RowOK(s)
    BY <1>2 DEF IInv
  <2> QED
    BY <1>1, <2>1 DEF RowOK, InsertOK, AcceptOK, KnowsOK
<1>8. ASSUME NEW u \in Workers, NEW v \in Workers, u # v  PROVE Apart(req[u], req[v])'
  <2>1. PICK r, s : r = req'[u] /\ s = req'[v]
    OBVIOUS
  <2>2. Apart(r, s)
    BY <1>2, <1>8, <2>1, ApartCommutes DEF IInv
  <2> QED
    BY <2>1, <2>2 DEF Apart
<1> QED
  BY <1>3, <1>4, <1>5, <1>6, <1>7, <1>8 DEF IInv

\* A request that locks nothing and inserts nothing.
LEMMA LoadPreserves ==
    ASSUME IInv, NEW w \in Workers, NEW row \in Transaction, Change(w, row), RowOK(row),
           row.locks = {}, row.new = None
    PROVE  IInv'
  BY ChangePreserves DEF Apart

LEMMA RollbackPreserves ==
    ASSUME IInv, NEW w \in Workers, Rollback(w)
    PROVE  IInv'
  BY ChangePreserves, EmptyRows, IdleOK DEF Rollback

LEMMA ListPendingPreserves ==
    ASSUME IInv, NEW w \in Workers, NEW c \in Companies, ListPending(w, c)
    PROVE  IInv'
<1>1. PICK row :
          row = [Idle EXCEPT !.phase = "listed", !.route = "invite", !.c = c,
                             !.closing = Pending(c)]
  OBVIOUS
<1>2. Pending(c) \in SUBSET Invitations
  BY DEF Pending
<1>3. row \in Transaction
  BY <1>1, <1>2, EmptyRows DEF Transaction
<1>4. /\ row.phase = "listed" /\ row.route = "invite" /\ row.c = c /\ row.new = None
      /\ row.closing = Pending(c) /\ row.locks = {}
  BY <1>1 DEF Idle
<1>5. RowOK(row)
  BY <1>4 DEF RowOK, InsertOK, AcceptOK, KnowsOK, ListPending, Pending
<1> QED
  BY <1>1, <1>3, <1>4, <1>5, LoadPreserves DEF ListPending

LEMMA LoadInvitationPreserves ==
    ASSUME IInv, NEW w \in Workers, NEW route, NEW i \in Invitations,
           LoadInvitation(w, route, i)
    PROVE  IInv'
<1>1. PICK row : row = [Idle EXCEPT !.phase = "loaded", !.route = route, !.closing = {i}]
  OBVIOUS
<1>2. route \in {"revoke", "validate"} /\ invitation[i].status = "pending"
  BY DEF LoadInvitation
<1>3. row \in Transaction
  BY <1>1, <1>2, EmptyRows DEF Transaction
<1>4. /\ row.phase = "loaded" /\ row.route = route /\ row.new = None
      /\ row.closing = {i} /\ row.locks = {}
  BY <1>1 DEF Idle
<1>5. RowOK(row)
  BY <1>2, <1>4 DEF RowOK, InsertOK, AcceptOK, KnowsOK
<1> QED
  BY <1>1, <1>3, <1>4, <1>5, LoadPreserves DEF LoadInvitation

LEMMA LoadCompanyPreserves ==
    ASSUME IInv, NEW w \in Workers, NEW route, NEW c \in Companies, LoadCompany(w, route, c)
    PROVE  IInv'
<1>1. PICK row :
          row = [Idle EXCEPT !.phase = "loaded", !.route = route, !.c = c, !.seen = company[c]]
  OBVIOUS
<1>2. route \in {"suspend", "reactivate"} /\ company[c].status # "absent"
  BY DEF LoadCompany
<1>3. company[c] \in CompanyRow
  BY DEF IInv, TypeOK
<1>4. row \in Transaction
  BY <1>1, <1>2, <1>3, EmptyRows DEF Transaction
<1>5. /\ row.phase = "loaded" /\ row.route = route /\ row.new = None /\ row.c = c
      /\ row.closing = {} /\ row.locks = {}
  BY <1>1 DEF Idle
<1>6. RowOK(row)
  BY <1>2, <1>5 DEF RowOK, InsertOK, AcceptOK, KnowsOK
<1> QED
  BY <1>1, <1>4, <1>5, <1>6, LoadPreserves DEF LoadCompany

LEMMA RevokePreviousPreserves ==
    ASSUME IInv, NEW w \in Workers, RevokePrevious(w)
    PROVE  IInv'
<1>1. PICK t : t = req[w] /\ t \in Transaction /\ RowOK(t)
  BY DEF IInv, TypeOK
<1>2. PICK row :
          row = [t EXCEPT !.phase = "flushed", !.locks = t.locks \union t.closing]
  OBVIOUS
<1>3. t.phase = "listed" /\ \A i \in t.closing : InvitationFree(w, i)
  BY <1>1 DEF RevokePrevious
<1>4. row \in Transaction
  BY <1>1, <1>2 DEF Transaction
<1>5. /\ row.phase = "flushed" /\ row.locks = t.locks \union t.closing
      /\ row.route = t.route /\ row.c = t.c /\ row.closing = t.closing /\ row.new = t.new
      /\ row.i = t.i
  BY <1>1, <1>2 DEF Transaction
<1>6. t.new = None
  BY <1>1, <1>3 DEF RowOK, InsertOK
<1>7. RowOK(row)
  BY <1>1, <1>3, <1>5, <1>6 DEF RowOK, InsertOK, AcceptOK, KnowsOK
<1>8. ASSUME NEW v \in Workers \ {w}  PROVE Apart(row, req[v])
  <2>1. t.locks \intersect req[v].locks = {}
    BY <1>1 DEF IInv, Apart
  <2>2. t.closing \intersect req[v].locks = {}
    BY <1>3 DEF InvitationFree
  <2> QED
    BY <1>5, <1>6, <2>1, <2>2 DEF Apart
<1> QED
  BY <1>1, <1>2, <1>4, <1>7, <1>8, ChangePreserves DEF RevokePrevious

LEMMA InsertInvitationPreserves ==
    ASSUME IInv, NEW w \in Workers, NEW i \in Invitations, NEW e \in Emails,
           InsertInvitation(w, i, e)
    PROVE  IInv'
<1>1. PICK t : t = req[w] /\ t \in Transaction /\ RowOK(t)
  BY DEF IInv, TypeOK
<1>2. PICK row : row = [t EXCEPT !.new = i, !.email = e]
  OBVIOUS
<1>3. /\ t.phase = "flushed" /\ t.route = "invite" /\ t.new = None
      /\ NotPending(w, t.c, e) /\ FreshInvitation(i)
  BY <1>1 DEF InsertInvitation
<1>4. row \in Transaction
  BY <1>1, <1>2 DEF Transaction
<1>5. /\ row.phase = t.phase /\ row.locks = t.locks /\ row.route = t.route /\ row.c = t.c
      /\ row.closing = t.closing /\ row.new = i /\ row.email = e
  BY <1>1, <1>2 DEF Transaction
<1>6. InsertOK(row)
  <2>1. ASSUME NEW j \in Invitations, invitation[j].status = "pending",
               invitation[j].company = t.c, invitation[j].email = e
        PROVE  j \in t.closing
    BY <1>1, <1>3, <2>1 DEF NotPending, PendingFor, Pending
  <2>2. invitation[i].status = "absent"
    BY <1>3 DEF FreshInvitation
  <2> QED
    BY <1>3, <1>5, <2>1, <2>2 DEF InsertOK
<1>7. RowOK(row)
  BY <1>1, <1>3, <1>5, <1>6 DEF RowOK, AcceptOK, KnowsOK
<1>8. ASSUME NEW v \in Workers \ {w}  PROVE Apart(row, req[v])
  <2>1. t.locks \intersect req[v].locks = {}
    BY <1>1 DEF IInv, Apart
  <2>2. i # req[v].new
    BY <1>3 DEF FreshInvitation
  <2>3. ~(req[v].new # None /\ req[v].c = t.c /\ req[v].email = e)
    BY <1>3 DEF NotPending
  <2> QED
    BY <1>5, <2>1, <2>2, <2>3 DEF Apart
<1> QED
  BY <1>1, <1>2, <1>4, <1>7, <1>8, ChangePreserves DEF InsertInvitation

LEMMA FlushInvitationPreserves ==
    ASSUME IInv, NEW w \in Workers, FlushInvitation(w)
    PROVE  IInv'
<1>1. PICK t : t = req[w] /\ t \in Transaction /\ RowOK(t)
  BY DEF IInv, TypeOK
<1>2. PICK row : row = [t EXCEPT !.phase = "flushed", !.locks = t.closing]
  OBVIOUS
<1>3. /\ t.phase = "loaded" /\ t.route \in {"revoke", "validate"}
      /\ \A i \in t.closing : InvitationFree(w, i)
  BY <1>1 DEF FlushInvitation
<1>4. row \in Transaction
  BY <1>1, <1>2 DEF Transaction
<1>5. /\ row.phase = "flushed" /\ row.locks = t.closing /\ row.route = t.route
      /\ row.closing = t.closing /\ row.new = t.new
  BY <1>1, <1>2 DEF Transaction
<1>6. t.new = None
  BY <1>1, <1>3 DEF RowOK, InsertOK
<1>7. RowOK(row)
  BY <1>1, <1>3, <1>5, <1>6 DEF RowOK, InsertOK, AcceptOK, KnowsOK
<1>8. ASSUME NEW v \in Workers \ {w}  PROVE Apart(row, req[v])
  BY <1>3, <1>5, <1>6 DEF Apart, InvitationFree
<1> QED
  BY <1>1, <1>2, <1>4, <1>7, <1>8, ChangePreserves DEF FlushInvitation

LEMMA LockInvitationPreserves ==
    ASSUME IInv, NEW w \in Workers, NEW i \in Invitations, LockInvitation(w, i)
    PROVE  IInv'
<1>1. PICK row :
          row = [Idle EXCEPT !.phase = "locked", !.route = "accept", !.i = i,
                             !.c = invitation[i].company, !.email = invitation[i].email,
                             !.locks = {i}]
  OBVIOUS
<1>2. invitation[i].status = "pending" /\ InvitationFree(w, i)
  BY DEF LockInvitation, Acceptable
<1>3. invitation[i].company \in Companies /\ invitation[i].email \in Emails
  BY <1>2 DEF IInv, InvitationOK
<1>4. row \in Transaction
  BY <1>1, <1>3, EmptyRows DEF Transaction
<1>5. /\ row.phase = "locked" /\ row.route = "accept" /\ row.i = i /\ row.locks = {i}
      /\ row.c = invitation[i].company /\ row.email = invitation[i].email
      /\ row.new = None /\ row.closing = {}
  BY <1>1 DEF Idle
<1>6. RowOK(row)
  BY <1>2, <1>5 DEF RowOK, InsertOK, AcceptOK, KnowsOK
<1>7. ASSUME NEW v \in Workers \ {w}  PROVE Apart(row, req[v])
  BY <1>2, <1>5 DEF Apart, InvitationFree
<1> QED
  BY <1>1, <1>4, <1>6, <1>7, ChangePreserves DEF LockInvitation

LEMMA AcceptOwnerInvitationPreserves ==
    ASSUME IInv, NEW w \in Workers, AcceptOwnerInvitation(w)
    PROVE  IInv'
<1>1. PICK t : t = req[w] /\ t \in Transaction /\ RowOK(t)
  BY DEF IInv, TypeOK
<1>2. PICK row : row = [t EXCEPT !.phase = "accepted"]
  OBVIOUS
<1>3. t.phase = "locked" /\ Change(w, row)
  BY <1>1, <1>2 DEF AcceptOwnerInvitation
<1>4. row \in Transaction
  BY <1>1, <1>2 DEF Transaction
<1>5. /\ row.phase = "accepted" /\ row.locks = t.locks /\ row.route = t.route
      /\ row.i = t.i /\ row.c = t.c /\ row.email = t.email
      /\ row.closing = t.closing /\ row.new = t.new
  BY <1>1, <1>2 DEF Transaction
<1>6. t.new = None
  BY <1>1, <1>3 DEF RowOK, InsertOK
<1>7. RowOK(row)
  BY <1>1, <1>3, <1>5, <1>6 DEF RowOK, InsertOK, AcceptOK, KnowsOK
<1>8. ASSUME NEW v \in Workers \ {w}  PROVE Apart(row, req[v])
  <2>1. Apart(t, req[v])
    BY <1>1 DEF IInv
  <2> QED
    BY <1>5, <1>6, <2>1 DEF Apart
<1> QED
  BY <1>3, <1>4, <1>7, <1>8, ChangePreserves

-----------------------------------------------------------------------------
(* A commit changes rows that other requests have loaded, but not what     *)
(* they rely on.                                                           *)

LEMMA RowKept ==
    ASSUME NEW CONSTANT row, RowOK(row),
           \A i \in Invitations :
               invitation[i].status # "absent" => invitation'[i].status # "absent",
           \A c \in Companies : company[c].status # "absent" => company'[c].status # "absent",
           row.closing \union row.locks \subseteq Invitations,
           row.new # None => invitation'[row.new].status = "absent",
           \A i \in Invitations :
               /\ row.new # None /\ invitation'[i].status = "pending"
               /\ invitation'[i].company = row.c /\ invitation'[i].email = row.email
               => invitation'[i] = invitation[i],
           row.phase \in {"locked", "accepted"} => invitation'[row.i] = invitation[row.i]
    PROVE  RowOK(row)'
<1>1. InsertOK(row)'
  BY DEF RowOK, InsertOK
<1>2. AcceptOK(row)'
  BY DEF RowOK, AcceptOK
<1>3. KnowsOK(row)'
  BY DEF RowOK, KnowsOK
<1> QED
  BY <1>1, <1>2, <1>3 DEF RowOK

\* After a commit the worker is idle.
LEMMA IdlePreserves ==
    ASSUME IInv, NEW w \in Workers, req' = [req EXCEPT ![w] = Idle],
           \A v \in Workers \ {w} : \A row : row = req[v] => RowOK(row)'
    PROVE  /\ req' \in [Workers -> Transaction]
           /\ \A v \in Workers : RowOK(req[v])'
           /\ \A u, v \in Workers : u # v => Apart(req[u], req[v])'
<1>1. /\ req' \in [Workers -> Transaction] /\ req'[w] = Idle
      /\ \A v \in Workers \ {w} : req'[v] = req[v]
  BY EmptyRows DEF IInv, TypeOK
<1>2. ASSUME NEW v \in Workers  PROVE RowOK(req[v])'
  <2>1. CASE v = w
    <3>1. PICK s : s = req'[v] /\ s = Idle
      BY <1>1, <2>1
    <3>2. RowOK(s)'
      BY <3>1 DEF RowOK, InsertOK, AcceptOK, KnowsOK, Idle
    <3> QED
      BY <3>1, <3>2 DEF RowOK, InsertOK, AcceptOK, KnowsOK
  <2>2. CASE v # w
    <3>1. PICK s : s = req[v] /\ RowOK(s)'
      BY <2>2
    <3>2. s = req'[v]
      BY <1>1, <2>2, <3>1
    <3> QED
      BY <3>1, <3>2 DEF RowOK, InsertOK, AcceptOK, KnowsOK
  <2> QED
    BY <2>1, <2>2
<1>3. ASSUME NEW u \in Workers, NEW v \in Workers, u # v  PROVE Apart(req[u], req[v])'
  <2>1. PICK r, s : r = req'[u] /\ s = req'[v]
    OBVIOUS
  <2>2. Apart(r, s)
    BY <1>1, <1>3, <2>1, IdleOK, ApartCommutes DEF IInv
  <2> QED
    BY <2>1, <2>2 DEF Apart
<1> QED
  BY <1>1, <1>2, <1>3

LEMMA CreateCompanyPreserves ==
    ASSUME IInv, NEW c \in Companies, NEW i \in Invitations, NEW e \in Emails,
           CreateCompany(c, i, e)
    PROVE  IInv'
<1> DEFINE firm ==
             [NoCompany EXCEPT !.status = "pending", !.onboarding_status = "owner_invited"]
           new == NewInvitation(c, e)
<1>1. firm \in CompanyRow /\ firm.status = "pending"
  BY EmptyRows DEF CompanyRow
<1>2. /\ new \in InvitationRow /\ new.status = "pending"
      /\ new.company = c /\ new.email = e /\ new.accepted_at = FALSE
  BY NewInvitationRow
<1>3. /\ company[c].status = "absent" /\ FreshInvitation(i)
      /\ company' = [company EXCEPT ![c] = firm]
      /\ invitation' = [invitation EXCEPT ![i] = new]
      /\ UNCHANGED <<overdue, users, owners, req>>
  BY DEF CreateCompany
<1> HIDE DEF firm, new
<1>4. invitation[i].status = "absent" /\ \A v \in Workers : req[v].new # i
  BY <1>3 DEF FreshInvitation
<1>5. /\ invitation'[i] = new /\ company'[c] = firm
      /\ \A j \in Invitations \ {i} : invitation'[j] = invitation[j]
      /\ \A d \in Companies \ {c} : company'[d] = company[d]
  BY <1>3 DEF IInv, TypeOK
<1>6. TypeOK'
  BY <1>1, <1>2, <1>3 DEF IInv, TypeOK
<1>7. ASSUME NEW j \in Invitations  PROVE InvitationOK(j)'
  BY <1>1, <1>2, <1>5 DEF IInv, InvitationOK
<1>8. \A j \in Invitations : invitation[j].status = "pending" => invitation[j].company # c
  BY <1>3 DEF IInv, InvitationOK
<1>9. PendingApart'
  BY <1>2, <1>5, <1>8 DEF IInv, PendingApart
<1>10. ASSUME NEW d \in Companies
       PROVE  {x \in Emails : \E j \in Invitations : invitation'[j].company = d
                   /\ invitation'[j].email = x /\ invitation'[j].accepted_at}
              = {x \in Emails : \E j \in Invitations : invitation[j].company = d
                   /\ invitation[j].email = x /\ invitation[j].accepted_at}
  BY <1>2, <1>4, <1>5 DEF IInv, InvitationOK
<1>11. OwnersWereInvited'
  BY <1>3, <1>10 DEF IInv, OwnersWereInvited
<1>12. ASSUME NEW v \in Workers  PROVE RowOK(req[v])'
  <2>1. PICK row : row = req[v] /\ row \in Transaction /\ RowOK(row)
    BY DEF IInv, TypeOK
  <2>2. row.new # i
    BY <1>4, <2>1
  <2>3. row.new # None => row.c # c
    BY <1>3, <2>1 DEF RowOK, InsertOK, KnowsOK
  <2>4. row.phase \in {"locked", "accepted"} => row.i \in Invitations /\ row.i # i
    BY <1>4, <2>1 DEF RowOK, AcceptOK
  <2>5. row.closing \union row.locks \subseteq Invitations
        /\ row.new \in Invitations \union {None}
    BY <2>1 DEF Transaction
  <2>6. RowOK(row)'
    <3>1. \A j \in Invitations :
              invitation[j].status # "absent" => invitation'[j].status # "absent"
      BY <1>2, <1>5
    <3>2. \A d \in Companies : company[d].status # "absent" => company'[d].status # "absent"
      BY <1>1, <1>5
    <3>3. row.new # None => invitation'[row.new].status = "absent"
      BY <1>5, <2>1, <2>2, <2>5 DEF RowOK, InsertOK
    <3>4. \A j \in Invitations :
              row.new # None /\ invitation'[j].status = "pending"
                  /\ invitation'[j].company = row.c /\ invitation'[j].email = row.email
              => invitation'[j] = invitation[j]
      BY <1>2, <1>5, <2>3
    <3>5. row.phase \in {"locked", "accepted"} => invitation'[row.i] = invitation[row.i]
      BY <1>5, <2>4
    <3> QED
      BY <2>1, <2>5, <3>1, <3>2, <3>3, <3>4, <3>5, RowKept
  <2>7. row = req'[v]
    BY <1>3, <2>1
  <2> QED
    BY <2>6, <2>7 DEF RowOK, InsertOK, AcceptOK, KnowsOK
<1>13. ASSUME NEW u \in Workers, NEW v \in Workers, u # v  PROVE Apart(req[u], req[v])'
  BY <1>3, <1>13 DEF IInv, Apart
<1> QED
  BY <1>6, <1>7, <1>9, <1>11, <1>12, <1>13 DEF IInv

LEMMA CommitInvitationsPreserves ==
    ASSUME IInv, NEW w \in Workers, CommitInvitations(w)
    PROVE  IInv'
<1>1. PICK t : t = req[w] /\ t \in Transaction /\ RowOK(t)
  BY DEF IInv, TypeOK
<1>2. /\ t.phase = "flushed" /\ t.route = "invite" => t.new # None
      /\ req' = [req EXCEPT ![w] = Idle]
      /\ UNCHANGED <<company, overdue, users, owners>>
  BY <1>1 DEF CommitInvitations
<1>3. t.closing \subseteq t.locks /\ t.closing \subseteq Invitations
      /\ \A i \in t.closing : invitation[i].status # "absent"
  BY <1>1, <1>2 DEF RowOK, KnowsOK, CommitInvitations, Transaction
<1>4. t.new # None =>
          /\ t.new \in Invitations /\ t.c \in Companies /\ t.email \in Emails
          /\ invitation[t.new].status = "absent" /\ company[t.c].status # "absent"
  BY <1>1 DEF RowOK, InsertOK, KnowsOK, Transaction
<1>5. invitation' = [i \in Invitations |->
                        CASE i \in t.closing -> Closed(w, invitation[i])
                          [] i = t.new -> NewInvitation(t.c, t.email)
                          [] OTHER -> invitation[i]]
  BY <1>1 DEF CommitInvitations
<1>6. ASSUME NEW i \in t.closing
      PROVE  /\ invitation'[i] \in InvitationRow
             /\ invitation'[i].status \in {"expired", "revoked"}
             /\ invitation'[i].company = invitation[i].company
             /\ invitation'[i].email = invitation[i].email
             /\ invitation'[i].accepted_at = invitation[i].accepted_at
  <2>1. i \in Invitations /\ invitation[i] \in InvitationRow /\ i # t.new
    BY <1>3, <1>4, PlatformAssumption DEF IInv, TypeOK
  <2>2. invitation'[i] = Closed(w, invitation[i])
    BY <1>5, <2>1
  <2> QED
    BY <2>1, <2>2, ClosedRow
<1>7. ASSUME t.new # None
      PROVE  /\ invitation'[t.new] \in InvitationRow
             /\ invitation'[t.new].status = "pending"
             /\ invitation'[t.new].company = t.c /\ invitation'[t.new].email = t.email
             /\ invitation'[t.new].accepted_at = FALSE
  <2>1. invitation'[t.new] = NewInvitation(t.c, t.email)
    BY <1>3, <1>4, <1>5, <1>7
  <2>2. PICK c \in Companies, e \in Emails : c = t.c /\ e = t.email
    BY <1>4, <1>7
  <2>3. PICK row : /\ row = NewInvitation(c, e) /\ row \in InvitationRow
                   /\ row.status = "pending" /\ row.company = c /\ row.email = e
                   /\ row.accepted_at = FALSE
    BY NewInvitationRow
  <2>4. invitation'[t.new] = row
    BY <2>1, <2>2, <2>3
  <2> QED
    BY <2>2, <2>3, <2>4
<1>8. \A i \in Invitations : i \notin t.closing /\ i # t.new => invitation'[i] = invitation[i]
  BY <1>5
<1>9. ASSUME NEW i \in Invitations
      PROVE  i \in t.closing \/ (i = t.new /\ t.new # None) \/ invitation'[i] = invitation[i]
  BY <1>8, PlatformAssumption
<1>10. TypeOK'
  <2>1. invitation' \in [Invitations -> InvitationRow]
    BY <1>5, <1>6, <1>7, <1>9 DEF IInv, TypeOK
  <2>2. req' \in [Workers -> Transaction]
    BY <1>2, EmptyRows DEF IInv, TypeOK
  <2> QED
    BY <1>2, <2>1, <2>2 DEF IInv, TypeOK
<1>11. ASSUME NEW i \in Invitations  PROVE InvitationOK(i)'
  BY <1>2, <1>3, <1>4, <1>6, <1>7, <1>9 DEF IInv, InvitationOK
<1>12. PendingApart'
  <2>1. ASSUME NEW i \in Invitations, invitation'[i].status = "pending"
        PROVE  i \notin t.closing
    BY <1>6, <2>1
  <2>2. ASSUME NEW i \in Invitations, invitation'[i].status = "pending", t.new # None,
               i # t.new
        PROVE  invitation'[i].company # t.c \/ invitation'[i].email # t.email
    BY <1>1, <1>9, <2>1, <2>2 DEF RowOK, InsertOK
  <2>3. ASSUME NEW i \in Invitations, NEW j \in Invitations,
               invitation'[i].status = "pending", invitation'[j].status = "pending",
               invitation'[i].company = invitation'[j].company,
               invitation'[i].email = invitation'[j].email
        PROVE  i = j
    <3>1. CASE t.new # None /\ (i = t.new \/ j = t.new)
      BY <1>7, <2>2, <2>3, <3>1
    <3>2. CASE ~(t.new # None /\ (i = t.new \/ j = t.new))
      <4>1. invitation'[i] = invitation[i] /\ invitation'[j] = invitation[j]
        BY <1>9, <2>1, <2>3, <3>2
      <4> QED
        BY <2>3, <4>1 DEF IInv, PendingApart
    <3> QED
      BY <3>1, <3>2
  <2> QED
    BY <2>3 DEF PendingApart
<1>13. ASSUME NEW i \in Invitations
       PROVE  /\ invitation'[i].accepted_at <=> invitation[i].accepted_at
              /\ invitation[i].accepted_at => invitation'[i].company = invitation[i].company
                                              /\ invitation'[i].email = invitation[i].email
  <2>1. invitation[i].status = "absent" => ~invitation[i].accepted_at
    BY DEF IInv, InvitationOK
  <2>2. CASE i \in t.closing
    BY <1>6, <2>2
  <2>3. CASE i = t.new /\ t.new # None
    BY <1>4, <1>7, <2>1, <2>3
  <2>4. CASE invitation'[i] = invitation[i]
    BY <2>4
  <2> QED
    BY <1>9, <2>2, <2>3, <2>4
<1>14. OwnersWereInvited'
  <2>1. ASSUME NEW c \in Companies
        PROVE  {x \in Emails : \E j \in Invitations : invitation'[j].company = c
                    /\ invitation'[j].email = x /\ invitation'[j].accepted_at}
               = {x \in Emails : \E j \in Invitations : invitation[j].company = c
                    /\ invitation[j].email = x /\ invitation[j].accepted_at}
    BY <1>13
  <2> QED
    BY <1>2, <2>1 DEF IInv, OwnersWereInvited
<1>15. ASSUME NEW v \in Workers \ {w}, NEW CONSTANT row, row = req[v]  PROVE RowOK(row)'
  <2>1. row \in Transaction /\ RowOK(row) /\ Apart(t, row) /\ Apart(row, t)
    BY <1>1, <1>15 DEF IInv, TypeOK
  <2>2. \A j \in Invitations :
            invitation[j].status # "absent" => invitation'[j].status # "absent"
    BY <1>6, <1>7, <1>9
  <2>3. \A c \in Companies : company[c].status # "absent" => company'[c].status # "absent"
    BY <1>2
  <2>4. row.closing \union row.locks \subseteq Invitations
        /\ row.new \in Invitations \union {None}
    BY <2>1 DEF Transaction
  <2>5. row.new # None => invitation'[row.new].status = "absent"
    <3>1. SUFFICES ASSUME row.new # None  PROVE invitation'[row.new].status = "absent"
      OBVIOUS
    <3>2. invitation[row.new].status = "absent" /\ row.new \in Invitations
      BY <2>1, <2>4, <3>1 DEF RowOK, InsertOK
    <3>3. row.new # t.new /\ row.new \notin t.closing
      BY <1>3, <2>1, <3>1, <3>2 DEF Apart
    <3> QED
      BY <1>8, <3>2, <3>3
  <2>6. ASSUME NEW j \in Invitations, row.new # None, invitation'[j].status = "pending",
               invitation'[j].company = row.c, invitation'[j].email = row.email
        PROVE  invitation'[j] = invitation[j]
    <3>1. j \notin t.closing
      BY <1>6, <2>6
    <3>2. ~(j = t.new /\ t.new # None)
      BY <1>7, <2>1, <2>6 DEF Apart
    <3> QED
      BY <1>9, <3>1, <3>2
  <2>7. row.phase \in {"locked", "accepted"} => invitation'[row.i] = invitation[row.i]
    <3>1. SUFFICES ASSUME row.phase \in {"locked", "accepted"}
                   PROVE  invitation'[row.i] = invitation[row.i]
      OBVIOUS
    <3>2. row.i \in Invitations /\ row.i \in row.locks /\ invitation[row.i].status = "pending"
      BY <2>1, <3>1 DEF RowOK, AcceptOK
    <3>3. row.i \notin t.closing
      BY <1>3, <2>1, <3>2 DEF Apart
    <3>4. row.i # t.new \/ t.new = None
      BY <1>4, <3>2
    <3> QED
      BY <1>9, <3>2, <3>3, <3>4
  <2> QED
    BY <2>1, <2>2, <2>3, <2>4, <2>5, <2>6, <2>7, RowKept
<1>16. /\ \A v \in Workers : RowOK(req[v])'
       /\ \A u, v \in Workers : u # v => Apart(req[u], req[v])'
  BY <1>2, <1>15, IdlePreserves
<1> QED
  BY <1>10, <1>11, <1>12, <1>14, <1>16 DEF IInv

LEMMA CommitAcceptancePreserves ==
    ASSUME IInv, NEW w \in Workers, CommitAcceptance(w)
    PROVE  IInv'
<1>1. PICK t : t = req[w] /\ t \in Transaction /\ RowOK(t)
  BY DEF IInv, TypeOK
<1>2. PICK i : i = t.i
  OBVIOUS
<1>3. /\ t.phase = "accepted"
      /\ invitation' = [invitation EXCEPT ![i].status = "accepted", ![i].accepted_at = TRUE]
      /\ company' = [company EXCEPT ![t.c].status = "onboarding",
                                    ![t.c].onboarding_status = "owner_accepted"]
      /\ users' = users \union {t.email}
      /\ owners' = [owners EXCEPT ![t.c] = @ \union {t.email}]
      /\ req' = [req EXCEPT ![w] = Idle]
      /\ overdue' = overdue
  BY <1>1, <1>2 DEF CommitAcceptance
<1>4. /\ i \in Invitations /\ i \in t.locks /\ invitation[i].status = "pending"
      /\ invitation[i].company = t.c /\ invitation[i].email = t.email
  BY <1>1, <1>2, <1>3 DEF RowOK, AcceptOK
<1>5. t.c \in Companies /\ t.email \in Emails
  BY <1>4 DEF IInv, InvitationOK
<1>6. invitation[i] \in InvitationRow /\ company[t.c] \in CompanyRow
  BY <1>4, <1>5 DEF IInv, TypeOK
<1>7. /\ invitation'[i] \in InvitationRow /\ invitation'[i].status = "accepted"
      /\ invitation'[i].company = t.c /\ invitation'[i].email = t.email
      /\ invitation'[i].accepted_at = TRUE
  <2>1. invitation'[i] = [invitation[i] EXCEPT !.status = "accepted", !.accepted_at = TRUE]
    BY <1>3, <1>4 DEF IInv, TypeOK
  <2> QED
    BY <1>4, <1>6, <2>1 DEF InvitationRow
<1>8. company'[t.c] \in CompanyRow /\ company'[t.c].status = "onboarding"
  <2>1. company'[t.c] = [company[t.c] EXCEPT !.status = "onboarding",
                                             !.onboarding_status = "owner_accepted"]
    BY <1>3, <1>5 DEF IInv, TypeOK
  <2> QED
    BY <1>6, <2>1 DEF CompanyRow
<1>9. /\ \A j \in Invitations \ {i} : invitation'[j] = invitation[j]
      /\ \A c \in Companies \ {t.c} : company'[c] = company[c]
      /\ \A c \in Companies : owners'[c] =
             IF c = t.c THEN owners[c] \union {t.email} ELSE owners[c]
  BY <1>3 DEF IInv, TypeOK
<1>10. TypeOK'
  <2>1. invitation' \in [Invitations -> InvitationRow]
    BY <1>3, <1>7, <1>9 DEF IInv, TypeOK
  <2>2. company' \in [Companies -> CompanyRow]
    BY <1>3, <1>8, <1>9 DEF IInv, TypeOK
  <2>3. req' \in [Workers -> Transaction]
    BY <1>3, EmptyRows DEF IInv, TypeOK
  <2>4. owners' \in [Companies -> SUBSET Emails]
    BY <1>3, <1>5, <1>9 DEF IInv, TypeOK
  <2> QED
    BY <1>3, <1>5, <2>1, <2>2, <2>3, <2>4 DEF IInv, TypeOK
<1>11. \A c \in Companies : company[c].status # "absent" => company'[c].status # "absent"
  BY <1>8, <1>9
<1>12. ASSUME NEW j \in Invitations  PROVE InvitationOK(j)'
  <2>1. CASE j = i
    BY <1>5, <1>7, <1>8, <2>1 DEF InvitationOK
  <2>2. CASE j # i
    BY <1>9, <1>11, <2>2 DEF IInv, InvitationOK
  <2> QED
    BY <2>1, <2>2
<1>13. PendingApart'
  BY <1>7, <1>9 DEF IInv, PendingApart
<1>14. OwnersWereInvited'
  <2>1. SUFFICES ASSUME NEW c \in Companies, NEW x \in Emails
                 PROVE  x \in owners'[c] <=>
                            \E j \in Invitations :
                                /\ invitation'[j].company = c /\ invitation'[j].email = x
                                /\ invitation'[j].accepted_at
    BY <1>10 DEF OwnersWereInvited, TypeOK
  <2>2. x \in owners[c] <=>
            \E j \in Invitations : invitation[j].company = c /\ invitation[j].email = x
                                   /\ invitation[j].accepted_at
    BY DEF IInv, OwnersWereInvited
  <2>3. CASE c = t.c /\ x = t.email
    BY <1>4, <1>7, <1>9, <2>3
  <2>4. CASE c # t.c \/ x # t.email
    <3>1. x \in owners'[c] <=> x \in owners[c]
      BY <1>9, <2>4
    <3>2. ASSUME NEW j \in Invitations
          PROVE  invitation'[j].company = c /\ invitation'[j].email = x
                     /\ invitation'[j].accepted_at
                 <=> invitation[j].company = c /\ invitation[j].email = x
                     /\ invitation[j].accepted_at
      BY <1>4, <1>7, <1>9, <2>4
    <3> QED
      BY <2>2, <3>1, <3>2
  <2> QED
    BY <2>3, <2>4
<1>15. ASSUME NEW v \in Workers \ {w}, NEW CONSTANT row, row = req[v]  PROVE RowOK(row)'
  <2>1. row \in Transaction /\ RowOK(row) /\ Apart(t, row)
    BY <1>1, <1>15 DEF IInv, TypeOK
  <2>2. \A j \in Invitations :
            invitation[j].status # "absent" => invitation'[j].status # "absent"
    BY <1>7, <1>9
  <2>3. row.closing \union row.locks \subseteq Invitations
        /\ row.new \in Invitations \union {None}
    BY <2>1 DEF Transaction
  <2>4. row.new # None => invitation'[row.new].status = "absent"
    BY <1>4, <1>9, <2>1, <2>3 DEF RowOK, InsertOK
  <2>5. \A j \in Invitations :
            invitation'[j].status = "pending" => invitation'[j] = invitation[j]
    BY <1>7, <1>9
  <2>6. row.phase \in {"locked", "accepted"} => invitation'[row.i] = invitation[row.i]
    BY <1>4, <1>9, <2>1 DEF RowOK, AcceptOK, Apart
  <2> QED
    BY <1>11, <2>1, <2>2, <2>3, <2>4, <2>5, <2>6, RowKept
<1>16. /\ \A v \in Workers : RowOK(req[v])'
       /\ \A u, v \in Workers : u # v => Apart(req[u], req[v])'
  BY <1>3, <1>15, IdlePreserves
<1> QED
  BY <1>10, <1>12, <1>13, <1>14, <1>16 DEF IInv

LEMMA WriteCompanyPreserves ==
    ASSUME IInv, NEW w \in Workers, NEW route \in {"suspend", "reactivate"},
           NEW status \in {"onboarding", "active", "suspended"},
           NEW suspended \in BOOLEAN, WriteCompany(w, route, status, suspended)
    PROVE  IInv'
<1>1. PICK t : t = req[w] /\ t \in Transaction /\ RowOK(t)
  BY DEF IInv, TypeOK
<1>2. /\ t.phase = "loaded" /\ t.route = route
      /\ company' = [company EXCEPT
             ![t.c].status = IF t.seen.status = status THEN @ ELSE status,
             ![t.c].suspended_at = IF suspended THEN TRUE ELSE @ /\ ~t.seen.suspended_at]
      /\ req' = [req EXCEPT ![w] = Idle]
      /\ UNCHANGED <<invitation, overdue, users, owners>>
  BY <1>1 DEF WriteCompany
<1>3. t.c \in Companies /\ company[t.c].status # "absent"
  BY <1>1, <1>2 DEF RowOK, KnowsOK
<1>4. company[t.c] \in CompanyRow
  BY <1>3 DEF IInv, TypeOK
<1>5. company'[t.c] \in CompanyRow /\ company'[t.c].status # "absent"
  <2>1. company'[t.c] =
            [company[t.c] EXCEPT
                !.status = IF t.seen.status = status THEN @ ELSE status,
                !.suspended_at = IF suspended THEN TRUE ELSE @ /\ ~t.seen.suspended_at]
    BY <1>2, <1>3 DEF IInv, TypeOK
  <2>2. (IF suspended THEN TRUE ELSE company[t.c].suspended_at /\ ~t.seen.suspended_at)
            \in BOOLEAN
    OBVIOUS
  <2> QED
    BY <1>3, <1>4, <2>1, <2>2 DEF CompanyRow
<1>6. \A c \in Companies \ {t.c} : company'[c] = company[c]
  BY <1>2 DEF IInv, TypeOK
<1>7. \A c \in Companies : company[c].status # "absent" => company'[c].status # "absent"
  BY <1>5, <1>6
<1>8. TypeOK'
  <2>1. company' \in [Companies -> CompanyRow]
    BY <1>2, <1>5, <1>6 DEF IInv, TypeOK
  <2>2. req' \in [Workers -> Transaction]
    BY <1>2, EmptyRows DEF IInv, TypeOK
  <2> QED
    BY <1>2, <2>1, <2>2 DEF IInv, TypeOK
<1>9. ASSUME NEW j \in Invitations  PROVE InvitationOK(j)'
  BY <1>2, <1>7 DEF IInv, InvitationOK
<1>10. PendingApart'
  BY <1>2 DEF IInv, PendingApart
<1>11. OwnersWereInvited'
  BY <1>2 DEF IInv, OwnersWereInvited
<1>12. ASSUME NEW v \in Workers \ {w}, NEW CONSTANT row, row = req[v]  PROVE RowOK(row)'
  <2>1. RowOK(row)
    BY <1>12 DEF IInv
  <2>2. InsertOK(row)' /\ AcceptOK(row)'
    BY <1>2, <2>1 DEF RowOK, InsertOK, AcceptOK
  <2>3. KnowsOK(row)'
    BY <1>2, <1>7, <2>1 DEF RowOK, KnowsOK
  <2> QED
    BY <2>2, <2>3 DEF RowOK
<1>13. /\ \A v \in Workers : RowOK(req[v])'
       /\ \A u, v \in Workers : u # v => Apart(req[u], req[v])'
  BY <1>2, <1>12, IdlePreserves
<1> QED
  BY <1>8, <1>9, <1>10, <1>11, <1>13 DEF IInv

LEMMA SuspendAndReactivatePreserve ==
    ASSUME IInv, NEW w \in Workers, SuspendCompany(w) \/ ReactivateCompany(w)
    PROVE  IInv'
<1>1. CASE SuspendCompany(w)
  BY <1>1, WriteCompanyPreserves DEF SuspendCompany
<1>2. CASE ReactivateCompany(w)
  <2>1. PICK status : status = ReactivatedStatus(req[w].seen)
    OBVIOUS
  <2>2. status \in {"onboarding", "active", "suspended"}
    BY <2>1 DEF ReactivatedStatus
  <2> QED
    BY <1>2, <2>1, <2>2, WriteCompanyPreserves DEF ReactivateCompany
<1> QED
  BY <1>1, <1>2

LEMMA ExpirePreserves ==
    ASSUME IInv, NEW i \in Invitations, Expire(i)
    PROVE  IInv'
<1>1. UNCHANGED <<company, invitation, users, owners, req>> /\ overdue' \subseteq Invitations
  BY DEF Expire, IInv, TypeOK
<1>2. TypeOK' /\ PendingApart' /\ OwnersWereInvited'
  BY <1>1 DEF IInv, TypeOK, PendingApart, OwnersWereInvited
<1>3. \A j \in Invitations : InvitationOK(j)'
  BY <1>1 DEF IInv, InvitationOK
<1>4. \A w \in Workers : RowOK(req[w])'
  BY <1>1 DEF IInv, RowOK, InsertOK, AcceptOK, KnowsOK
<1>5. \A v, w \in Workers : v # w => Apart(req[v], req[w])'
  BY <1>1 DEF IInv, Apart
<1> QED
  BY <1>2, <1>3, <1>4, <1>5 DEF IInv

LEMMA StutterPreserves == ASSUME IInv, UNCHANGED vars  PROVE IInv'
<1>1. UNCHANGED <<company, invitation, overdue, users, owners, req>>
  BY DEF vars
<1>2. TypeOK' /\ PendingApart' /\ OwnersWereInvited'
  BY <1>1 DEF IInv, TypeOK, PendingApart, OwnersWereInvited
<1>3. \A j \in Invitations : InvitationOK(j)'
  BY <1>1 DEF IInv, InvitationOK
<1>4. \A w \in Workers : RowOK(req[w])'
  BY <1>1 DEF IInv, RowOK, InsertOK, AcceptOK, KnowsOK
<1>5. \A v, w \in Workers : v # w => Apart(req[v], req[w])'
  BY <1>1 DEF IInv, Apart
<1> QED
  BY <1>2, <1>3, <1>4, <1>5 DEF IInv

-----------------------------------------------------------------------------
(* Every step.                                                              *)

LEMMA NextPreserves == IInv /\ [Next]_vars => IInv'
<1> SUFFICES ASSUME IInv, [Next]_vars  PROVE IInv'
    OBVIOUS
<1>1. ASSUME NEW c \in Companies, NEW i \in Invitations, NEW e \in Emails,
             CreateCompany(c, i, e)
      PROVE  IInv'
  BY <1>1, CreateCompanyPreserves
<1>2. ASSUME NEW w \in Workers, Step(w)  PROVE IInv'
  <2>1. CASE \E c \in Companies : ListPending(w, c)
    BY <2>1, ListPendingPreserves
  <2>2. CASE RevokePrevious(w)
    BY <2>2, RevokePreviousPreserves
  <2>3. CASE \E i \in Invitations, e \in Emails : InsertInvitation(w, i, e)
    BY <2>3, InsertInvitationPreserves
  <2>4. CASE \E route \in Routes, i \in Invitations : LoadInvitation(w, route, i)
    BY <2>4, LoadInvitationPreserves
  <2>5. CASE FlushInvitation(w)
    BY <2>5, FlushInvitationPreserves
  <2>6. CASE CommitInvitations(w)
    BY <2>6, CommitInvitationsPreserves
  <2>7. CASE \E i \in Invitations : LockInvitation(w, i)
    BY <2>7, LockInvitationPreserves
  <2>8. CASE AcceptOwnerInvitation(w)
    BY <2>8, AcceptOwnerInvitationPreserves
  <2>9. CASE CommitAcceptance(w)
    BY <2>9, CommitAcceptancePreserves
  <2>10. CASE \E route \in Routes, c \in Companies : LoadCompany(w, route, c)
    BY <2>10, LoadCompanyPreserves
  <2>11. CASE SuspendCompany(w) \/ ReactivateCompany(w)
    BY <2>11, SuspendAndReactivatePreserve
  <2>12. CASE Rollback(w)
    BY <2>12, RollbackPreserves
  <2> QED
    BY <1>2, <2>1, <2>2, <2>3, <2>4, <2>5, <2>6, <2>7, <2>8, <2>9, <2>10, <2>11, <2>12 DEF Step
<1>3. ASSUME NEW i \in Invitations, Expire(i)  PROVE IInv'
  BY <1>3, ExpirePreserves
<1>4. CASE UNCHANGED vars
  BY <1>4, StutterPreserves
<1> QED
  BY <1>1, <1>2, <1>3, <1>4 DEF Next

\* The invariant holds in every state of every execution.
THEOREM Invariance == Spec => []IInv
  BY InitInv, NextPreserves, PTL DEF Spec

\* Types of the rows of the platform and of what its requests have loaded.
THEOREM TypesOfThePlatform == Spec => []TypeOK
<1>1. IInv => TypeOK
  BY DEF IInv
<1> QED
  BY <1>1, Invariance, PTL

\* create_owner_invitation and its unique index never leave two pending invitations
\* for one address to one company, however many administrators invite at once.
THEOREM OneInvitationIsPending == Spec => []OnePendingPerEmail
  BY OneIsEnough, Invariance, PTL

\* A company's owners are those who accepted an invitation to it.
THEOREM OwnersAcceptedAnInvitation == Spec => []OwnersWereInvited
<1>1. IInv => OwnersWereInvited
  BY DEF IInv
<1> QED
  BY <1>1, Invariance, PTL

\* Only a commit of invitations or an acceptance writes invitations that are there.
LEMMA StepDecidesPending ==
    ASSUME IInv, [Next]_vars, NEW i \in Invitations
    PROVE  /\ invitation[i].status \notin {"absent", "pending"} =>
                  invitation'[i].status \notin {"pending", "accepted"}
                  \/ invitation'[i] = invitation[i]
           /\ invitation'[i].accepted_at /\ ~invitation[i].accepted_at =>
                  invitation[i].status = "pending"
<1>1. CASE invitation'[i] = invitation[i]
  BY <1>1
<1>2. ASSUME NEW c \in Companies, NEW j \in Invitations, NEW e \in Emails,
             CreateCompany(c, j, e), invitation'[i] # invitation[i]
      PROVE  invitation[i].status = "absent" /\ invitation'[i].accepted_at = FALSE
  <2>1. invitation[j].status = "absent"
    BY <1>2 DEF CreateCompany, FreshInvitation
  <2>2. PICK row : row = NewInvitation(c, e) /\ row.accepted_at = FALSE
    BY NewInvitationRow
  <2>3. invitation' = [invitation EXCEPT ![j] = row]
    BY <1>2, <2>2 DEF CreateCompany
  <2> QED
    BY <1>2, <2>1, <2>2, <2>3 DEF IInv, TypeOK
<1>3. ASSUME NEW w \in Workers, CommitInvitations(w), invitation'[i] # invitation[i]
      PROVE  \/ invitation[i].status = "absent" /\ invitation'[i].accepted_at = FALSE
             \/ /\ invitation'[i].status \in {"expired", "revoked"}
                /\ invitation'[i].accepted_at = invitation[i].accepted_at
  <2>1. PICK t : t = req[w] /\ t \in Transaction /\ RowOK(t)
    BY DEF IInv, TypeOK
  <2>2. invitation'[i] =
            CASE i \in t.closing -> Closed(w, invitation[i])
              [] i = t.new -> NewInvitation(t.c, t.email)
              [] OTHER -> invitation[i]
    BY <1>3, <2>1 DEF CommitInvitations
  <2>3. CASE i \in t.closing
    <3>1. t.new # i
      BY <2>1, <2>3, PlatformAssumption DEF RowOK, InsertOK, KnowsOK
    <3>2. invitation'[i] = Closed(w, invitation[i])
      BY <2>2, <2>3, <3>1
    <3>3. invitation[i] \in InvitationRow
      BY DEF IInv, TypeOK
    <3> QED
      BY <3>2, <3>3, ClosedRow
  <2>4. CASE i \notin t.closing /\ i = t.new
    <3>1. /\ t.c \in Companies /\ t.email \in Emails
          /\ invitation[i].status = "absent"
      BY <2>1, <2>4, PlatformAssumption DEF RowOK, InsertOK, KnowsOK
    <3>2. PICK c \in Companies, e \in Emails : c = t.c /\ e = t.email
      BY <3>1
    <3>3. PICK row : row = NewInvitation(c, e) /\ row.accepted_at = FALSE
      BY NewInvitationRow
    <3>4. invitation'[i] = row
      BY <2>2, <2>4, <3>2, <3>3
    <3> QED
      BY <3>1, <3>3, <3>4
  <2>5. CASE i \notin t.closing /\ i # t.new
    BY <1>3, <2>2, <2>5
  <2> QED
    BY <2>3, <2>4, <2>5
<1>4. ASSUME NEW w \in Workers, CommitAcceptance(w), invitation'[i] # invitation[i]
      PROVE  invitation[i].status = "pending"
  <2>1. PICK t : t = req[w] /\ RowOK(t) /\ t.phase = "accepted"
    BY <1>4 DEF IInv, CommitAcceptance
  <2>2. PICK j : j = t.i
    OBVIOUS
  <2>3. j \in Invitations /\ invitation[j].status = "pending"
    BY <2>1, <2>2 DEF RowOK, AcceptOK
  <2>4. invitation' = [invitation EXCEPT ![j].status = "accepted", ![j].accepted_at = TRUE]
    BY <1>4, <2>1, <2>2 DEF CommitAcceptance
  <2> QED
    BY <1>4, <2>3, <2>4 DEF IInv, TypeOK
<1>5. ASSUME NEW w \in Workers, Step(w), invitation'[i] # invitation[i]
      PROVE  CommitInvitations(w) \/ CommitAcceptance(w)
  BY <1>5 DEF Step, ListPending, RevokePrevious, InsertInvitation, LoadInvitation,
              FlushInvitation, LockInvitation, AcceptOwnerInvitation, LoadCompany,
              SuspendCompany, ReactivateCompany, WriteCompany, Rollback, Change, committed
<1>6. \A j \in Invitations : Expire(j) => invitation' = invitation
  BY DEF Expire
<1>7. UNCHANGED vars => invitation' = invitation
  BY DEF vars
<1> QED
  BY <1>1, <1>2, <1>3, <1>4, <1>5, <1>6, <1>7 DEF Next

\* An invitation is accepted once and never after it was revoked or has expired: the
\* row lock of accept_invitation is enough, although nobody else locks before writing.
THEOREM DecidedInvitations == Spec => AcceptedFromPending
<1>1. IInv /\ [Next]_vars =>
          [\A i \in Invitations :
              /\ invitation[i].status \notin {"absent", "pending"} =>
                    invitation'[i].status \notin {"pending", "accepted"}
                    \/ invitation'[i] = invitation[i]
              /\ invitation'[i].accepted_at /\ ~invitation[i].accepted_at =>
                    invitation[i].status = "pending"]_vars
  BY StepDecidesPending
<1> QED
  BY <1>1, Invariance, PTL DEF Spec, AcceptedFromPending
=============================================================================
