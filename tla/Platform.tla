------------------------------ MODULE Platform ------------------------------
(***************************************************************************)
(* Companies and the invitations of their owners: what platform            *)
(* administrators provision, suspend and reactivate, and what an invited   *)
(* owner accepts.                                                          *)
(*                                                                         *)
(* As in Inbox, each request is one transaction at READ COMMITTED: it      *)
(* decides on the rows it has loaded and writes the columns it changed     *)
(* over the latest rows.  Only the acceptance of an invitation locks the   *)
(* row it decides on.                                                      *)
(***************************************************************************)
EXTENDS Naturals, FiniteSets

CONSTANTS
    Workers,      \* the threads that serve requests
    Companies,    \* identifiers of companies
    Invitations,  \* identifiers of invitations, each with its token
    Emails,       \* normalised email addresses; a user account is named by its own
    Routes,       \* the routes that clients call
    None          \* SQL NULL

ASSUME PlatformAssumption == None \notin Companies \union Invitations \union Emails

VARIABLES
    company,     \* committed rows of companies
    invitation,  \* committed rows of company_invitations
    overdue,     \* invitations past expires_at
    users,       \* emails with a user account
    owners,      \* emails with an active owner membership, by company
    req          \* what each worker's transaction has loaded and written

vars == <<company, invitation, overdue, users, owners, req>>

committed == <<company, invitation, overdue, users, owners>>

CompanyRow ==
    [status: {"absent", "pending", "onboarding", "active", "suspended"},
     onboarding_status: {"not_started", "owner_invited", "owner_accepted", "completed"},
     suspended_at: BOOLEAN]

InvitationRow ==
    [status: {"absent", "pending", "accepted", "expired", "revoked"},
     company: Companies \union {None}, email: Emails \union {None},
     accepted_at: BOOLEAN, revoked_at: BOOLEAN]

\* closing: invitations that the request writes as revoked or expired; new: the
\* one that it inserts, for the address email; i: the one that it accepts.
Transaction ==
    [phase: {"idle", "loaded", "listed", "flushed", "locked", "accepted"},
     route: {"invite", "revoke", "validate", "accept", "suspend", "reactivate", None},
     c: Companies \union {None}, i: Invitations \union {None}, seen: CompanyRow,
     closing: SUBSET Invitations, locks: SUBSET Invitations,
     new: Invitations \union {None}, email: Emails \union {None}]

NoCompany ==
    [status |-> "absent", onboarding_status |-> "not_started", suspended_at |-> FALSE]

NoInvitation ==
    [status |-> "absent", company |-> None, email |-> None,
     accepted_at |-> FALSE, revoked_at |-> FALSE]

Idle ==
    [phase |-> "idle", route |-> None, c |-> None, i |-> None, seen |-> NoCompany,
     closing |-> {}, locks |-> {}, new |-> None, email |-> None]

\* Companies older than the portal are active and have no onboarding.
Init ==
    /\ company \in [Companies -> {NoCompany, [NoCompany EXCEPT !.status = "active"]}]
    /\ invitation = [i \in Invitations |-> NoInvitation]
    /\ overdue = {}
    /\ users \in SUBSET Emails
    /\ owners = [c \in Companies |-> {}]
    /\ req = [w \in Workers |-> Idle]

-----------------------------------------------------------------------------
(* Rows and locks.                                                          *)

Pending(c) ==
    {i \in Invitations : invitation[i].company = c /\ invitation[i].status = "pending"}

PendingFor(c, e) == {i \in Pending(c) : invitation[i].email = e}

InvitationFree(w, i) == \A v \in Workers \ {w} : i \notin req[v].locks

\* Only an acceptance keeps the row of a company locked between two steps.
CompanyFree(w, c) == \A v \in Workers \ {w} : ~(req[v].phase = "accepted" /\ req[v].c = c)

FreshInvitation(i) == invitation[i].status = "absent" /\ \A v \in Workers : req[v].new # i

Change(w, row) == req' = [req EXCEPT ![w] = row] /\ UNCHANGED committed

Begins(w, route) == req[w].phase = "idle" /\ route \in Routes

-----------------------------------------------------------------------------
(* Provisioning.                                                            *)

NewInvitation(c, e) ==
    [NoInvitation EXCEPT !.status = "pending", !.company = c, !.email = e]

\* Both rows are new and seen by nobody before the commit.
CreateCompany(c, i, e) ==
    /\ "create" \in Routes
    /\ company[c].status = "absent"
    /\ FreshInvitation(i)
    /\ company' = [company EXCEPT ![c] =
          [NoCompany EXCEPT !.status = "pending", !.onboarding_status = "owner_invited"]]
    /\ invitation' = [invitation EXCEPT ![i] = NewInvitation(c, e)]
    /\ UNCHANGED <<overdue, users, owners, req>>

\* invite_owner lists the pending invitations of the company, whatever its status.
ListPending(w, c) ==
    /\ Begins(w, "invite")
    /\ company[c].status # "absent"
    /\ Change(w, [Idle EXCEPT !.phase = "listed", !.route = "invite", !.c = c,
                              !.closing = Pending(c)])

\* The listed invitations are flushed as revoked, decided or not meanwhile.
RevokePrevious(w) ==
    /\ req[w].phase = "listed"
    /\ \A i \in req[w].closing : InvitationFree(w, i)
    /\ Change(w, [req[w] EXCEPT !.phase = "flushed", !.locks = @ \union req[w].closing])

\* Mutant: the SELECT of create_owner_invitation without the unique index.
NotSeenPending(w, c, e) == PendingFor(c, e) \subseteq req[w].closing

\* The SELECT and the partial unique index on (company, email) of the pending
\* rows, under which the INSERT waits for a concurrent one.
NotPending(w, c, e) ==
    /\ PendingFor(c, e) \subseteq req[w].closing
    /\ \A v \in Workers \ {w} : ~(req[v].new # None /\ req[v].c = c /\ req[v].email = e)

InsertInvitation(w, i, e) ==
    /\ req[w].phase = "flushed" /\ req[w].route = "invite" /\ req[w].new = None
    /\ NotPending(w, req[w].c, e)
    /\ FreshInvitation(i)
    /\ Change(w, [req[w] EXCEPT !.new = i, !.email = e])

-----------------------------------------------------------------------------
(* Revocation and expiry.                                                   *)

\* revoke_invitation and validate_invitation load the row without a lock and
\* write it if it was pending, the latter if it was also overdue.
LoadInvitation(w, route, i) ==
    /\ route \in {"revoke", "validate"}
    /\ Begins(w, route)
    /\ invitation[i].status = "pending"
    /\ route = "validate" => i \in overdue
    /\ Change(w, [Idle EXCEPT !.phase = "loaded", !.route = route, !.closing = {i}])

FlushInvitation(w) ==
    /\ req[w].phase = "loaded" /\ req[w].route \in {"revoke", "validate"}
    /\ \A i \in req[w].closing : InvitationFree(w, i)
    /\ Change(w, [req[w] EXCEPT !.phase = "flushed", !.locks = req[w].closing])

\* Mutant: every column is written, as it was read.
ClosedAsRead(w, row) ==
    [row EXCEPT !.status = IF req[w].route = "validate" THEN "expired" ELSE "revoked",
                !.accepted_at = FALSE, !.revoked_at = req[w].route # "validate"]

\* The status, and revoked_at unless the invitation expired.
Closed(w, row) ==
    [row EXCEPT !.status = IF req[w].route = "validate" THEN "expired" ELSE "revoked",
                !.revoked_at = @ \/ req[w].route # "validate"]

\* The commit of invite_owner, revoke_invitation and validate_invitation.
CommitInvitations(w) ==
    LET t == req[w]
    IN  /\ t.phase = "flushed"
        /\ t.route = "invite" => t.new # None
        /\ invitation' =
              [i \in Invitations |->
                  CASE i \in t.closing -> Closed(w, invitation[i])
                    [] i = t.new -> NewInvitation(t.c, t.email)
                    [] OTHER -> invitation[i]]
        /\ req' = [req EXCEPT ![w] = Idle]
        /\ UNCHANGED <<company, overdue, users, owners>>

-----------------------------------------------------------------------------
(* Acceptance.                                                              *)

\* Mutant: the status of the invitation is not checked.
AcceptableUntilOverdue(i) == invitation[i].status # "absent" /\ i \notin overdue

Acceptable(i) == invitation[i].status = "pending" /\ i \notin overdue

\* accept_invitation: SELECT ... FOR UPDATE, and the checks on the locked row.
LockInvitation(w, i) ==
    /\ Begins(w, "accept")
    /\ InvitationFree(w, i)
    /\ Acceptable(i)
    /\ Change(w, [Idle EXCEPT !.phase = "locked", !.route = "accept", !.i = i,
                              !.c = invitation[i].company, !.email = invitation[i].email,
                              !.locks = {i}])

\* The user is found or inserted (users.email is unique) and
\* platform_accept_owner_invitation checks the invitation once more, then writes
\* the membership, the invitation and the company.
AcceptOwnerInvitation(w) ==
    LET t == req[w]
    IN  /\ t.phase = "locked"
        /\ \/ t.email \in users
           \/ \A v \in Workers \ {w} : ~(req[v].phase = "accepted" /\ req[v].email = t.email)
        /\ Acceptable(t.i)
        /\ CompanyFree(w, t.c)
        /\ Change(w, [t EXCEPT !.phase = "accepted"])

\* The status of the company is set to onboarding, whatever it was.
CommitAcceptance(w) ==
    LET t == req[w]
    IN  /\ t.phase = "accepted"
        /\ invitation' = [invitation EXCEPT ![t.i].status = "accepted",
                                            ![t.i].accepted_at = TRUE]
        /\ company' = [company EXCEPT ![t.c].status = "onboarding",
                                      ![t.c].onboarding_status = "owner_accepted"]
        /\ users' = users \union {t.email}
        /\ owners' = [owners EXCEPT ![t.c] = @ \union {t.email}]
        /\ req' = [req EXCEPT ![w] = Idle]
        /\ UNCHANGED overdue

-----------------------------------------------------------------------------
(* Suspension and reactivation.                                             *)

LoadCompany(w, route, c) ==
    /\ route \in {"suspend", "reactivate"}
    /\ Begins(w, route)
    /\ company[c].status # "absent"
    /\ Change(w, [Idle EXCEPT !.phase = "loaded", !.route = route, !.c = c,
                              !.seen = company[c]])

\* A column is written only if its new value differs from the one that was
\* loaded.  The company is flushed by the commit.
WriteCompany(w, route, status, suspended) ==
    LET t == req[w]
    IN  /\ t.phase = "loaded" /\ t.route = route
        /\ CompanyFree(w, t.c)
        /\ company' = [company EXCEPT
              ![t.c].status = IF t.seen.status = status THEN @ ELSE status,
              ![t.c].suspended_at = IF suspended THEN TRUE ELSE @ /\ ~t.seen.suspended_at]
        /\ req' = [req EXCEPT ![w] = Idle]
        /\ UNCHANGED <<invitation, overdue, users, owners>>

\* suspended_at is a new time.  (AuthSessions models the sessions it revokes.)
SuspendCompany(w) == WriteCompany(w, "suspend", "suspended", TRUE)

\* Mutant: the status of the onboarding is restored as that of the company.
ReactivatedToOnboarding(row) == row.onboarding_status

ReactivatedStatus(row) ==
    IF row.onboarding_status # "completed" THEN "onboarding" ELSE "active"

ReactivateCompany(w) ==
    WriteCompany(w, "reactivate", ReactivatedStatus(req[w].seen), FALSE)

-----------------------------------------------------------------------------
Rollback(w) ==
    /\ req[w].phase # "idle"
    /\ Change(w, Idle)

\* expires_at passes, 72 hours after the invitation.  It is read of pending
\* invitations only.
Expire(i) ==
    /\ invitation[i].status = "pending" /\ i \notin overdue
    /\ overdue' = overdue \union {i}
    /\ UNCHANGED <<company, invitation, users, owners, req>>

Step(w) ==
    \/ \E c \in Companies : ListPending(w, c)
    \/ RevokePrevious(w)
    \/ \E i \in Invitations, e \in Emails : InsertInvitation(w, i, e)
    \/ \E route \in Routes, i \in Invitations : LoadInvitation(w, route, i)
    \/ FlushInvitation(w)
    \/ CommitInvitations(w)
    \/ \E i \in Invitations : LockInvitation(w, i)
    \/ AcceptOwnerInvitation(w)
    \/ CommitAcceptance(w)
    \/ \E route \in Routes, c \in Companies : LoadCompany(w, route, c)
    \/ SuspendCompany(w)
    \/ ReactivateCompany(w)
    \/ Rollback(w)

Next ==
    \/ \E c \in Companies, i \in Invitations, e \in Emails : CreateCompany(c, i, e)
    \/ \E w \in Workers : Step(w)
    \/ \E i \in Invitations : Expire(i)

Spec == Init /\ [][Next]_vars

-----------------------------------------------------------------------------
(* What the platform guarantees.                                            *)

TypeOK ==
    /\ company \in [Companies -> CompanyRow]
    /\ invitation \in [Invitations -> InvitationRow]
    /\ overdue \subseteq Invitations
    /\ users \subseteq Emails
    /\ owners \in [Companies -> SUBSET Emails]
    /\ req \in [Workers -> Transaction]

\* Of concurrent invitations of one address to one company, at most one is
\* pending: an acceptance cannot leave another valid token behind.
OnePendingPerEmail ==
    \A c \in Companies, e \in Emails : Cardinality(PendingFor(c, e)) <= 1

\* Every owner accepted an invitation of that company to that address, and the
\* invitation keeps the time of it, even when a revocation that had loaded it
\* pending overwrites its status.
OwnersWereInvited ==
    \A c \in Companies :
        owners[c] = {e \in Emails :
                        \E i \in Invitations :
                            /\ invitation[i].company = c /\ invitation[i].email = e
                            /\ invitation[i].accepted_at}

\* An invitation is accepted at most once and not after it was revoked or has
\* expired, in any order of concurrent acceptances, revocations and validations.
AcceptedFromPending ==
    [][\A i \in Invitations :
        /\ invitation[i].status \notin {"absent", "pending"} =>
              invitation'[i].status \notin {"pending", "accepted"} \/ invitation'[i] = invitation[i]
        /\ invitation'[i].accepted_at /\ ~invitation[i].accepted_at =>
              invitation[i].status = "pending"]_vars

-----------------------------------------------------------------------------
\* "To reactivate, use the dedicated action": the acceptance of an invitation
\* sent before the suspension, or during it, ends it.
SuspensionLastsUntilReactivation ==
    [][\A c \in Companies :
        company[c].status = "suspended" /\ company'[c].status # "suspended" =>
            owners'[c] = owners[c] /\ invitation' = invitation]_vars
=============================================================================
