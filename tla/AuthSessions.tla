---------------------------- MODULE AuthSessions ----------------------------
(***************************************************************************)
(* The refresh-token sessions of one user in one company: login, rotation  *)
(* of refresh tokens, logout, logout-all, and the suspension of the        *)
(* company by a platform administrator.                                    *)
(*                                                                         *)
(* A session is a family of refresh tokens, its generations.  A request    *)
(* that presents a token locks its row (SELECT ... FOR UPDATE), then reads *)
(* the session without a lock, decides, and writes token rows before       *)
(* session rows.  As in Inbox, each request is one transaction at READ     *)
(* COMMITTED whose locks last until it ends.  A statement that updates     *)
(* several rows takes those of its snapshot: it waits for each row that is *)
(* locked and never sees a row committed after it started.                 *)
(***************************************************************************)
EXTENDS Naturals, FiniteSets

CONSTANTS
    Workers,   \* the threads that serve requests
    Sessions,  \* primary keys of auth_sessions, in the order of the database
    Tokens,    \* refresh tokens; the CSRF token issued with one has its name
    Routes,    \* the routes that clients call
    Ends,      \* how a session ends by itself: "expiry", "deactivation"
    None       \* SQL NULL

ASSUME WorkersAssumption == IsFiniteSet(Workers)
ASSUME SessionsAssumption == Sessions \subseteq Nat
ASSUME TokensAssumption == IsFiniteSet(Tokens) /\ None \notin Tokens \union Sessions

VARIABLES
    session,     \* committed rows of auth_sessions
    token,       \* committed rows of refresh_tokens
    expired,     \* sessions past expires_at; their tokens expire with them
    company,     \* committed companies.status, "onboarding" read as "active"
    membership,  \* committed memberships.status
    req,         \* what each worker's transaction has read, locked and written
    late         \* history: rotations committed in a session already revoked

vars == <<session, token, expired, company, membership, req, late>>

SessionRow == [state: {"absent", "live", "revoked"}, csrf: Tokens \union {None}]

TokenRow ==
    [session: Sessions \union {None}, used: BOOLEAN, revoked: BOOLEAN,
     replaced_by: Tokens \union {None}]

\* families: sessions whose tokens are still to be revoked; live: sessions to
\* revoke; todo: rows that the UPDATE of refresh_tokens in progress has yet to
\* reach; tokens and sessions: rows it has written.
Transaction ==
    [phase: {"idle", "credentials", "presented", "rotating", "revoking",
             "company", "suspending"},
     route: {"login", "refresh", "logout", "logout_all", "suspend", "reactivate", None},
     t: Tokens \union {None}, seen: SessionRow, company: {"active", "suspended"},
     families: SUBSET Sessions, live: SUBSET Sessions, todo: SUBSET Tokens,
     tokens: SUBSET Tokens, sessions: SUBSET Sessions, new: Tokens \union {None}]

NoSession == [state |-> "absent", csrf |-> None]

NoToken == [session |-> None, used |-> FALSE, revoked |-> FALSE, replaced_by |-> None]

Idle ==
    [phase |-> "idle", route |-> None, t |-> None, seen |-> NoSession,
     company |-> "active", families |-> {}, live |-> {}, todo |-> {},
     tokens |-> {}, sessions |-> {}, new |-> None]

Init ==
    /\ session = [s \in Sessions |-> NoSession]
    /\ token = [t \in Tokens |-> NoToken]
    /\ expired = {}
    /\ company = "active"
    /\ membership = "active"
    /\ req = [w \in Workers |-> Idle]
    /\ late = [s \in Sessions |-> 0]

committed == <<session, token, expired, company, membership, late>>

-----------------------------------------------------------------------------
(* Rows and locks.                                                          *)

Family(s) == {t \in Tokens : token[t].session = s}

Unrevoked(s) == {t \in Family(s) : ~token[t].revoked}

LiveSessions == {s \in Sessions : session[s].state = "live"}

SessionOf(w) == token[req[w].t].session

LockedTokens(w) == req[w].tokens \union ({req[w].t} \ {None})

TokenFree(w, t) == \A v \in Workers \ {w} : t \notin LockedTokens(v)

SessionFree(w, s) == \A v \in Workers \ {w} : s \notin req[v].sessions

FreshToken(t) == token[t].session = None /\ \A v \in Workers : req[v].new # t

FreshSession(s) == session[s].state = "absent"

Change(w, row) == req' = [req EXCEPT ![w] = row] /\ UNCHANGED committed

-----------------------------------------------------------------------------
(* Login.                                                                   *)

\* The membership and the company are read once, before the password is
\* verified and the rows are inserted.
VerifyCredentials(w) ==
    /\ req[w].phase = "idle" /\ "login" \in Routes
    /\ company = "active" /\ membership = "active"
    /\ Change(w, [Idle EXCEPT !.phase = "credentials", !.route = "login"])

\* create_session, and the commit that makes its two rows visible.
CreateSession(w, s, t) ==
    /\ req[w].phase = "credentials"
    /\ FreshSession(s) /\ FreshToken(t)
    /\ session' = [session EXCEPT ![s] = [state |-> "live", csrf |-> t]]
    /\ token' = [token EXCEPT ![t] = [NoToken EXCEPT !.session = s]]
    /\ req' = [req EXCEPT ![w] = Idle]
    /\ UNCHANGED <<expired, company, membership, late>>

-----------------------------------------------------------------------------
(* Requests that present a refresh token.                                   *)

\* Mutant: the token is read without FOR UPDATE.
PresentUnlocked(w, route, t) ==
    /\ req[w].phase = "idle" /\ route \in Routes
    /\ token[t].session # None
    /\ Change(w, [Idle EXCEPT !.phase = "presented", !.route = route, !.t = t,
                              !.seen = session[token[t].session]])

\* _refresh_record: lock the token, then read its session.  The session is read
\* by a statement of its own; no other request changes the locked row between
\* the two, so that they are one step.
Present(w, route, t) ==
    /\ req[w].phase = "idle"
    /\ route \in Routes \intersect {"refresh", "logout", "logout_all"}
    /\ token[t].session # None
    /\ TokenFree(w, t)
    /\ Change(w, [Idle EXCEPT !.phase = "presented", !.route = route, !.t = t,
                              !.seen = session[token[t].session]])

Presented(w, route) == req[w].phase = "presented" /\ req[w].route = route

\* require_csrf: the client sends the CSRF token issued with the token.
CsrfMatches(w) == req[w].seen.csrf = req[w].t

Reused(w) == token[req[w].t].used \/ token[req[w].t].revoked

\* The session, as it was read, may continue.
Continues(w) ==
    req[w].seen.state = "live" /\ SessionOf(w) \notin expired /\ membership = "active"

\* revoke_session_family: the tokens of the session first, its row at the flush
\* and only if it was read unrevoked.
RevokeFamily(w) ==
    Change(w, [req[w] EXCEPT !.phase = "revoking", !.families = {SessionOf(w)},
                   !.live = IF req[w].seen.state = "live" THEN {SessionOf(w)} ELSE {}])

\* A generation that was used or revoked is presented again.
DetectReuse(w) ==
    /\ Presented(w, "refresh")
    /\ Reused(w)
    /\ RevokeFamily(w)

\* The session is revoked or expired, or the membership inactive.
RefuseRefresh(w) ==
    /\ Presented(w, "refresh")
    /\ ~Reused(w) /\ CsrfMatches(w)
    /\ ~Continues(w)
    /\ RevokeFamily(w)

\* Mutant: the session is not checked.
RotateAnySession(w, n) ==
    /\ Presented(w, "refresh")
    /\ ~Reused(w) /\ CsrfMatches(w)
    /\ membership = "active"
    /\ FreshToken(n)
    /\ Change(w, [req[w] EXCEPT !.phase = "rotating", !.new = n])

\* The token is marked used and revoked, and its replacement inserted.  The
\* status of the company is not read.
Rotate(w, n) ==
    /\ Presented(w, "refresh")
    /\ ~Reused(w) /\ CsrfMatches(w)
    /\ Continues(w)
    /\ FreshToken(n)
    /\ Change(w, [req[w] EXCEPT !.phase = "rotating", !.new = n])

\* The second flush of a rotation: the session's csrf_token_hash.
RotateCsrf(w) ==
    /\ req[w].phase = "rotating" /\ req[w].sessions = {}
    /\ SessionFree(w, SessionOf(w))
    /\ Change(w, [req[w] EXCEPT !.sessions = {SessionOf(w)}])

Logout(w) ==
    /\ Presented(w, "logout")
    /\ CsrfMatches(w)
    /\ RevokeFamily(w)

\* The live sessions are listed once; each is then revoked as by logout.
LogoutAll(w) ==
    /\ Presented(w, "logout_all")
    /\ CsrfMatches(w)
    /\ Change(w, [req[w] EXCEPT !.phase = "revoking", !.families = LiveSessions,
                                !.live = LiveSessions])

-----------------------------------------------------------------------------
(* The statements of a revocation.                                          *)

\* An UPDATE of refresh_tokens starts: its snapshot fixes the rows.
StartRevocation(w, s) ==
    /\ req[w].phase = "revoking" /\ req[w].todo = {}
    /\ s \in req[w].families
    /\ Change(w, [req[w] EXCEPT !.families = @ \ {s}, !.todo = Unrevoked(s)])

RevokeToken(w, t) ==
    /\ t \in req[w].todo
    /\ TokenFree(w, t)
    /\ Change(w, [req[w] EXCEPT !.todo = @ \ {t}, !.tokens = @ \union {t}])

\* Mutant: session rows are written before the tokens.
RevokeSessionFirst(w, s) ==
    /\ req[w].phase \in {"revoking", "suspending"}
    /\ s \in req[w].live \ req[w].sessions
    /\ SessionFree(w, s)
    /\ Change(w, [req[w] EXCEPT !.sessions = @ \union {s}])

\* Session rows are flushed after every token, in the order of their keys.  The
\* UPDATE of a suspension takes them in any order.
RevokeSession(w, s) ==
    /\ \/ /\ req[w].phase = "revoking" /\ req[w].todo = {} /\ req[w].families = {}
          /\ \A r \in req[w].live \ req[w].sessions : s <= r
       \/ req[w].phase = "suspending"
    /\ s \in req[w].live \ req[w].sessions
    /\ SessionFree(w, s)
    /\ Change(w, [req[w] EXCEPT !.sessions = @ \union {s}])

-----------------------------------------------------------------------------
(* The platform administration.                                             *)

\* suspend_company and reactivate_company load the company.
LoadCompany(w, route) ==
    /\ req[w].phase = "idle" /\ route \in Routes \intersect {"suspend", "reactivate"}
    /\ Change(w, [Idle EXCEPT !.phase = "company", !.route = route, !.company = company])

\* platform_revoke_company_sessions starts, before the company is written.
RevokeCompanySessions(w) ==
    /\ req[w].phase = "company" /\ req[w].route = "suspend"
    /\ Change(w, [req[w] EXCEPT !.phase = "suspending", !.live = LiveSessions])

\* The status is written only if it differs from the one that was loaded.
WriteCompany(w, status) ==
    /\ company' = IF req[w].company # status THEN status ELSE company
    /\ session' = [s \in Sessions |->
                      IF s \in req[w].sessions THEN [session[s] EXCEPT !.state = "revoked"]
                      ELSE session[s]]
    /\ req' = [req EXCEPT ![w] = Idle]
    /\ UNCHANGED <<token, expired, membership, late>>

SuspendCompany(w) ==
    /\ req[w].phase = "suspending" /\ req[w].live = req[w].sessions
    /\ WriteCompany(w, "suspended")

ReactivateCompany(w) ==
    /\ req[w].phase = "company" /\ req[w].route = "reactivate"
    /\ WriteCompany(w, "active")

-----------------------------------------------------------------------------
(* The end of a request.                                                    *)

\* Mutants: the UPDATE writes every column as it was read; it leaves the CSRF
\* token; it stores the key of the session for it.
RotatedAsRead(w, row, n) == [state |-> req[w].seen.state, csrf |-> n]

RotatedWithoutCsrf(w, row, n) == row

RotatedToKey(w, row, n) == [row EXCEPT !.csrf = SessionOf(w)]

Rotated(w, row, n) == [row EXCEPT !.csrf = n]

CommitRotation(w) ==
    LET s == SessionOf(w)
        n == req[w].new
    IN  /\ req[w].phase = "rotating" /\ req[w].sessions # {}
        /\ token' = [token EXCEPT
                        ![req[w].t].used = TRUE, ![req[w].t].revoked = TRUE,
                        ![req[w].t].replaced_by = n,
                        ![n] = [NoToken EXCEPT !.session = s]]
        /\ session' = [session EXCEPT ![s] = Rotated(w, @, n)]
        /\ late' = [late EXCEPT ![s] = IF session[s].state = "revoked" THEN @ + 1 ELSE @]
        /\ req' = [req EXCEPT ![w] = Idle]
        /\ UNCHANGED <<expired, company, membership>>

CommitRevocation(w) ==
    /\ req[w].phase = "revoking"
    /\ req[w].todo = {} /\ req[w].families = {} /\ req[w].live = req[w].sessions
    /\ token' = [t \in Tokens |->
                    IF t \in req[w].tokens THEN [token[t] EXCEPT !.revoked = TRUE] ELSE token[t]]
    /\ session' = [s \in Sessions |->
                      IF s \in req[w].sessions THEN [session[s] EXCEPT !.state = "revoked"]
                      ELSE session[s]]
    /\ req' = [req EXCEPT ![w] = Idle]
    /\ UNCHANGED <<expired, company, membership, late>>

\* Refused (401, 403), failed, crashed, or the victim of a deadlock.
Rollback(w) ==
    /\ req[w].phase # "idle"
    /\ Change(w, Idle)

\* expires_at passes.
Expire(s) ==
    /\ "expiry" \in Ends
    /\ session[s].state # "absent" /\ s \notin expired
    /\ expired' = expired \union {s}
    /\ UNCHANGED <<session, token, company, membership, req, late>>

\* No route deactivates a membership: an operator does it in the database.
DeactivateMembership ==
    /\ "deactivation" \in Ends
    /\ membership = "active"
    /\ membership' = "inactive"
    /\ UNCHANGED <<session, token, expired, company, req, late>>

Step(w) ==
    \/ VerifyCredentials(w)
    \/ \E s \in Sessions, t \in Tokens : CreateSession(w, s, t)
    \/ \E route \in Routes, t \in Tokens : Present(w, route, t)
    \/ DetectReuse(w)
    \/ RefuseRefresh(w)
    \/ \E n \in Tokens : Rotate(w, n)
    \/ RotateCsrf(w)
    \/ CommitRotation(w)
    \/ Logout(w)
    \/ LogoutAll(w)
    \/ \E s \in Sessions : StartRevocation(w, s)
    \/ \E t \in Tokens : RevokeToken(w, t)
    \/ \E s \in Sessions : RevokeSession(w, s)
    \/ CommitRevocation(w)
    \/ \E route \in Routes : LoadCompany(w, route)
    \/ RevokeCompanySessions(w)
    \/ SuspendCompany(w)
    \/ ReactivateCompany(w)
    \/ Rollback(w)

Next ==
    \/ \E w \in Workers : Step(w)
    \/ \E s \in Sessions : Expire(s)
    \/ DeactivateMembership

Spec == Init /\ [][Next]_vars

-----------------------------------------------------------------------------
(* What the sessions guarantee.                                             *)

TypeOK ==
    /\ session \in [Sessions -> SessionRow]
    /\ token \in [Tokens -> TokenRow]
    /\ expired \subseteq Sessions
    /\ company \in {"active", "suspended"}
    /\ membership \in {"active", "inactive"}
    /\ req \in [Workers -> Transaction]
    /\ late \in [Sessions -> Nat]

\* A client that holds a usable generation can use it: refresh, logout and
\* logout-all compare its CSRF token with the session's, which two requests
\* that rotate or revoke must never leave at another generation.  So a session
\* has at most one generation that is not revoked.
CsrfOfUsableGeneration ==
    \A s \in Sessions : Unrevoked(s) \subseteq {session[s].csrf}

\* "Two concurrent requests can never use the same generation": every
\* generation of a session but the first replaced exactly one other.
OneSuccessor ==
    \A s \in Sessions :
        LET used == {t \in Family(s) : token[t].used}
        IN  /\ session[s].state # "absent" => Cardinality(Family(s)) = Cardinality(used) + 1
            /\ \A t \in Family(s) : token[t].used <=> token[t].replaced_by # None
            /\ \A t, u \in used : token[t].replaced_by = token[u].replaced_by => t = u

\* A revoked session never comes back, and neither does a token: not even
\* a rotation that read the session live and commits after its revocation.
RevocationIsFinal ==
    [][/\ \A s \in Sessions :
             session[s].state = "revoked" => session'[s].state = "revoked"
       /\ \A t \in Tokens : token[t].revoked => token'[t].revoked]_vars

\* A rotation reads the session without locking it and may commit after a
\* suspension has revoked it.  That happens at most once per session: the new
\* generation is never exchanged again.
AtMostOneLateRotation == \A s \in Sessions : late[s] <= 1

\* Workers waiting for each other: every one has a row to lock next that
\* another one holds.
WaitsFor(w, v) ==
    \/ \E t \in req[w].todo : t \in LockedTokens(v)
    \/ req[w].phase = "rotating" /\ req[w].sessions = {} /\ SessionOf(w) \in req[v].sessions
    \/ req[w].phase = "revoking" /\ req[w].todo = {} /\ req[w].families = {}
       /\ \E s \in (req[w].live \ req[w].sessions) \intersect req[v].sessions :
             \A r \in req[w].live \ req[w].sessions : s <= r
    \/ req[w].phase = "suspending"
       /\ ((req[w].live \ req[w].sessions) \intersect req[v].sessions) # {}

Deadlocked(W) == W # {} /\ \A w \in W : \E v \in W \ {w} : WaitsFor(w, v)

\* Requests lock tokens before sessions and several sessions only in
\* logout_all and suspend: without two of these at once, no set of requests
\* waits for each other, whatever the others do.
DeadlockNeedsTwoBulkRequests ==
    \A W \in SUBSET Workers :
        Deadlocked(W) =>
            Cardinality({w \in W : req[w].route \in {"logout_all", "suspend"}}) >= 2
=============================================================================
