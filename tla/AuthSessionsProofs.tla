------------------------- MODULE AuthSessionsProofs -------------------------
(***************************************************************************)
(* What the sessions guarantee, proved for any number of workers, sessions *)
(* and tokens.                                                             *)
(*                                                                         *)
(* The session is read without a lock, so that what a request knows of it  *)
(* may be stale.  The argument rests on the token instead: its row stays   *)
(* locked, a session has at most one generation that is not revoked, and   *)
(* that one is locked by the request that exchanges it.                    *)
(***************************************************************************)
EXTENDS AuthSessions, TLAPS, FiniteSetTheorems

\* A token belongs to a session from its insertion on, and is replaced by
\* another such token when it is used.
TokenRows ==
    \A t \in Tokens :
        /\ token[t].session = None => token[t] = NoToken
        /\ token[t].session # None => session[token[t].session].state # "absent"
        /\ token[t].replaced_by # None => token[token[t].replaced_by].session # None

\* A rotation that was late left the session revoked.
LateRows == \A s \in Sessions : late[s] # 0 => late[s] = 1 /\ session[s].state = "revoked"

\* The locks of a transaction, as LockedTokens of its worker.
LocksOf(row) == row.tokens \union ({row.t} \ {None})

\* After a late rotation, no request in progress can rotate: the generation it
\* presented is revoked, or it has read the session revoked.
NotLate(row) ==
    row.t # None /\ late[token[row.t].session] # 0 =>
        /\ row.phase # "rotating"
        /\ row.phase = "presented" => token[row.t].revoked \/ row.seen.state # "live"

\* A transaction in progress, against the rows as committed now.
RowOK(row) ==
    /\ row.phase \in {"presented", "rotating"} => row.t # None
    /\ row.t # None => token[row.t].session # None
    /\ row.new # None => token[row.new].session = None
    /\ row.phase = "rotating" => row.new # None /\ ~token[row.t].used /\ ~token[row.t].revoked
    /\ \A s \in row.live \union row.sessions : session[s].state # "absent"
    /\ \A u \in row.todo \union row.tokens : token[u].session # None
    /\ NotLate(row)

Exclusive == \A v, w \in Workers : v # w => LocksOf(req[v]) \intersect LocksOf(req[w]) = {}

DistinctNew == \A v, w \in Workers : v # w /\ req[v].new # None => req[v].new # req[w].new

IInv ==
    /\ TypeOK
    /\ TokenRows
    /\ CsrfOfUsableGeneration
    /\ OneSuccessor
    /\ LateRows
    /\ \A w \in Workers : RowOK(req[w])
    /\ Exclusive
    /\ DistinctNew

-----------------------------------------------------------------------------
(* Typing.                                                                  *)

LEMMA TypedRows ==
    ASSUME TypeOK
    PROVE  /\ \A s \in Sessions : session[s] \in SessionRow
           /\ \A t \in Tokens : token[t] \in TokenRow
           /\ \A w \in Workers : req[w] \in Transaction
    BY DEF TypeOK

LEMMA IdleTransaction == Idle \in Transaction
    BY DEF Idle, Transaction, NoSession, SessionRow

LEMMA NoTokenTyped == NoToken \in TokenRow
    BY DEF NoToken, TokenRow

\* The session of a presented token.
LEMMA SessionOfTyped ==
    ASSUME TypeOK, NEW w \in Workers, req[w].t # None, token[req[w].t].session # None
    PROVE  /\ req[w].t \in Tokens
           /\ SessionOf(w) \in Sessions
    BY TypedRows DEF Transaction, TokenRow, SessionOf

\* An idle transaction holds nothing.
LEMMA IdleOK == RowOK(Idle) /\ LocksOf(Idle) = {} /\ Idle.new = None
    BY DEF RowOK, NotLate, LocksOf, Idle

LEMMA InitInv == Init => IInv
<1> SUFFICES ASSUME Init PROVE IInv
    OBVIOUS
<1>1. TypeOK
    BY IdleTransaction, NoTokenTyped DEF Init, TypeOK, NoSession, SessionRow
<1>2. \A t \in Tokens : token[t] = NoToken
    BY DEF Init
<1>3. TokenRows
  <2>1. NoToken.session = None /\ NoToken.replaced_by = None
      BY DEF NoToken
  <2>2. QED
      BY <1>2, <2>1 DEF TokenRows
<1>4. CsrfOfUsableGeneration
    BY <1>2, TokensAssumption DEF CsrfOfUsableGeneration, Unrevoked, Family, NoToken
<1>5. OneSuccessor
    BY <1>2, TokensAssumption DEF OneSuccessor, Family, NoToken, Init, NoSession
<1>6. LateRows
    BY DEF LateRows, Init
<1>7. \A w \in Workers : req[w] = Idle
    BY DEF Init
<1>8. \A w \in Workers : RowOK(req[w])
    BY <1>7, IdleOK
<1>9. Exclusive /\ DistinctNew
    BY <1>7, IdleOK DEF Exclusive, DistinctNew
<1>10. QED
    BY <1>1, <1>3, <1>4, <1>5, <1>6, <1>8, <1>9 DEF IInv

-----------------------------------------------------------------------------
(* The generations of a session.                                            *)

Used(s) == {t \in Family(s) : token[t].used}

\* OneSuccessor of one session.
Successors(s) ==
    /\ session[s].state # "absent" => Cardinality(Family(s)) = Cardinality(Used(s)) + 1
    /\ \A t \in Family(s) : token[t].used <=> token[t].replaced_by # None
    /\ \A t, u \in Used(s) : token[t].replaced_by = token[u].replaced_by => t = u

LEMMA SuccessorsOfAll == OneSuccessor <=> \A s \in Sessions : Successors(s)
    BY DEF OneSuccessor, Successors, Used

LEMMA SuccessorsKept ==
    ASSUME OneSuccessor, token' = token, session' = session
    PROVE  OneSuccessor'
<1>1. ASSUME NEW s \in Sessions PROVE Successors(s)'
  <2>1. Successors(s)
      BY SuccessorsOfAll
  <2>2. Family(s)' = Family(s) /\ Used(s)' = Used(s)
      BY DEF Family, Used
  <2>3. QED
      BY <2>1, <2>2 DEF Successors
<1>2. QED
    BY <1>1 DEF OneSuccessor, Successors, Used

-----------------------------------------------------------------------------
(* Steps that commit nothing.                                               *)

\* What must be shown of the row that such a step leaves.
LEMMA ChangePreserves ==
    ASSUME IInv, NEW w \in Workers, NEW row \in Transaction, Change(w, row),
           RowOK(row),
           \A t \in LocksOf(row) \ LocksOf(req[w]) : TokenFree(w, t),
           row.new = None \/ row.new = req[w].new \/ \A v \in Workers : req[v].new # row.new
    PROVE  IInv'
<1>1. /\ req' = [req EXCEPT ![w] = row]
      /\ session' = session /\ token' = token /\ expired' = expired
      /\ company' = company /\ membership' = membership /\ late' = late
    BY DEF Change, committed
<1>2. TypeOK'
    BY <1>1 DEF IInv, TypeOK
<1>3. req'[w] = row /\ \A v \in Workers \ {w} : req'[v] = req[v]
    BY <1>1 DEF IInv, TypeOK
<1>4. TokenRows' /\ LateRows'
    BY <1>1 DEF IInv, TokenRows, LateRows
<1>5. CsrfOfUsableGeneration'
    BY <1>1 DEF IInv, CsrfOfUsableGeneration, Unrevoked, Family
<1>6. OneSuccessor'
    BY <1>1, SuccessorsKept DEF IInv
<1>7. ASSUME NEW v \in Workers PROVE RowOK(req[v])'
  <2>1. RowOK(req'[v])
      BY <1>3 DEF IInv
  <2>2. QED
      BY <2>1, <1>1 DEF RowOK, NotLate
<1>8. ASSUME NEW v \in Workers \ {w} PROVE LocksOf(row) \intersect LocksOf(req[v]) = {}
  <2>1. LocksOf(req[w]) \intersect LocksOf(req[v]) = {}
      BY DEF IInv, Exclusive
  <2>2. \A t \in LocksOf(row) \ LocksOf(req[w]) : t \notin LocksOf(req[v])
      BY DEF TokenFree, LockedTokens, LocksOf
  <2>3. QED
      BY <2>1, <2>2
<1>9. Exclusive'
  <2> SUFFICES ASSUME NEW u \in Workers, NEW v \in Workers, u # v
               PROVE  LocksOf(req'[u]) \intersect LocksOf(req'[v]) = {}
      BY DEF Exclusive, LocksOf
  <2>1. CASE u = w
      BY <2>1, <1>3, <1>8
  <2>2. CASE v = w
      BY <2>2, <1>3, <1>8
  <2>3. CASE u # w /\ v # w
      BY <2>3, <1>3 DEF IInv, Exclusive
  <2>4. QED
      BY <2>1, <2>2, <2>3
<1>10. DistinctNew'
    BY <1>3 DEF DistinctNew, IInv
<1>11. QED
    BY <1>2, <1>4, <1>5, <1>6, <1>7, <1>9, <1>10 DEF IInv

-----------------------------------------------------------------------------
(* Reading, deciding and locking.                                           *)

LEMMA PresentPreserves ==
    ASSUME IInv, NEW w \in Workers, NEW route \in Routes, NEW t \in Tokens,
           Present(w, route, t)
    PROVE  IInv'
<1> DEFINE row == [Idle EXCEPT !.phase = "presented", !.route = route, !.t = t,
                               !.seen = session[token[t].session]]
<1>1. token[t].session \in Sessions
    BY TypedRows DEF Present, IInv, TokenRow
<1>2. row \in Transaction
    BY <1>1, TypedRows DEF Present, Idle, Transaction, IInv
<1>3. row.phase = "presented" /\ row.t = t /\ row.seen = session[token[t].session]
      /\ row.new = None /\ row.live = {} /\ row.sessions = {} /\ row.tokens = {} /\ row.todo = {}
    BY DEF Idle
<1>4. Change(w, row) /\ TokenFree(w, t) /\ token[t].session # None
    BY DEF Present
<1> HIDE DEF row
<1>5. NotLate(row)
    BY <1>1, <1>3 DEF NotLate, IInv, LateRows
<1>6. RowOK(row)
    BY <1>3, <1>4, <1>5, TokensAssumption DEF RowOK
<1>7. LocksOf(row) \subseteq {t}
    BY <1>3 DEF LocksOf
<1>8. QED
    BY <1>2, <1>3, <1>4, <1>6, <1>7, ChangePreserves

\* The family of the presented token is to be revoked.
LEMMA RevokeFamilyPreserves ==
    ASSUME IInv, NEW w \in Workers, req[w].phase = "presented", RevokeFamily(w)
    PROVE  IInv'
<1> DEFINE row == [req[w] EXCEPT !.phase = "revoking", !.families = {SessionOf(w)},
                       !.live = IF req[w].seen.state = "live" THEN {SessionOf(w)} ELSE {}]
<1>1. RowOK(req[w]) /\ req[w] \in Transaction
    BY TypedRows DEF IInv
<1>2. req[w].t # None /\ token[req[w].t].session # None
    BY <1>1 DEF RowOK
<1>3. SessionOf(w) \in Sessions /\ req[w].t \in Tokens
    BY <1>2, SessionOfTyped DEF IInv
<1>4. row \in Transaction
    BY <1>1, <1>3 DEF Transaction
<1>5. row.phase = "revoking" /\ row.t = req[w].t /\ row.new = req[w].new
      /\ row.live \subseteq {SessionOf(w)} /\ row.sessions = req[w].sessions
      /\ row.tokens = req[w].tokens /\ row.todo = req[w].todo
    BY <1>1 DEF Transaction
<1>6. session[SessionOf(w)].state # "absent"
    BY <1>2, <1>3 DEF IInv, TokenRows, SessionOf
<1>7. Change(w, row)
    BY DEF RevokeFamily
<1> HIDE DEF row
<1>8. RowOK(row)
    BY <1>1, <1>5, <1>6 DEF RowOK, NotLate
<1>9. LocksOf(row) = LocksOf(req[w])
    BY <1>5 DEF LocksOf
<1>10. QED
    BY <1>4, <1>5, <1>7, <1>8, <1>9, ChangePreserves

LEMMA RotatePreserves ==
    ASSUME IInv, NEW w \in Workers, NEW n \in Tokens, Rotate(w, n)
    PROVE  IInv'
<1> DEFINE row == [req[w] EXCEPT !.phase = "rotating", !.new = n]
<1>1. RowOK(req[w]) /\ req[w] \in Transaction
    BY TypedRows DEF IInv
<1>2. row \in Transaction
    BY <1>1 DEF Transaction
<1>3. row.phase = "rotating" /\ row.t = req[w].t /\ row.new = n /\ row.live = req[w].live
      /\ row.sessions = req[w].sessions /\ row.tokens = req[w].tokens /\ row.todo = req[w].todo
    BY <1>1 DEF Transaction
<1>4. /\ Change(w, row) /\ req[w].phase = "presented"
      /\ ~token[req[w].t].used /\ ~token[req[w].t].revoked
      /\ req[w].seen.state = "live"
      /\ token[n].session = None /\ \A v \in Workers : req[v].new # n
    BY DEF Rotate, Presented, Reused, Continues, FreshToken
<1>5. n # None
    BY TokensAssumption
<1> HIDE DEF row
<1>6. NotLate(row)
    BY <1>1, <1>3, <1>4 DEF RowOK, NotLate
<1>7. RowOK(row)
    BY <1>1, <1>3, <1>4, <1>5, <1>6 DEF RowOK
<1>8. LocksOf(row) = LocksOf(req[w])
    BY <1>3 DEF LocksOf
<1>9. QED
    BY <1>2, <1>3, <1>4, <1>7, <1>8, ChangePreserves

LEMMA RotateCsrfPreserves ==
    ASSUME IInv, NEW w \in Workers, RotateCsrf(w)
    PROVE  IInv'
<1> DEFINE row == [req[w] EXCEPT !.sessions = {SessionOf(w)}]
<1>1. RowOK(req[w]) /\ req[w] \in Transaction
    BY TypedRows DEF IInv
<1>2. req[w].t # None /\ token[req[w].t].session # None
    BY <1>1 DEF RowOK, RotateCsrf
<1>3. SessionOf(w) \in Sessions /\ req[w].t \in Tokens
    BY <1>2, SessionOfTyped DEF IInv
<1>4. row \in Transaction
    BY <1>1, <1>3 DEF Transaction
<1>5. row.phase = req[w].phase /\ row.t = req[w].t /\ row.new = req[w].new
      /\ row.live = req[w].live /\ row.sessions = {SessionOf(w)}
      /\ row.tokens = req[w].tokens /\ row.todo = req[w].todo /\ row.seen = req[w].seen
    BY <1>1 DEF Transaction
<1>6. session[SessionOf(w)].state # "absent"
    BY <1>2, <1>3 DEF IInv, TokenRows, SessionOf
<1>7. Change(w, row)
    BY DEF RotateCsrf
<1> HIDE DEF row
<1>8. RowOK(row)
    BY <1>1, <1>5, <1>6 DEF RowOK, NotLate
<1>9. LocksOf(row) = LocksOf(req[w])
    BY <1>5 DEF LocksOf
<1>10. QED
    BY <1>4, <1>5, <1>7, <1>8, <1>9, ChangePreserves

\* A transaction that is no longer presenting or rotating, with locks that were
\* free and sessions that exist.
LEMMA RevocationStepPreserves ==
    ASSUME IInv, NEW w \in Workers, NEW row \in Transaction, Change(w, row),
           row.phase \notin {"presented", "rotating"},
           row.t = req[w].t, row.new = req[w].new,
           \A s \in row.live \union row.sessions : session[s].state # "absent",
           \A u \in row.todo \union row.tokens : token[u].session # None,
           \A t \in row.tokens \ req[w].tokens : TokenFree(w, t)
    PROVE  IInv'
<1>1. RowOK(req[w])
    BY DEF IInv
<1>2. RowOK(row)
    BY <1>1 DEF RowOK, NotLate
<1>3. \A t \in LocksOf(row) \ LocksOf(req[w]) : TokenFree(w, t)
    BY DEF LocksOf
<1>4. QED
    BY <1>2, <1>3, ChangePreserves

LEMMA VerifyCredentialsPreserves ==
    ASSUME IInv, NEW w \in Workers, VerifyCredentials(w)
    PROVE  IInv'
<1> DEFINE row == [Idle EXCEPT !.phase = "credentials", !.route = "login"]
<1>1. row \in Transaction
    BY IdleTransaction DEF Transaction
<1>2. row.phase = "credentials" /\ row.t = None /\ row.new = None
      /\ row.live = {} /\ row.sessions = {} /\ row.tokens = {} /\ row.todo = {}
    BY DEF Idle
<1>3. Change(w, row)
    BY DEF VerifyCredentials
<1> HIDE DEF row
<1>4. RowOK(row) /\ LocksOf(row) = {}
    BY <1>2 DEF RowOK, NotLate, LocksOf
<1>5. QED
    BY <1>1, <1>2, <1>3, <1>4, ChangePreserves

LEMMA LoadCompanyPreserves ==
    ASSUME IInv, NEW w \in Workers, NEW route \in Routes, LoadCompany(w, route)
    PROVE  IInv'
<1> DEFINE row == [Idle EXCEPT !.phase = "company", !.route = route, !.company = company]
<1>1. row \in Transaction
    BY IdleTransaction DEF Transaction, IInv, TypeOK, LoadCompany
<1>2. row.phase = "company" /\ row.t = None /\ row.new = None
      /\ row.live = {} /\ row.sessions = {} /\ row.tokens = {} /\ row.todo = {}
    BY DEF Idle
<1>3. Change(w, row)
    BY DEF LoadCompany
<1> HIDE DEF row
<1>4. RowOK(row) /\ LocksOf(row) = {}
    BY <1>2 DEF RowOK, NotLate, LocksOf
<1>5. QED
    BY <1>1, <1>2, <1>3, <1>4, ChangePreserves

LEMMA RollbackPreserves ==
    ASSUME IInv, NEW w \in Workers, Rollback(w)
    PROVE  IInv'
    BY IdleTransaction, IdleOK, ChangePreserves DEF Rollback

LEMMA LiveSessionsExist ==
    ASSUME IInv
    PROVE  LiveSessions \subseteq Sessions /\ \A s \in LiveSessions : session[s].state # "absent"
    BY DEF LiveSessions

LEMMA LogoutAllPreserves ==
    ASSUME IInv, NEW w \in Workers, LogoutAll(w)
    PROVE  IInv'
<1> DEFINE row == [req[w] EXCEPT !.phase = "revoking", !.families = LiveSessions,
                                 !.live = LiveSessions]
<1>1. RowOK(req[w]) /\ req[w] \in Transaction
    BY TypedRows DEF IInv
<1>2. row \in Transaction
    BY <1>1, LiveSessionsExist DEF Transaction
<1>3. row.phase = "revoking" /\ row.t = req[w].t /\ row.new = req[w].new
      /\ row.live = LiveSessions /\ row.sessions = req[w].sessions
      /\ row.tokens = req[w].tokens /\ row.todo = req[w].todo
    BY <1>1 DEF Transaction
<1>4. Change(w, row)
    BY DEF LogoutAll
<1> HIDE DEF row
<1>5. \A s \in row.live \union row.sessions : session[s].state # "absent"
    BY <1>1, <1>3, LiveSessionsExist DEF RowOK
<1>6. \A u \in row.todo \union row.tokens : token[u].session # None
    BY <1>1, <1>3 DEF RowOK
<1>7. QED
    BY <1>2, <1>3, <1>4, <1>5, <1>6, RevocationStepPreserves

LEMMA StartRevocationPreserves ==
    ASSUME IInv, NEW w \in Workers, NEW s \in Sessions, StartRevocation(w, s)
    PROVE  IInv'
<1> DEFINE row == [req[w] EXCEPT !.families = @ \ {s}, !.todo = Unrevoked(s)]
<1>1. RowOK(req[w]) /\ req[w] \in Transaction
    BY TypedRows DEF IInv
<1>2. row \in Transaction
    BY <1>1 DEF Transaction, Unrevoked, Family
<1>3. row.phase = req[w].phase /\ row.t = req[w].t /\ row.new = req[w].new
      /\ row.live = req[w].live /\ row.sessions = req[w].sessions
      /\ row.tokens = req[w].tokens /\ row.todo = Unrevoked(s)
    BY <1>1 DEF Transaction
<1>4. Change(w, row) /\ req[w].phase = "revoking"
    BY DEF StartRevocation
<1> HIDE DEF row
<1>5. \A r \in row.live \union row.sessions : session[r].state # "absent"
    BY <1>1, <1>3 DEF RowOK
<1>6. \A u \in row.todo \union row.tokens : token[u].session # None
    BY <1>1, <1>3, TokensAssumption DEF RowOK, Unrevoked, Family
<1>7. QED
    BY <1>2, <1>3, <1>4, <1>5, <1>6, RevocationStepPreserves

\* One more generation is locked.
LEMMA RevokeTokenPreserves ==
    ASSUME IInv, NEW w \in Workers, NEW t \in Tokens, RevokeToken(w, t)
    PROVE  IInv'
<1> DEFINE row == [req[w] EXCEPT !.todo = @ \ {t}, !.tokens = @ \union {t}]
<1>1. RowOK(req[w]) /\ req[w] \in Transaction
    BY TypedRows DEF IInv
<1>2. row \in Transaction
    BY <1>1 DEF Transaction
<1>3. row.phase = req[w].phase /\ row.t = req[w].t /\ row.new = req[w].new
      /\ row.live = req[w].live /\ row.sessions = req[w].sessions
      /\ row.tokens = req[w].tokens \union {t} /\ row.todo = req[w].todo \ {t} /\ row.seen = req[w].seen
    BY <1>1 DEF Transaction
<1>4. Change(w, row) /\ TokenFree(w, t) /\ t \in req[w].todo
    BY DEF RevokeToken
<1> HIDE DEF row
<1>5. RowOK(row)
    BY <1>1, <1>3, <1>4 DEF RowOK, NotLate
<1>6. LocksOf(row) \subseteq LocksOf(req[w]) \union {t}
    BY <1>3 DEF LocksOf
<1>7. QED
    BY <1>2, <1>3, <1>4, <1>5, <1>6, ChangePreserves

LEMMA RevokeSessionPreserves ==
    ASSUME IInv, NEW w \in Workers, NEW s \in Sessions, RevokeSession(w, s)
    PROVE  IInv'
<1> DEFINE row == [req[w] EXCEPT !.sessions = @ \union {s}]
<1>1. RowOK(req[w]) /\ req[w] \in Transaction
    BY TypedRows DEF IInv
<1>2. row \in Transaction
    BY <1>1 DEF Transaction
<1>3. row.phase = req[w].phase /\ row.t = req[w].t /\ row.new = req[w].new
      /\ row.live = req[w].live /\ row.sessions = req[w].sessions \union {s}
      /\ row.tokens = req[w].tokens /\ row.todo = req[w].todo
    BY <1>1 DEF Transaction
<1>4. Change(w, row) /\ req[w].phase \in {"revoking", "suspending"} /\ s \in req[w].live
    BY DEF RevokeSession
<1> HIDE DEF row
<1>5. \A r \in row.live \union row.sessions : session[r].state # "absent"
    BY <1>1, <1>3, <1>4 DEF RowOK
<1>6. \A u \in row.todo \union row.tokens : token[u].session # None
    BY <1>1, <1>3 DEF RowOK
<1>7. QED
    BY <1>2, <1>3, <1>4, <1>5, <1>6, RevocationStepPreserves

LEMMA RevokeCompanySessionsPreserves ==
    ASSUME IInv, NEW w \in Workers, RevokeCompanySessions(w)
    PROVE  IInv'
<1> DEFINE row == [req[w] EXCEPT !.phase = "suspending", !.live = LiveSessions]
<1>1. RowOK(req[w]) /\ req[w] \in Transaction
    BY TypedRows DEF IInv
<1>2. row \in Transaction
    BY <1>1, LiveSessionsExist DEF Transaction
<1>3. row.phase = "suspending" /\ row.t = req[w].t /\ row.new = req[w].new
      /\ row.live = LiveSessions /\ row.sessions = req[w].sessions
      /\ row.tokens = req[w].tokens /\ row.todo = req[w].todo
    BY <1>1 DEF Transaction
<1>4. Change(w, row)
    BY DEF RevokeCompanySessions
<1> HIDE DEF row
<1>5. \A s \in row.live \union row.sessions : session[s].state # "absent"
    BY <1>1, <1>3, LiveSessionsExist DEF RowOK
<1>6. \A u \in row.todo \union row.tokens : token[u].session # None
    BY <1>1, <1>3 DEF RowOK
<1>7. QED
    BY <1>2, <1>3, <1>4, <1>5, <1>6, RevocationStepPreserves

-----------------------------------------------------------------------------
(* The end of a transaction.                                                *)

\* The other transactions keep their locks and their new tokens.
LEMMA EndOfTransaction ==
    ASSUME IInv, NEW w \in Workers, req' = [req EXCEPT ![w] = Idle]
    PROVE  /\ req'[w] = Idle
           /\ \A v \in Workers \ {w} : req'[v] = req[v]
           /\ req' \in [Workers -> Transaction]
           /\ Exclusive' /\ DistinctNew'
<1>1. req'[w] = Idle /\ \A v \in Workers \ {w} : req'[v] = req[v]
    BY DEF IInv, TypeOK
<1>2. req' \in [Workers -> Transaction]
    BY IdleTransaction DEF IInv, TypeOK
<1>3. ASSUME NEW u \in Workers, NEW v \in Workers, u # v
      PROVE  LocksOf(req'[u]) \intersect LocksOf(req'[v]) = {}
  <2>1. CASE u = w \/ v = w
      BY <2>1, <1>1, IdleOK, <1>3
  <2>2. CASE u # w /\ v # w
      BY <2>2, <1>1, <1>3 DEF IInv, Exclusive
  <2>3. QED
      BY <2>1, <2>2
<1>4. Exclusive'
    BY <1>3 DEF Exclusive, LocksOf
<1>5. DistinctNew'
    BY <1>1, IdleOK DEF DistinctNew, IInv
<1>6. QED
    BY <1>1, <1>2, <1>4, <1>5

\* What the commit of one transaction may do to the rows that another one
\* relies on.
LEMMA OthersOK ==
    ASSUME IInv, NEW v \in Workers, req'[v] = req[v],
           \A t \in Tokens : token[t].session # None => token'[t].session = token[t].session,
           \A s \in Sessions : session[s].state # "absent" => session'[s].state # "absent",
           req[v].new # None => token'[req[v].new].session = None,
           req[v].phase = "rotating" =>
              /\ token'[req[v].t].used = token[req[v].t].used
              /\ token'[req[v].t].revoked = token[req[v].t].revoked,
           req[v].t # None /\ late'[token[req[v].t].session] # 0 =>
              /\ req[v].phase # "rotating"
              /\ req[v].phase = "presented" =>
                    token'[req[v].t].revoked \/ req[v].seen.state # "live"
    PROVE  RowOK(req[v])'
<1>1. RowOK(req[v]) /\ req[v] \in Transaction
    BY TypedRows DEF IInv
<1>2. req[v].t # None => req[v].t \in Tokens /\ token[req[v].t].session # None
                        /\ token'[req[v].t].session = token[req[v].t].session
    BY <1>1 DEF Transaction, RowOK
<1>3. /\ \A s \in req[v].live \union req[v].sessions : s \in Sessions
      /\ \A u \in req[v].todo \union req[v].tokens : u \in Tokens
    BY <1>1 DEF Transaction
<1>4. NotLate(req[v])'
    BY <1>2 DEF NotLate
<1>5. QED
    BY <1>1, <1>2, <1>3, <1>4 DEF RowOK

LEMMA IdleStaysOK ==
    ASSUME NEW w \in Workers, req'[w] = Idle
    PROVE  RowOK(req[w])'
    BY DEF RowOK, NotLate, Idle

\* Tokens stay where they are: only the columns of sessions change.
LEMMA WriteCompanyPreserves ==
    ASSUME IInv, NEW w \in Workers, NEW status \in {"active", "suspended"},
           WriteCompany(w, status)
    PROVE  IInv'
<1>1. /\ req' = [req EXCEPT ![w] = Idle]
      /\ token' = token /\ late' = late /\ expired' = expired /\ membership' = membership
      /\ session' = [s \in Sessions |->
                        IF s \in req[w].sessions THEN [session[s] EXCEPT !.state = "revoked"]
                        ELSE session[s]]
      /\ company' = IF req[w].company # status THEN status ELSE company
    BY DEF WriteCompany
<1>2. ASSUME NEW s \in Sessions
      PROVE  /\ session'[s] \in SessionRow
             /\ session'[s].csrf = session[s].csrf
             /\ session[s].state = "absent" <=> session'[s].state = "absent"
             /\ session[s].state = "revoked" => session'[s].state = "revoked"
  <2>1. session[s] \in SessionRow
      BY TypedRows DEF IInv
  <2>2. s \in req[w].sessions => session[s].state # "absent"
      BY DEF IInv, RowOK
  <2>3. QED
      BY <1>1, <2>1, <2>2 DEF SessionRow
<1>3. TypeOK'
    BY <1>1, <1>2, EndOfTransaction DEF IInv, TypeOK
<1>4. TokenRows'
    BY <1>1, <1>2, TypedRows DEF IInv, TokenRows, TokenRow
<1>5. CsrfOfUsableGeneration'
    BY <1>1, <1>2 DEF IInv, CsrfOfUsableGeneration, Unrevoked, Family
<1>6. OneSuccessor'
  <2>1. ASSUME NEW s \in Sessions PROVE Successors(s)'
    <3>1. Successors(s)
        BY SuccessorsOfAll DEF IInv
    <3>2. Family(s)' = Family(s) /\ Used(s)' = Used(s)
        BY <1>1 DEF Family, Used
    <3>3. QED
        BY <1>1, <1>2, <3>1, <3>2 DEF Successors
  <2>2. QED
      BY <2>1 DEF OneSuccessor, Successors, Used
<1>7. LateRows'
    BY <1>1, <1>2 DEF IInv, LateRows
<1>8. ASSUME NEW v \in Workers PROVE RowOK(req[v])'
  <2>1. CASE v = w
      BY <2>1, <1>1, EndOfTransaction, IdleStaysOK
  <2>2. CASE v # w
    <3>1. req'[v] = req[v]
        BY <2>2, <1>1, EndOfTransaction
    <3>2. RowOK(req[v])
        BY DEF IInv
    <3>3. QED
        BY <3>1, <3>2, <1>1, <1>2, OthersOK DEF RowOK, NotLate
  <2>3. QED
      BY <2>1, <2>2
<1>9. Exclusive' /\ DistinctNew'
    BY <1>1, EndOfTransaction
<1>10. QED
    BY <1>3, <1>4, <1>5, <1>6, <1>7, <1>8, <1>9 DEF IInv

LEMMA CommitRevocationPreserves ==
    ASSUME IInv, NEW w \in Workers, CommitRevocation(w)
    PROVE  IInv'
<1>1. /\ req' = [req EXCEPT ![w] = Idle]
      /\ late' = late /\ expired' = expired /\ membership' = membership /\ company' = company
      /\ session' = [s \in Sessions |->
                        IF s \in req[w].sessions THEN [session[s] EXCEPT !.state = "revoked"]
                        ELSE session[s]]
      /\ token' = [t \in Tokens |->
                      IF t \in req[w].tokens THEN [token[t] EXCEPT !.revoked = TRUE]
                      ELSE token[t]]
    BY DEF CommitRevocation
<1>2. ASSUME NEW s \in Sessions
      PROVE  /\ session'[s] \in SessionRow
             /\ session'[s].csrf = session[s].csrf
             /\ session[s].state = "absent" <=> session'[s].state = "absent"
             /\ session[s].state = "revoked" => session'[s].state = "revoked"
  <2>1. session[s] \in SessionRow
      BY TypedRows DEF IInv
  <2>2. s \in req[w].sessions => session[s].state # "absent"
      BY DEF IInv, RowOK
  <2>3. QED
      BY <1>1, <2>1, <2>2 DEF SessionRow
<1>3. ASSUME NEW t \in Tokens
      PROVE  /\ token'[t] \in TokenRow
             /\ token'[t].session = token[t].session
             /\ token'[t].used = token[t].used
             /\ token'[t].replaced_by = token[t].replaced_by
             /\ token[t].revoked => token'[t].revoked
             /\ t \notin req[w].tokens => token'[t] = token[t]
  <2>1. token[t] \in TokenRow
      BY TypedRows DEF IInv
  <2>2. QED
      BY <1>1, <2>1 DEF TokenRow
<1>4. TypeOK'
    BY <1>1, <1>2, <1>3, EndOfTransaction DEF IInv, TypeOK
<1>5. TokenRows'
  <2>1. \A t \in Tokens : token[t] \in TokenRow /\ NoToken.revoked = FALSE
      BY TypedRows DEF IInv, NoToken
  <2>2. ASSUME NEW t \in Tokens, token[t].session = None PROVE token'[t] = NoToken
    <3>1. t \notin req[w].tokens
        BY <2>2 DEF IInv, RowOK
    <3>2. QED
        BY <2>2, <3>1, <1>3 DEF IInv, TokenRows
  <2>3. \A t \in Tokens : token[t].replaced_by # None => token[t].replaced_by \in Tokens
      BY <2>1 DEF TokenRow
  <2>4. \A t \in Tokens : token[t].session # None => token[t].session \in Sessions
      BY <2>1 DEF TokenRow
  <2>5. QED
      BY <1>2, <1>3, <2>2, <2>3, <2>4 DEF IInv, TokenRows
<1>6. CsrfOfUsableGeneration'
    BY <1>2, <1>3 DEF IInv, CsrfOfUsableGeneration, Unrevoked, Family
<1>7. OneSuccessor'
  <2>1. ASSUME NEW s \in Sessions PROVE Successors(s)'
    <3>1. Successors(s)
        BY SuccessorsOfAll DEF IInv
    <3>2. Family(s)' = Family(s) /\ Used(s)' = Used(s)
        BY <1>3 DEF Family, Used
    <3>3. \A t \in Family(s) \union Used(s) : t \in Tokens
        BY DEF Family, Used
    <3>4. QED
        BY <1>2, <1>3, <3>1, <3>2, <3>3 DEF Successors
  <2>2. QED
      BY <2>1 DEF OneSuccessor, Successors, Used
<1>8. LateRows'
    BY <1>1, <1>2 DEF IInv, LateRows
<1>9. ASSUME NEW v \in Workers PROVE RowOK(req[v])'
  <2>1. CASE v = w
      BY <2>1, <1>1, EndOfTransaction, IdleStaysOK
  <2>2. CASE v # w
    <3>1. req'[v] = req[v]
        BY <2>2, <1>1, EndOfTransaction
    <3>2. RowOK(req[v]) /\ req[v] \in Transaction
        BY TypedRows DEF IInv
    <3>3. req[v].t # None => req[v].t \in Tokens /\ req[v].t \notin req[w].tokens
        BY <2>2, <3>2 DEF IInv, Exclusive, LocksOf, Transaction
    <3>4. req[v].new # None => req[v].new \in Tokens
        BY <3>2 DEF Transaction
    <3>5. req[v].phase = "rotating" => token'[req[v].t] = token[req[v].t]
        BY <1>3, <3>2, <3>3 DEF RowOK
    <3>6. req[v].new # None => token'[req[v].new].session = None
        BY <1>3, <3>2, <3>4 DEF RowOK
    <3>7. req[v].t # None /\ late'[token[req[v].t].session] # 0 =>
              /\ req[v].phase # "rotating"
              /\ req[v].phase = "presented" =>
                    token'[req[v].t].revoked \/ req[v].seen.state # "live"
        BY <1>1, <1>3, <3>2, <3>3 DEF RowOK, NotLate
    <3>8. QED
        BY <3>1, <3>5, <3>6, <3>7, <1>2, <1>3, OthersOK
  <2>3. QED
      BY <2>1, <2>2
<1>10. Exclusive' /\ DistinctNew'
    BY <1>1, EndOfTransaction
<1>11. QED
    BY <1>4, <1>5, <1>6, <1>7, <1>8, <1>9, <1>10 DEF IInv

\* The row of a token that was just issued.
LEMMA IssuedToken ==
    ASSUME NEW s \in Sessions, NEW row, row = [NoToken EXCEPT !.session = s]
    PROVE  /\ row \in TokenRow
           /\ row.session = s /\ ~row.used /\ ~row.revoked /\ row.replaced_by = None
    BY DEF NoToken, TokenRow

\* A session without a row has no token, and its first one is its only one.
LEMMA CreateSessionPreserves ==
    ASSUME IInv, NEW w \in Workers, NEW s \in Sessions, NEW t \in Tokens,
           CreateSession(w, s, t)
    PROVE  IInv'
<1> DEFINE issued == [NoToken EXCEPT !.session = s]
<1> DEFINE opened == [state |-> "live", csrf |-> t]
<1>1. /\ session[s].state = "absent" /\ token[t].session = None
      /\ \A v \in Workers : req[v].new # t
      /\ session' = [session EXCEPT ![s] = opened]
      /\ token' = [token EXCEPT ![t] = issued]
      /\ req' = [req EXCEPT ![w] = Idle]
      /\ late' = late /\ expired' = expired /\ membership' = membership /\ company' = company
    BY DEF CreateSession, FreshSession, FreshToken
<1>2. /\ issued \in TokenRow
      /\ issued.session = s /\ ~issued.used /\ ~issued.revoked /\ issued.replaced_by = None
    BY IssuedToken
<1>3. opened \in SessionRow /\ opened.state = "live" /\ opened.csrf = t
    BY DEF SessionRow
<1> HIDE DEF issued, opened
<1>4. /\ session'[s] = opened /\ token'[t] = issued
      /\ \A r \in Sessions \ {s} : session'[r] = session[r]
      /\ \A u \in Tokens \ {t} : token'[u] = token[u]
    BY <1>1 DEF IInv, TypeOK
<1>5. s # None /\ t # None
    BY TokensAssumption
<1>6. token[t].replaced_by = None
  <2>1. token[t] = NoToken
      BY <1>1 DEF IInv, TokenRows
  <2>2. NoToken.replaced_by = None
      BY DEF NoToken
  <2>3. QED
      BY <2>1, <2>2
<1>7. \A u \in Tokens : token[u].session # s
    BY <1>1, <1>5 DEF IInv, TokenRows
<1>8. TypeOK'
    BY <1>1, <1>2, <1>3, EndOfTransaction DEF IInv, TypeOK
<1>9. TokenRows'
  <2>1. \A u \in Tokens : /\ token[u].session \in Sessions \union {None}
                          /\ token[u].replaced_by \in Tokens \union {None}
      BY TypedRows DEF IInv, TokenRow
  <2>2. \A r \in Sessions : session[r].state # "absent" => session'[r].state # "absent"
      BY <1>3, <1>4
  <2>3. \A u \in Tokens : token[u].session # None => token'[u].session # None
      BY <1>1, <1>4
  <2>4. QED
      BY <1>2, <1>3, <1>4, <1>5, <2>1, <2>2, <2>3 DEF IInv, TokenRows
<1>10. CsrfOfUsableGeneration'
    BY <1>2, <1>3, <1>4, <1>7 DEF IInv, CsrfOfUsableGeneration, Unrevoked, Family
<1>11. ASSUME NEW r \in Sessions PROVE Successors(r)'
  <2>1. CASE r = s
    <3>1. Family(s)' = {t} /\ Used(s)' = {}
        BY <1>2, <1>4, <1>7 DEF Family, Used
    <3>2. Cardinality({t}) = 1 /\ Cardinality({}) = 0
        BY FS_Singleton, FS_EmptySet
    <3>3. QED
        BY <2>1, <3>1, <3>2, <1>2, <1>4 DEF Successors
  <2>2. CASE r # s
    <3>1. Family(r)' = Family(r) /\ Used(r)' = Used(r)
        BY <2>2, <1>1, <1>2, <1>4, TokensAssumption DEF Family, Used
    <3>2. \A u \in Family(r) \union Used(r) : token'[u] = token[u]
        BY <1>1, <1>4, TokensAssumption DEF Family, Used
    <3>3. Successors(r)
        BY SuccessorsOfAll DEF IInv
    <3>4. QED
        BY <2>2, <3>1, <3>2, <3>3, <1>4 DEF Successors
  <2>3. QED
      BY <2>1, <2>2
<1>12. OneSuccessor'
    BY <1>11 DEF OneSuccessor, Successors, Used
<1>13. LateRows'
    BY <1>1, <1>4 DEF IInv, LateRows
<1>14. ASSUME NEW v \in Workers PROVE RowOK(req[v])'
  <2>1. CASE v = w
      BY <2>1, <1>1, EndOfTransaction, IdleStaysOK
  <2>2. CASE v # w
    <3>1. req'[v] = req[v]
        BY <2>2, <1>1, EndOfTransaction
    <3>2. RowOK(req[v]) /\ req[v] \in Transaction
        BY TypedRows DEF IInv
    <3>3. req[v].t # None => token'[req[v].t] = token[req[v].t]
        BY <1>1, <1>4, <3>2 DEF RowOK, Transaction
    <3>4. req[v].new # None => token'[req[v].new].session = None
        BY <1>1, <1>4, <3>2 DEF RowOK, Transaction
    <3>5. \A u \in Tokens : token[u].session # None => token'[u].session = token[u].session
        BY <1>1, <1>4
    <3>6. \A r \in Sessions : session[r].state # "absent" => session'[r].state # "absent"
        BY <1>1, <1>4
    <3>7. req[v].phase = "rotating" => token'[req[v].t] = token[req[v].t]
        BY <3>2, <3>3 DEF RowOK
    <3>8. req[v].t # None /\ late'[token[req[v].t].session] # 0 =>
              /\ req[v].phase # "rotating"
              /\ req[v].phase = "presented" =>
                    token'[req[v].t].revoked \/ req[v].seen.state # "live"
        BY <1>1, <3>2, <3>3 DEF RowOK, NotLate
    <3>9. QED
        BY <3>1, <3>4, <3>5, <3>6, <3>7, <3>8, OthersOK
  <2>3. QED
      BY <2>1, <2>2
<1>15. Exclusive' /\ DistinctNew'
    BY <1>1, EndOfTransaction
<1>16. QED
    BY <1>8, <1>9, <1>10, <1>12, <1>13, <1>14, <1>15 DEF IInv

\* The generation that is exchanged is the only one that is not revoked, and so
\* no other request that is not bound to fail has presented this session.
LEMMA CommitRotationPreserves ==
    ASSUME IInv, NEW w \in Workers, CommitRotation(w)
    PROVE  IInv'
<1>a. RowOK(req[w]) /\ req[w] \in Transaction /\ req[w].phase = "rotating"
    BY TypedRows DEF IInv, CommitRotation
<1>b. req[w].t # None /\ token[req[w].t].session # None /\ req[w].new # None
    BY <1>a DEF RowOK
<1>c. PICK s \in Sessions, n \in Tokens, t0 \in Tokens :
         s = SessionOf(w) /\ n = req[w].new /\ t0 = req[w].t
    BY <1>a, <1>b, SessionOfTyped DEF IInv, Transaction
<1> DEFINE issued == [NoToken EXCEPT !.session = s]
<1> DEFINE rotated == [session[s] EXCEPT !.csrf = n]
<1>1. /\ req[w].phase = "rotating" /\ req' = [req EXCEPT ![w] = Idle]
      /\ expired' = expired /\ membership' = membership /\ company' = company
      /\ late' = [late EXCEPT ![s] = IF session[s].state = "revoked" THEN @ + 1 ELSE @]
      /\ session' = [session EXCEPT ![s] = rotated]
    BY <1>c DEF CommitRotation, Rotated
<1>3. t0 # None /\ n # None
    BY <1>b, <1>c
<1>4. t0 \in Tokens /\ s \in Sessions /\ n \in Tokens
    OBVIOUS
<1>5. /\ token[t0].session = s /\ ~token[t0].used /\ ~token[t0].revoked
      /\ token[n].session = None /\ late[s] = 0
    BY <1>a, <1>b, <1>c DEF RowOK, NotLate, SessionOf
<1>6. n # t0
    BY <1>5, TokensAssumption
<1>7. /\ issued \in TokenRow
      /\ issued.session = s /\ ~issued.used /\ ~issued.revoked /\ issued.replaced_by = None
    BY <1>4, IssuedToken
<1>8. rotated \in SessionRow /\ rotated.state = session[s].state /\ rotated.csrf = n
    BY <1>4, TypedRows DEF IInv, SessionRow
<1>9. /\ token' = [token EXCEPT
                      ![t0].used = TRUE, ![t0].revoked = TRUE,
                      ![t0].replaced_by = n, ![n] = issued]
    BY <1>c DEF CommitRotation
<1> HIDE DEF issued, rotated
<1>10. /\ token'[n] = issued
       /\ \A u \in Tokens \ {n, t0} : token'[u] = token[u]
       /\ token'[t0] = [token[t0] EXCEPT !.used = TRUE, !.revoked = TRUE, !.replaced_by = n]
       /\ DOMAIN token' = Tokens /\ token' = [u \in Tokens |-> token'[u]]
    BY <1>4, <1>6, <1>9 DEF IInv, TypeOK
<1>11. /\ token'[t0] \in TokenRow
       /\ token'[t0].session = s /\ token'[t0].used /\ token'[t0].revoked
       /\ token'[t0].replaced_by = n
    BY <1>4, <1>5, <1>10, TypedRows DEF IInv, TokenRow
<1>12. session'[s] = rotated /\ \A r \in Sessions \ {s} : session'[r] = session[r]
    BY <1>1, <1>4 DEF IInv, TypeOK
<1>13. Unrevoked(s) = {t0} /\ session[s].csrf = t0
    BY <1>4, <1>5 DEF IInv, CsrfOfUsableGeneration, Unrevoked, Family
<1>14. s # None
    BY <1>4, TokensAssumption
<1>15. TypeOK'
  <2>1. session' \in [Sessions -> SessionRow]
      BY <1>1, <1>4, <1>8 DEF IInv, TypeOK
  <2>2. token' \in [Tokens -> TokenRow]
    <3>1. \A u \in Tokens : token'[u] \in TokenRow
        BY <1>7, <1>10, <1>11, TypedRows DEF IInv
    <3>2. QED
        BY <3>1, <1>10
  <2>3. late' \in [Sessions -> Nat]
      BY <1>1, <1>4, <1>5 DEF IInv, TypeOK
  <2>4. QED
      BY <2>1, <2>2, <2>3, <1>1, EndOfTransaction DEF IInv, TypeOK
<1>16. \A u \in Tokens : token[u].session # None => token'[u].session = token[u].session
    BY <1>5, <1>10, <1>11
<1>17. \A r \in Sessions : session'[r].state = session[r].state
    BY <1>8, <1>12
<1>18. TokenRows'
  <2>1. \A u \in Tokens : /\ token[u].session \in Sessions \union {None}
                          /\ token[u].replaced_by \in Tokens \union {None}
      BY TypedRows DEF IInv, TokenRow
  <2>2. ASSUME NEW u \in Tokens
        PROVE  /\ token'[u].session = None => token'[u] = NoToken
               /\ token'[u].session # None => session'[token'[u].session].state # "absent"
               /\ token'[u].replaced_by # None =>
                     token'[token'[u].replaced_by].session # None
    <3>1. session[s].state # "absent"
        BY <1>4, <1>5, <1>14 DEF IInv, TokenRows
    <3>2. CASE u = n
        BY <3>1, <3>2, <1>4, <1>7, <1>10, <1>14, <1>17
    <3>3. CASE u = t0
        BY <3>1, <3>3, <1>4, <1>7, <1>10, <1>11, <1>14, <1>17
    <3>4. CASE u # n /\ u # t0
      <4>1. token'[u] = token[u]
          BY <3>4, <1>10
      <4>2. token[u].session = None => token[u] = NoToken
          BY DEF IInv, TokenRows
      <4>3. token[u].session # None => session'[token[u].session].state # "absent"
          BY <2>1, <1>17 DEF IInv, TokenRows
      <4>4. token[u].replaced_by # None => token'[token[u].replaced_by].session # None
          BY <2>1, <1>16 DEF IInv, TokenRows
      <4>5. QED
          BY <4>1, <4>2, <4>3, <4>4
    <3>5. QED
        BY <3>2, <3>3, <3>4
  <2>3. QED
      BY <2>2 DEF TokenRows
\* The tokens of the other sessions are as they were.
<1>19. ASSUME NEW r \in Sessions, r # s
       PROVE  /\ Family(r)' = Family(r) /\ Used(r)' = Used(r)
              /\ Unrevoked(r)' = Unrevoked(r)
              /\ \A u \in Family(r) : token'[u] = token[u]
  <2>1. \A u \in Family(r) : u # n /\ u # t0 /\ token'[u] = token[u]
      BY <1>5, <1>10, <1>19, TokensAssumption DEF Family
  <2>2. ASSUME NEW u \in Tokens PROVE token'[u].session = r <=> token[u].session = r
    <3>1. CASE u = n
        BY <3>1, <1>5, <1>7, <1>10, <1>19, TokensAssumption
    <3>2. CASE u = t0
        BY <3>2, <1>5, <1>11
    <3>3. CASE u # n /\ u # t0
        BY <3>3, <1>10
    <3>4. QED
        BY <3>1, <3>2, <3>3
  <2>3. Family(r)' = Family(r)
      BY <2>2 DEF Family
  <2>4. QED
      BY <2>1, <2>3 DEF Used, Unrevoked
<1>20. CsrfOfUsableGeneration'
  <2>1. ASSUME NEW r \in Sessions, r # s PROVE Unrevoked(r)' \subseteq {session'[r].csrf}
      BY <2>1, <1>12, <1>19 DEF IInv, CsrfOfUsableGeneration
  <2>2. Unrevoked(s)' \subseteq {session'[s].csrf}
    <3>1. ASSUME NEW u \in Tokens, token'[u].session = s, ~token'[u].revoked PROVE u = n
      <4>1. CASE u = t0
          BY <4>1, <3>1, <1>11
      <4>2. CASE u # t0 /\ u # n
        <5>1. u \in Unrevoked(s)
            BY <4>2, <3>1, <1>10 DEF Unrevoked, Family
        <5>2. QED
            BY <5>1, <4>2, <1>13
      <4>3. QED
          BY <4>1, <4>2
    <3>2. QED
        BY <3>1, <1>8, <1>12 DEF Unrevoked, Family
  <2>3. QED
      BY <2>1, <2>2 DEF CsrfOfUsableGeneration
<1>21. ASSUME NEW r \in Sessions PROVE Successors(r)'
  <2>1. Successors(r)
      BY SuccessorsOfAll DEF IInv
  <2>2. CASE r # s
    <3>1. \A u \in Used(r) : u \in Family(r)
        BY DEF Used
    <3>2. QED
        BY <2>1, <2>2, <3>1, <1>17, <1>19 DEF Successors
  <2>3. CASE r = s
    <3>1. Family(s)' = Family(s) \union {n} /\ n \notin Family(s)
      <4>1. token'[n].session = s /\ token[n].session # s
          BY <1>5, <1>7, <1>10, <1>14
      <4>2. \A u \in Tokens \ {n} : token'[u].session = s <=> token[u].session = s
          BY <1>5, <1>10, <1>11
      <4>3. QED
          BY <4>1, <4>2 DEF Family
    <3>2. Used(s)' = Used(s) \union {t0} /\ t0 \notin Used(s) /\ t0 \in Family(s)
      <4>1. \A u \in Tokens :
               token'[u].session = s /\ token'[u].used <=>
                  (token[u].session = s /\ token[u].used) \/ u = t0
          BY <1>4, <1>5, <1>7, <1>10, <1>11, <1>14
      <4>2. QED
          BY <4>1, <1>4, <1>5 DEF Used, Family
    <3>3. IsFiniteSet(Family(s)) /\ IsFiniteSet(Used(s))
      <4>1. Family(s) \subseteq Tokens /\ Used(s) \subseteq Tokens
          BY DEF Family, Used
      <4>2. QED
          BY <4>1, TokensAssumption, FS_Subset
    <3>4. /\ Cardinality(Family(s)) \in Nat /\ Cardinality(Used(s)) \in Nat
          /\ Cardinality(Family(s) \union {n}) = Cardinality(Family(s)) + 1
          /\ Cardinality(Used(s) \union {t0}) = Cardinality(Used(s)) + 1
        BY <3>1, <3>2, <3>3, FS_AddElement, FS_CardinalityType
    <3>5. session'[s].state # "absent" =>
             Cardinality(Family(s)') = Cardinality(Used(s)') + 1
        BY <2>1, <2>3, <3>1, <3>2, <3>4, <1>4, <1>17 DEF Successors
    <3>6. \A u \in Family(s)' : token'[u].used <=> token'[u].replaced_by # None
      <4>1. \A u \in Family(s) : token[u].used <=> token[u].replaced_by # None
          BY <2>1, <2>3 DEF Successors
      <4>2. \A u \in Family(s) : u \in Tokens
          BY DEF Family
      <4>3. QED
          BY <3>1, <4>1, <4>2, <1>3, <1>4, <1>7, <1>10, <1>11
    <3>7. \A u \in Used(s) : u \in Tokens /\ token'[u] = token[u] /\ token[u].replaced_by # n
      <4>1. \A u \in Used(s) : u \in Tokens /\ u # n /\ u # t0
          BY <3>1, <3>2 DEF Used, Family
      <4>2. \A u \in Tokens : token[u].replaced_by # n
          BY <1>3, <1>5 DEF IInv, TokenRows
      <4>3. QED
          BY <4>1, <4>2, <1>10
    <3>8. \A u, v \in Used(s)' : token'[u].replaced_by = token'[v].replaced_by => u = v
      <4>1. \A u, v \in Used(s) : token[u].replaced_by = token[v].replaced_by => u = v
          BY <2>1, <2>3 DEF Successors
      <4>2. QED
          BY <3>2, <3>7, <4>1, <1>11
    <3>9. QED
        BY <2>3, <3>5, <3>6, <3>8 DEF Successors
  <2>4. QED
      BY <2>2, <2>3
<1>22. OneSuccessor'
    BY <1>21 DEF OneSuccessor, Successors, Used
<1>23. late'[s] # 0 => late'[s] = 1 /\ session[s].state = "revoked"
  <2>1. CASE session[s].state = "revoked"
      BY <2>1, <1>1, <1>4, <1>5 DEF IInv, TypeOK
  <2>2. CASE session[s].state # "revoked"
      BY <2>2, <1>1, <1>4, <1>5 DEF IInv, TypeOK
  <2>3. QED
      BY <2>1, <2>2
<1>24. \A r \in Sessions \ {s} : late'[r] = late[r]
    BY <1>1 DEF IInv, TypeOK
<1>25. LateRows'
    BY <1>4, <1>17, <1>23, <1>24 DEF IInv, LateRows
<1>26. ASSUME NEW v \in Workers PROVE RowOK(req[v])'
  <2>1. CASE v = w
      BY <2>1, <1>1, EndOfTransaction, IdleStaysOK
  <2>2. CASE v # w
    <3>1. req'[v] = req[v]
        BY <2>2, <1>1, EndOfTransaction
    <3>2. RowOK(req[v]) /\ req[v] \in Transaction
        BY TypedRows DEF IInv
    <3>3. req[v].t # None => /\ req[v].t \in Tokens /\ token[req[v].t].session # None
                             /\ token[req[v].t].session \in Sessions
        BY <3>2, TypedRows DEF IInv, RowOK, Transaction, TokenRow
    <3>4. req[v].t # None => req[v].t # t0
        BY <2>2, <1>3, <1>c DEF IInv, Exclusive, LocksOf
    <3>5. req[v].t # None => token'[req[v].t] = token[req[v].t]
        BY <3>3, <3>4, <1>5, <1>10
    <3>6. req[v].new # None => token'[req[v].new].session = None
      <4>1. req[v].new # None => req[v].new # n
          BY <2>2, <1>3, <1>c DEF IInv, DistinctNew
      <4>2. req[v].new # None => req[v].new \in Tokens /\ token[req[v].new].session = None
          BY <3>2 DEF RowOK, Transaction
      <4>3. QED
          BY <4>1, <4>2, <1>5, <1>10, <1>14
    <3>7. req[v].phase = "rotating" => token'[req[v].t] = token[req[v].t]
        BY <3>2, <3>5 DEF RowOK
    <3>8. req[v].t # None /\ late'[token[req[v].t].session] # 0 =>
              /\ req[v].phase # "rotating"
              /\ req[v].phase = "presented" =>
                    token'[req[v].t].revoked \/ req[v].seen.state # "live"
      <4>1. CASE req[v].t # None /\ token[req[v].t].session = s
        <5>1. token[req[v].t].revoked
            BY <4>1, <3>3, <3>4, <1>13 DEF Unrevoked, Family
        <5>2. QED
            BY <4>1, <5>1, <3>2, <3>5 DEF RowOK
      <4>2. CASE req[v].t # None /\ token[req[v].t].session # s
          BY <4>2, <3>2, <3>3, <3>5, <1>24 DEF RowOK, NotLate
      <4>3. QED
          BY <4>1, <4>2
    <3>9. QED
        BY <3>1, <3>6, <3>7, <3>8, <1>16, <1>17, OthersOK
  <2>3. QED
      BY <2>1, <2>2
<1>27. Exclusive' /\ DistinctNew'
    BY <1>1, EndOfTransaction
<1>28. QED
    BY <1>15, <1>18, <1>20, <1>22, <1>25, <1>26, <1>27 DEF IInv

\* Time passes, or an operator deactivates the membership.
LEMMA RequestsUntouched ==
    ASSUME IInv, UNCHANGED <<session, token, company, req, late>>,
           expired' \subseteq Sessions, membership' \in {"active", "inactive"}
    PROVE  IInv'
<1>1. TypeOK'
    BY DEF IInv, TypeOK
<1>2. TokenRows' /\ LateRows' /\ CsrfOfUsableGeneration'
    BY DEF IInv, TokenRows, LateRows, CsrfOfUsableGeneration, Unrevoked, Family
<1>3. OneSuccessor'
    BY SuccessorsKept DEF IInv
<1>4. ASSUME NEW v \in Workers PROVE RowOK(req[v])'
  <2>1. RowOK(req[v])
      BY DEF IInv
  <2>2. QED
      BY <2>1 DEF RowOK, NotLate
<1>5. Exclusive' /\ DistinctNew'
    BY DEF IInv, Exclusive, DistinctNew, LocksOf
<1>6. QED
    BY <1>1, <1>2, <1>3, <1>4, <1>5 DEF IInv

-----------------------------------------------------------------------------
(* The theorems.                                                            *)

LEMMA StepPreserves ==
    ASSUME IInv, NEW w \in Workers, Step(w)
    PROVE  IInv'
<1>1. CASE VerifyCredentials(w)
    BY <1>1, VerifyCredentialsPreserves
<1>2. ASSUME NEW s \in Sessions, NEW t \in Tokens, CreateSession(w, s, t) PROVE IInv'
    BY <1>2, CreateSessionPreserves
<1>3. ASSUME NEW route \in Routes, NEW t \in Tokens, Present(w, route, t) PROVE IInv'
    BY <1>3, PresentPreserves
<1>4. CASE DetectReuse(w) \/ RefuseRefresh(w) \/ Logout(w)
    BY <1>4, RevokeFamilyPreserves DEF DetectReuse, RefuseRefresh, Logout, Presented
<1>5. ASSUME NEW n \in Tokens, Rotate(w, n) PROVE IInv'
    BY <1>5, RotatePreserves
<1>6. CASE RotateCsrf(w)
    BY <1>6, RotateCsrfPreserves
<1>7. CASE CommitRotation(w)
    BY <1>7, CommitRotationPreserves
<1>8. CASE LogoutAll(w)
    BY <1>8, LogoutAllPreserves
<1>9. ASSUME NEW s \in Sessions, StartRevocation(w, s) PROVE IInv'
    BY <1>9, StartRevocationPreserves
<1>10. ASSUME NEW t \in Tokens, RevokeToken(w, t) PROVE IInv'
    BY <1>10, RevokeTokenPreserves
<1>11. ASSUME NEW s \in Sessions, RevokeSession(w, s) PROVE IInv'
    BY <1>11, RevokeSessionPreserves
<1>12. CASE CommitRevocation(w)
    BY <1>12, CommitRevocationPreserves
<1>13. ASSUME NEW route \in Routes, LoadCompany(w, route) PROVE IInv'
    BY <1>13, LoadCompanyPreserves
<1>14. CASE RevokeCompanySessions(w)
    BY <1>14, RevokeCompanySessionsPreserves
<1>15. CASE SuspendCompany(w) \/ ReactivateCompany(w)
  <2>1. \E status \in {"active", "suspended"} : WriteCompany(w, status)
      BY <1>15 DEF SuspendCompany, ReactivateCompany
  <2>2. QED
      BY <2>1, WriteCompanyPreserves
<1>16. CASE Rollback(w)
    BY <1>16, RollbackPreserves
<1>17. QED
    BY <1>1, <1>2, <1>3, <1>4, <1>5, <1>6, <1>7, <1>8, <1>9, <1>10, <1>11, <1>12,
       <1>13, <1>14, <1>15, <1>16 DEF Step

LEMMA NextPreserves ==
    ASSUME IInv, [Next]_vars
    PROVE  IInv'
<1>1. ASSUME NEW w \in Workers, Step(w) PROVE IInv'
    BY <1>1, StepPreserves
<1>2. ASSUME NEW s \in Sessions, Expire(s) PROVE IInv'
  <2>1. expired' \subseteq Sessions /\ membership' \in {"active", "inactive"}
      BY <1>2 DEF Expire, IInv, TypeOK
  <2>2. QED
      BY <1>2, <2>1, RequestsUntouched DEF Expire
<1>3. CASE DeactivateMembership
  <2>1. expired' \subseteq Sessions /\ membership' \in {"active", "inactive"}
      BY <1>3 DEF DeactivateMembership, IInv, TypeOK
  <2>2. QED
      BY <1>3, <2>1, RequestsUntouched DEF DeactivateMembership
<1>4. CASE UNCHANGED vars
  <2>1. UNCHANGED <<session, token, company, req, late>>
      BY <1>4 DEF vars
  <2>2. expired' \subseteq Sessions /\ membership' \in {"active", "inactive"}
      BY <1>4 DEF vars, IInv, TypeOK
  <2>3. QED
      BY <2>1, <2>2, RequestsUntouched
<1>5. QED
    BY <1>1, <1>2, <1>3, <1>4 DEF Next

\* The inductive invariant: the rows, and what every request in progress knows
\* of them for certain.
THEOREM Invariance == Spec => []IInv
<1>1. Init => IInv
    BY InitInv
<1>2. IInv /\ [Next]_vars => IInv'
    BY NextPreserves
<1>3. QED
    BY <1>1, <1>2, PTL DEF Spec

\* The rows of the tables of sessions and tokens keep their types.
THEOREM TypeCorrectness == Spec => []TypeOK
<1>1. IInv => TypeOK
    BY DEF IInv
<1>2. QED
    BY <1>1, Invariance, PTL

\* auth.refresh and sessions.revoke_session_family leave the CSRF token of a
\* session at its only generation that is not revoked.
THEOREM CsrfCorrectness == Spec => []CsrfOfUsableGeneration
<1>1. IInv => CsrfOfUsableGeneration
    BY DEF IInv
<1>2. QED
    BY <1>1, Invariance, PTL

\* No two requests exchange the same generation in auth.refresh, whatever the
\* number of requests and of generations.
THEOREM SuccessorCorrectness == Spec => []OneSuccessor
<1>1. IInv => OneSuccessor
    BY DEF IInv
<1>2. QED
    BY <1>1, Invariance, PTL

\* auth.refresh commits in a session that platform.suspend_company has revoked
\* once at most.
THEOREM LateRotationCorrectness == Spec => []AtMostOneLateRotation
<1>1. IInv => AtMostOneLateRotation
  <2> SUFFICES ASSUME IInv, NEW s \in Sessions PROVE late[s] <= 1
      BY DEF AtMostOneLateRotation
  <2>1. late[s] \in Nat /\ (late[s] # 0 => late[s] = 1)
      BY DEF IInv, TypeOK, LateRows
  <2>2. QED
      BY <2>1
<1>2. QED
    BY <1>1, Invariance, PTL

\* What a step may do to a revoked session or token.
LEMMA StaysRevoked ==
    ASSUME IInv, [Next]_vars
    PROVE  /\ \A s \in Sessions : session[s].state = "revoked" => session'[s].state = "revoked"
           /\ \A t \in Tokens : token[t].revoked => token'[t].revoked
<1> DEFINE Kept ==
        /\ \A s \in Sessions : session[s].state = "revoked" => session'[s].state = "revoked"
        /\ \A t \in Tokens : token[t].revoked => token'[t].revoked
<1>1. ASSUME UNCHANGED <<session, token>> PROVE Kept
    BY <1>1
<1>2. ASSUME NEW w \in Workers, NEW s \in Sessions, NEW t \in Tokens, CreateSession(w, s, t)
      PROVE  Kept
  <2>1. session[s].state = "absent" /\ token[t] = NoToken
      BY <1>2 DEF CreateSession, FreshSession, FreshToken, IInv, TokenRows
  <2>2. ~NoToken.revoked
      BY DEF NoToken
  <2>3. /\ \A r \in Sessions \ {s} : session'[r] = session[r]
        /\ \A u \in Tokens \ {t} : token'[u] = token[u]
      BY <1>2 DEF CreateSession, IInv, TypeOK
  <2>4. QED
      BY <2>1, <2>2, <2>3
<1>3. ASSUME NEW w \in Workers, CommitRotation(w) PROVE Kept
  <2> DEFINE n == req[w].new
  <2> DEFINE t == req[w].t
  <2> DEFINE row == [NoToken EXCEPT !.session = SessionOf(w)]
  <2>1. RowOK(req[w]) /\ req[w] \in Transaction /\ req[w].phase = "rotating"
      BY <1>3, TypedRows DEF IInv, CommitRotation
  <2>2. t \in Tokens /\ n \in Tokens /\ n # t /\ token[n] = NoToken
      BY <2>1 DEF RowOK, Transaction, IInv, TokenRows
  <2>3. token' = [token EXCEPT ![t].used = TRUE, ![t].revoked = TRUE,
                               ![t].replaced_by = n, ![n] = row]
      BY <1>3 DEF CommitRotation
  <2>4. session' = [session EXCEPT ![SessionOf(w)] = [session[SessionOf(w)] EXCEPT !.csrf = n]]
      BY <1>3 DEF CommitRotation, Rotated
  <2> HIDE DEF n, t, row
  <2>5. /\ \A u \in Tokens \ {n, t} : token'[u] = token[u]
        /\ token'[t] = [token[t] EXCEPT !.used = TRUE, !.revoked = TRUE, !.replaced_by = n]
      BY <2>2, <2>3 DEF IInv, TypeOK
  <2>6. token'[t].revoked
      BY <2>2, <2>5, TypedRows DEF IInv, TokenRow
  <2>7. ~token[n].revoked
      BY <2>2 DEF NoToken
  <2>8. \A u \in Tokens : token[u].revoked => token'[u].revoked
      BY <2>5, <2>6, <2>7
  <2>9. ASSUME NEW s \in Sessions PROVE session'[s].state = session[s].state
      BY <2>4, TypedRows DEF IInv, TypeOK, SessionRow
  <2>10. QED
      BY <2>8, <2>9
<1>4. ASSUME NEW w \in Workers, CommitRevocation(w) PROVE Kept
  <2>1. ASSUME NEW s \in Sessions, session[s].state = "revoked"
        PROVE  session'[s].state = "revoked"
    <3>1. session[s] \in SessionRow
        BY TypedRows DEF IInv
    <3>2. QED
        BY <1>4, <2>1, <3>1 DEF CommitRevocation, SessionRow
  <2>2. ASSUME NEW t \in Tokens, token[t].revoked PROVE token'[t].revoked
    <3>1. token[t] \in TokenRow
        BY TypedRows DEF IInv
    <3>2. QED
        BY <1>4, <2>2, <3>1 DEF CommitRevocation, TokenRow
  <2>3. QED
      BY <2>1, <2>2
<1>5. ASSUME NEW w \in Workers, NEW status, WriteCompany(w, status) PROVE Kept
  <2>1. ASSUME NEW s \in Sessions, session[s].state = "revoked"
        PROVE  session'[s].state = "revoked"
    <3>1. session[s] \in SessionRow
        BY TypedRows DEF IInv
    <3>2. QED
        BY <1>5, <2>1, <3>1 DEF WriteCompany, SessionRow
  <2>2. token' = token
      BY <1>5 DEF WriteCompany
  <2>3. QED
      BY <2>1, <2>2
<1>6. ASSUME NEW w \in Workers, Step(w) PROVE Kept
  <2>1. ASSUME NEW row, Change(w, row) PROVE Kept
      BY <2>1, <1>1 DEF Change, committed
  <2> HIDE DEF Kept
  <2>2. CASE \E s \in Sessions, t \in Tokens : CreateSession(w, s, t)
      BY <2>2, <1>2
  <2>3. CASE CommitRotation(w)
      BY <2>3, <1>3
  <2>4. CASE CommitRevocation(w)
      BY <2>4, <1>4
  <2>5. CASE SuspendCompany(w) \/ ReactivateCompany(w)
      BY <2>5, <1>5 DEF SuspendCompany, ReactivateCompany
  <2>6. CASE VerifyCredentials(w)
      BY <2>6, <2>1 DEF VerifyCredentials
  <2>7. CASE \E route \in Routes, t \in Tokens : Present(w, route, t)
      BY <2>7, <2>1 DEF Present
  <2>8. CASE DetectReuse(w) \/ RefuseRefresh(w) \/ Logout(w)
      BY <2>8, <2>1 DEF DetectReuse, RefuseRefresh, Logout, RevokeFamily
  <2>9. CASE \E n \in Tokens : Rotate(w, n)
      BY <2>9, <2>1 DEF Rotate
  <2>10. CASE RotateCsrf(w)
      BY <2>10, <2>1 DEF RotateCsrf
  <2>11. CASE LogoutAll(w)
      BY <2>11, <2>1 DEF LogoutAll
  <2>12. CASE \E s \in Sessions : StartRevocation(w, s)
      BY <2>12, <2>1 DEF StartRevocation
  <2>13. CASE \E t \in Tokens : RevokeToken(w, t)
      BY <2>13, <2>1 DEF RevokeToken
  <2>14. CASE \E s \in Sessions : RevokeSession(w, s)
      BY <2>14, <2>1 DEF RevokeSession
  <2>15. CASE \E route \in Routes : LoadCompany(w, route)
      BY <2>15, <2>1 DEF LoadCompany
  <2>16. CASE RevokeCompanySessions(w) \/ Rollback(w)
      BY <2>16, <2>1 DEF RevokeCompanySessions, Rollback
  <2>17. QED
      BY <1>6, <2>2, <2>3, <2>4, <2>5, <2>6, <2>7, <2>8, <2>9, <2>10, <2>11, <2>12,
         <2>13, <2>14, <2>15, <2>16 DEF Step
<1>7. CASE \E s \in Sessions : Expire(s)
    BY <1>1, <1>7 DEF Expire
<1>8. CASE DeactivateMembership
    BY <1>1, <1>8 DEF DeactivateMembership
<1>9. CASE UNCHANGED vars
    BY <1>1, <1>9 DEF vars
<1>10. QED
    BY <1>6, <1>7, <1>8, <1>9 DEF Next

\* Whatever auth.refresh, auth.logout_all and platform.suspend_company do at the
\* same time, a revoked session or token stays revoked.
THEOREM RevocationCorrectness == Spec => RevocationIsFinal
<1>1. IInv /\ [Next]_vars =>
         [/\ \A s \in Sessions :
                session[s].state = "revoked" => session'[s].state = "revoked"
          /\ \A t \in Tokens : token[t].revoked => token'[t].revoked]_vars
    BY StaysRevoked
<1>2. QED
    BY <1>1, Invariance, PTL DEF Spec, RevocationIsFinal

-----------------------------------------------------------------------------
(* Waiting.  Generations replace each other in an order, of which the only  *)
(* one that is not revoked is the last.  A statement that revokes a family  *)
(* waits for a generation that was the last when it began, while its        *)
(* request holds an earlier one: no circle of such waits can close.         *)

Closed(S) == \A t \in S : token[t].replaced_by # None => token[t].replaced_by \in S

\* u is reached from t along replaced_by.
Later(t, u) ==
    /\ token[t].replaced_by # None
    /\ \A S \in SUBSET Tokens : Closed(S) /\ token[t].replaced_by \in S => u \in S

NoCircle == \A S \in SUBSET Tokens : S # {} => \E t \in S : \A u \in S : ~Later(t, u)

UsableIsLast ==
    \A s \in Sessions : \A t \in Family(s), u \in Unrevoked(s) : u = t \/ Later(t, u)

Bulk(row) == row.route \in {"logout_all", "suspend"}

\* What a request waits for and holds.
WaitOK(row) ==
    /\ \A u, x \in row.todo : u = x
    /\ \A u \in row.todo, x \in row.tokens : token[u].session # token[x].session
    /\ \A u \in row.todo \union row.tokens : token[u].session \notin row.families
    /\ \A u \in row.todo :
          token[u].session = token[row.t].session => u = row.t \/ Later(row.t, u)
    /\ row.phase # "revoking" => row.todo = {} /\ row.tokens = {} /\ row.families = {}
    /\ row.phase = "revoking" => row.t # None
    /\ row.phase \notin {"rotating", "revoking", "suspending"} => row.sessions = {}
    /\ row.phase = "rotating" => ~Bulk(row)
    /\ row.phase = "revoking" /\ row.sessions # {} => row.todo = {} /\ row.families = {}
    /\ row.phase = "suspending" => row.route = "suspend"
    /\ row.phase = "revoking" /\ ~Bulk(row) =>
          /\ row.families \union row.live \union row.sessions \subseteq {token[row.t].session}
          /\ \A u \in row.todo \union row.tokens : token[u].session = token[row.t].session

WInv ==
    /\ NoCircle
    /\ UsableIsLast
    /\ \A w \in Workers : WaitOK(req[w])

LEMMA IdleWaits == WaitOK(Idle) /\ WaitOK(Idle)'
    BY DEF WaitOK, Idle

LEMMA InitWaits == Init => WInv
<1> SUFFICES ASSUME Init PROVE WInv
    OBVIOUS
<1>1. \A t \in Tokens : token[t].replaced_by = None /\ token[t].session = None
    BY DEF Init, NoToken
<1>2. NoCircle
    BY <1>1 DEF NoCircle, Later
<1>3. UsableIsLast
    BY <1>1, TokensAssumption DEF UsableIsLast, Family, Unrevoked
<1>4. \A w \in Workers : WaitOK(req[w])
    BY IdleWaits DEF Init
<1> QED
    BY <1>2, <1>3, <1>4 DEF WInv

\* The order of the generations changes only when one is replaced.
LEMMA OrderKept ==
    ASSUME \A t \in Tokens : token'[t].replaced_by = token[t].replaced_by
    PROVE  /\ \A t, u \in Tokens : Later(t, u) <=> Later(t, u)'
           /\ NoCircle => NoCircle'
<1>1. \A S \in SUBSET Tokens : Closed(S) <=> Closed(S)'
    BY DEF Closed
<1>2. ASSUME NEW t \in Tokens, NEW u \in Tokens PROVE Later(t, u) <=> Later(t, u)'
    BY <1>1 DEF Later
<1>3. NoCircle => NoCircle'
  <2> SUFFICES ASSUME NoCircle, NEW S \in SUBSET Tokens, S # {}
               PROVE  \E t \in S : \A u \in S : ~Later(t, u)'
      BY DEF NoCircle
  <2>1. PICK t \in S : \A u \in S : ~Later(t, u)
      BY DEF NoCircle
  <2> QED
      BY <1>2, <2>1
<1> QED
    BY <1>2, <1>3

\* A step that commits nothing changes what one request waits for and holds.
LEMMA ChangeWaits ==
    ASSUME IInv, WInv, NEW w \in Workers, NEW row, Change(w, row), WaitOK(row)
    PROVE  WInv'
<1>1. token' = token /\ session' = session /\ req' = [req EXCEPT ![w] = row]
    BY DEF Change, committed
<1>2. NoCircle'
    BY <1>1, OrderKept DEF WInv
<1>3. UsableIsLast'
    BY <1>1 DEF WInv, UsableIsLast, Family, Unrevoked, Later, Closed
<1>4. ASSUME NEW v \in Workers PROVE WaitOK(req[v])'
  <2>1. req'[v] = IF v = w THEN row ELSE req[v]
      BY <1>1 DEF IInv, TypeOK
  <2>2. WaitOK(req'[v])
      BY <2>1 DEF WInv
  <2> QED
      BY <1>1, <2>2 DEF WaitOK, Later, Closed, Bulk
<1> QED
    BY <1>2, <1>3, <1>4 DEF WInv

\* A commit of w leaves what the others wait for and hold.
LEMMA CommitWaits ==
    ASSUME IInv, WInv, NEW w \in Workers, req' = [req EXCEPT ![w] = Idle],
           \A t \in Tokens : token[t].session # None => token'[t].session = token[t].session,
           \A t, u \in Tokens : Later(t, u) => Later(t, u)',
           NoCircle', UsableIsLast'
    PROVE  WInv'
<1>1. ASSUME NEW v \in Workers PROVE WaitOK(req[v])'
  <2>1. CASE v = w
      BY <2>1, IdleWaits, EndOfTransaction
  <2>2. CASE v # w
    <3>1. req'[v] = req[v] /\ WaitOK(req[v]) /\ RowOK(req[v]) /\ req[v] \in Transaction
        BY <2>2, EndOfTransaction, TypedRows DEF IInv, WInv
    <3> DEFINE row == req[v]
    <3>2. \A u \in row.todo \union row.tokens :
              u \in Tokens /\ token[u].session # None /\ token'[u].session = token[u].session
        BY <3>1 DEF RowOK, Transaction
    <3>3. row.t # None =>
              row.t \in Tokens /\ token[row.t].session # None /\ token'[row.t].session = token[row.t].session
        BY <3>1 DEF RowOK, Transaction
    <3>4. row.phase # "revoking" => row.todo = {}
        BY <3>1 DEF WaitOK
    <3>5. row.phase = "revoking" => row.t # None
        BY <3>1 DEF WaitOK
    <3>6. ASSUME NEW u \in row.todo, token'[u].session = token'[row.t].session
          PROVE  u = row.t \/ Later(row.t, u)'
        BY <3>1, <3>2, <3>3, <3>4, <3>5, <3>6 DEF WaitOK
    <3> QED
        BY <3>1, <3>2, <3>3, <3>4, <3>5, <3>6 DEF WaitOK, Bulk
  <2> QED
      BY <2>1, <2>2
<1> QED
    BY <1>1 DEF WInv

\* Present, VerifyCredentials and LoadCompany begin with nothing.
LEMMA FreshWaits ==
    ASSUME NEW row, row.phase \in {"presented", "credentials", "company"},
           row.todo = {}, row.tokens = {}, row.families = {}, row.sessions = {}
    PROVE  WaitOK(row)
    BY DEF WaitOK

LEMMA BeginWaits ==
    ASSUME IInv, WInv, NEW w \in Workers,
           \/ VerifyCredentials(w)
           \/ \E route \in Routes, t \in Tokens : Present(w, route, t)
           \/ \E route \in Routes : LoadCompany(w, route)
    PROVE  WInv'
<1>1. ASSUME NEW row, Change(w, row), row.phase \in {"presented", "credentials", "company"},
             row.todo = {}, row.tokens = {}, row.families = {}, row.sessions = {}
      PROVE  WInv'
    BY <1>1, FreshWaits, ChangeWaits
<1>2. CASE VerifyCredentials(w)
    BY <1>2, <1>1 DEF VerifyCredentials, Idle
<1>3. ASSUME NEW route \in Routes, NEW t \in Tokens, Present(w, route, t) PROVE WInv'
  <2> DEFINE row == [Idle EXCEPT !.phase = "presented", !.route = route, !.t = t,
                                 !.seen = session[token[t].session]]
  <2>1. Change(w, row)
      BY <1>3 DEF Present
  <2>2. row.phase = "presented" /\ row.todo = {} /\ row.tokens = {} /\ row.families = {}
        /\ row.sessions = {}
      BY DEF Idle
  <2> QED
      BY <2>1, <2>2, <1>1
<1>4. ASSUME NEW route \in Routes, LoadCompany(w, route) PROVE WInv'
  <2> DEFINE row == [Idle EXCEPT !.phase = "company", !.route = route, !.company = company]
  <2>1. Change(w, row)
      BY <1>4 DEF LoadCompany
  <2>2. row.phase = "company" /\ row.todo = {} /\ row.tokens = {} /\ row.families = {}
        /\ row.sessions = {}
      BY DEF Idle
  <2> QED
      BY <2>1, <2>2, <1>1
<1> QED
    BY <1>2, <1>3, <1>4

\* What a transaction has before it decides.
LEMMA PresentedWaits ==
    ASSUME IInv, WInv, NEW w \in Workers, req[w].phase = "presented"
    PROVE  /\ req[w] \in Transaction /\ req[w].t # None /\ req[w].t \in Tokens
           /\ req[w].todo = {} /\ req[w].tokens = {} /\ req[w].sessions = {}
           /\ req[w].families = {}
    BY TypedRows DEF IInv, WInv, RowOK, WaitOK, Transaction

LEMMA RevokeFamilyWaits ==
    ASSUME IInv, WInv, NEW w \in Workers, req[w].phase = "presented", RevokeFamily(w)
    PROVE  WInv'
<1> DEFINE row == [req[w] EXCEPT !.phase = "revoking", !.families = {SessionOf(w)},
                       !.live = IF req[w].seen.state = "live" THEN {SessionOf(w)} ELSE {}]
<1>1. /\ row.phase = "revoking" /\ row.t = req[w].t /\ row.t # None
      /\ row.families = {token[row.t].session} /\ row.live \subseteq {token[row.t].session}
      /\ row.todo = {} /\ row.tokens = {} /\ row.sessions = {}
    BY PresentedWaits DEF Transaction, SessionOf
<1>2. Change(w, row)
    BY DEF RevokeFamily
<1> HIDE DEF row
<1>3. WaitOK(row)
    BY <1>1 DEF WaitOK
<1> QED
    BY <1>2, <1>3, ChangeWaits

LEMMA RotateWaits ==
    ASSUME IInv, WInv, NEW w \in Workers, NEW n \in Tokens, Rotate(w, n)
    PROVE  WInv'
<1> DEFINE row == [req[w] EXCEPT !.phase = "rotating", !.new = n]
<1>1. req[w].phase = "presented" /\ req[w].route = "refresh" /\ Change(w, row)
    BY DEF Rotate, Presented
<1>2. /\ row.phase = "rotating" /\ row.route = "refresh"
      /\ row.todo = {} /\ row.tokens = {} /\ row.sessions = {} /\ row.families = {}
    BY <1>1, PresentedWaits DEF Transaction
<1> HIDE DEF row
<1>3. WaitOK(row)
    BY <1>2 DEF WaitOK, Bulk
<1> QED
    BY <1>1, <1>3, ChangeWaits

LEMMA RotateCsrfWaits ==
    ASSUME IInv, WInv, NEW w \in Workers, RotateCsrf(w)
    PROVE  WInv'
<1> DEFINE row == [req[w] EXCEPT !.sessions = {SessionOf(w)}]
<1>1. req[w].phase = "rotating" /\ Change(w, row) /\ req[w] \in Transaction /\ WaitOK(req[w])
    BY TypedRows DEF RotateCsrf, IInv, WInv
<1>2. /\ row.phase = "rotating" /\ row.route = req[w].route
      /\ row.todo = {} /\ row.tokens = {} /\ row.families = {}
    BY <1>1 DEF Transaction, WaitOK
<1> HIDE DEF row
<1>3. WaitOK(row)
    BY <1>1, <1>2 DEF WaitOK, Bulk
<1> QED
    BY <1>1, <1>3, ChangeWaits

LEMMA LogoutAllWaits ==
    ASSUME IInv, WInv, NEW w \in Workers, LogoutAll(w)
    PROVE  WInv'
<1> DEFINE row == [req[w] EXCEPT !.phase = "revoking", !.families = LiveSessions,
                                 !.live = LiveSessions]
<1>1. req[w].phase = "presented" /\ req[w].route = "logout_all" /\ Change(w, row)
    BY DEF LogoutAll, Presented
<1>2. /\ row.phase = "revoking" /\ row.route = "logout_all" /\ row.t # None
      /\ row.todo = {} /\ row.tokens = {} /\ row.sessions = {}
    BY <1>1, PresentedWaits DEF Transaction
<1> HIDE DEF row
<1>3. WaitOK(row)
    BY <1>2 DEF WaitOK, Bulk
<1> QED
    BY <1>1, <1>3, ChangeWaits

\* The statement takes the last generation of the family, which is later than any
\* other that the request holds.
LEMMA StartRevocationWaits ==
    ASSUME IInv, WInv, NEW w \in Workers, NEW s \in Sessions, StartRevocation(w, s)
    PROVE  WInv'
<1> DEFINE row == [req[w] EXCEPT !.families = @ \ {s}, !.todo = Unrevoked(s)]
<1>1. /\ req[w].phase = "revoking" /\ req[w].todo = {} /\ s \in req[w].families
      /\ Change(w, row) /\ req[w] \in Transaction /\ WaitOK(req[w]) /\ RowOK(req[w])
    BY TypedRows DEF StartRevocation, IInv, WInv
<1>2. /\ row.phase = "revoking" /\ row.t = req[w].t /\ row.route = req[w].route
      /\ row.live = req[w].live /\ row.sessions = req[w].sessions /\ row.tokens = req[w].tokens
      /\ row.todo = Unrevoked(s) /\ row.families = req[w].families \ {s}
    BY <1>1 DEF Transaction
<1> HIDE DEF row
<1>3. req[w].t # None /\ req[w].t \in Tokens /\ req[w].sessions = {}
    BY <1>1 DEF WaitOK, Transaction
<1>4. \A u \in Unrevoked(s) : u \in Tokens /\ token[u].session = s
    BY DEF Unrevoked, Family
<1>5. \A u, x \in Unrevoked(s) : u = x
    BY DEF IInv, CsrfOfUsableGeneration
<1>6. ASSUME NEW u \in Unrevoked(s), token[u].session = token[req[w].t].session
      PROVE  u = req[w].t \/ Later(req[w].t, u)
  <2>1. req[w].t \in Family(s)
      BY <1>3, <1>4, <1>6 DEF Family
  <2> QED
      BY <2>1 DEF WInv, UsableIsLast
<1>7. \A x \in req[w].tokens : token[x].session # s
    BY <1>1 DEF WaitOK
<1>8. ~Bulk(row) => s = token[req[w].t].session
    BY <1>1, <1>2 DEF WaitOK, Bulk
<1>9. WaitOK(row)
    BY <1>1, <1>2, <1>3, <1>4, <1>5, <1>6, <1>7, <1>8 DEF WaitOK, Bulk
<1> QED
    BY <1>1, <1>9, ChangeWaits

LEMMA RevokeTokenWaits ==
    ASSUME IInv, WInv, NEW w \in Workers, NEW t \in Tokens, RevokeToken(w, t)
    PROVE  WInv'
<1> DEFINE row == [req[w] EXCEPT !.todo = @ \ {t}, !.tokens = @ \union {t}]
<1>1. /\ t \in req[w].todo /\ Change(w, row) /\ req[w] \in Transaction /\ WaitOK(req[w])
    BY TypedRows DEF RevokeToken, IInv, WInv
<1>2. /\ row.phase = req[w].phase /\ row.t = req[w].t /\ row.route = req[w].route
      /\ row.live = req[w].live /\ row.sessions = req[w].sessions
      /\ row.tokens = req[w].tokens \union {t}
      /\ row.todo = {} /\ row.families = req[w].families
    BY <1>1 DEF Transaction, WaitOK
<1> HIDE DEF row
<1>3. WaitOK(row)
    BY <1>1, <1>2 DEF WaitOK, Bulk
<1> QED
    BY <1>1, <1>3, ChangeWaits

LEMMA RevokeSessionWaits ==
    ASSUME IInv, WInv, NEW w \in Workers, NEW s \in Sessions, RevokeSession(w, s)
    PROVE  WInv'
<1> DEFINE row == [req[w] EXCEPT !.sessions = @ \union {s}]
<1>1. /\ s \in req[w].live /\ Change(w, row) /\ req[w] \in Transaction /\ WaitOK(req[w])
      /\ \/ req[w].phase = "revoking" /\ req[w].todo = {} /\ req[w].families = {}
         \/ req[w].phase = "suspending"
    BY TypedRows DEF RevokeSession, IInv, WInv
<1>2. /\ row.phase = req[w].phase /\ row.t = req[w].t /\ row.route = req[w].route
      /\ row.live = req[w].live /\ row.sessions = req[w].sessions \union {s}
      /\ row.tokens = req[w].tokens
      /\ row.todo = req[w].todo /\ row.families = req[w].families
    BY <1>1 DEF Transaction
<1> HIDE DEF row
<1>3. WaitOK(row)
    BY <1>1, <1>2 DEF WaitOK, Bulk
<1> QED
    BY <1>1, <1>3, ChangeWaits

LEMMA RevokeCompanySessionsWaits ==
    ASSUME IInv, WInv, NEW w \in Workers, RevokeCompanySessions(w)
    PROVE  WInv'
<1> DEFINE row == [req[w] EXCEPT !.phase = "suspending", !.live = LiveSessions]
<1>1. /\ req[w].phase = "company" /\ req[w].route = "suspend"
      /\ Change(w, row) /\ req[w] \in Transaction /\ WaitOK(req[w])
    BY TypedRows DEF RevokeCompanySessions, IInv, WInv
<1>2. /\ row.phase = "suspending" /\ row.route = "suspend"
      /\ row.tokens = {} /\ row.todo = {} /\ row.families = {} /\ row.sessions = {}
    BY <1>1 DEF Transaction, WaitOK
<1> HIDE DEF row
<1>3. WaitOK(row)
    BY <1>2 DEF WaitOK
<1> QED
    BY <1>1, <1>3, ChangeWaits

LEMMA RollbackWaits ==
    ASSUME IInv, WInv, NEW w \in Workers, Rollback(w)
    PROVE  WInv'
    BY IdleWaits, ChangeWaits DEF Rollback

\* Revocations and the status of the company replace no generation.
LEMMA NoReplacementWaits ==
    ASSUME IInv, WInv, NEW w \in Workers, req' = [req EXCEPT ![w] = Idle],
           \A t \in Tokens : /\ token'[t].replaced_by = token[t].replaced_by
                             /\ token'[t].session = token[t].session
                             /\ token[t].revoked => token'[t].revoked
    PROVE  WInv'
<1>1. NoCircle' /\ \A t, u \in Tokens : Later(t, u) <=> Later(t, u)'
    BY OrderKept DEF WInv
<1>2. UsableIsLast'
  <2> SUFFICES ASSUME NEW s \in Sessions, NEW t \in Family(s)', NEW u \in Unrevoked(s)'
               PROVE  u = t \/ Later(t, u)'
      BY DEF UsableIsLast
  <2>1. t \in Tokens /\ u \in Tokens /\ t \in Family(s) /\ u \in Unrevoked(s)
      BY DEF Family, Unrevoked
  <2> QED
      BY <1>1, <2>1 DEF WInv, UsableIsLast
<1> QED
    BY <1>1, <1>2, CommitWaits

LEMMA CommitRevocationWaits ==
    ASSUME IInv, WInv, NEW w \in Workers, CommitRevocation(w)
    PROVE  WInv'
<1>1. ASSUME NEW t \in Tokens
      PROVE  /\ token'[t].replaced_by = token[t].replaced_by
             /\ token'[t].session = token[t].session
             /\ token[t].revoked => token'[t].revoked
  <2>1. token[t] \in TokenRow
      BY TypedRows DEF IInv
  <2> QED
      BY <2>1 DEF CommitRevocation, TokenRow
<1> QED
    BY <1>1, NoReplacementWaits DEF CommitRevocation

LEMMA WriteCompanyWaits ==
    ASSUME IInv, WInv, NEW w \in Workers, NEW status, WriteCompany(w, status)
    PROVE  WInv'
    BY NoReplacementWaits DEF WriteCompany

\* The first generation of a session.
LEMMA CreateSessionWaits ==
    ASSUME IInv, WInv, NEW w \in Workers, NEW s \in Sessions, NEW t \in Tokens,
           CreateSession(w, s, t)
    PROVE  WInv'
<1> DEFINE issued == [NoToken EXCEPT !.session = s]
<1>1. /\ session[s].state = "absent" /\ token[t].session = None
      /\ token' = [token EXCEPT ![t] = issued] /\ req' = [req EXCEPT ![w] = Idle]
    BY DEF CreateSession, FreshSession, FreshToken
<1>2. issued.session = s /\ issued.replaced_by = None
    BY IssuedToken
<1> HIDE DEF issued
<1>3. token'[t] = issued /\ \A u \in Tokens \ {t} : token'[u] = token[u]
    BY <1>1 DEF IInv, TypeOK
<1>4. token[t].replaced_by = None
    BY <1>1 DEF IInv, TokenRows, NoToken
<1>5. \A u \in Tokens : token'[u].replaced_by = token[u].replaced_by
    BY <1>2, <1>3, <1>4
<1>6. NoCircle' /\ \A x, u \in Tokens : Later(x, u) <=> Later(x, u)'
    BY <1>5, OrderKept DEF WInv
<1>7. \A u \in Tokens : token[u].session # s
    BY <1>1, TokensAssumption DEF IInv, TokenRows
<1>8. UsableIsLast'
  <2> SUFFICES ASSUME NEW r \in Sessions, NEW x \in Family(r)', NEW u \in Unrevoked(r)'
               PROVE  u = x \/ Later(x, u)'
      BY DEF UsableIsLast
  <2>1. x \in Tokens /\ u \in Tokens /\ token'[x].session = r /\ token'[u].session = r
        /\ ~token'[u].revoked
      BY DEF Family, Unrevoked
  <2>2. CASE r = s
      BY <2>1, <2>2, <1>3, <1>7
  <2>3. CASE r # s
    <3>1. x # t /\ u # t
        BY <2>1, <2>3, <1>2, <1>3
    <3>2. x \in Family(r) /\ u \in Unrevoked(r)
        BY <2>1, <3>1, <1>3 DEF Family, Unrevoked
    <3> QED
        BY <2>1, <3>2, <1>6 DEF WInv, UsableIsLast
  <2> QED
      BY <2>2, <2>3
<1>9. \A u \in Tokens : token[u].session # None => token'[u].session = token[u].session
    BY <1>1, <1>3
<1> QED
    BY <1>1, <1>6, <1>8, <1>9, CommitWaits

\* The generation that a rotation exchanges was the last, its replacement is.
LEMMA ReplacedGeneration ==
    ASSUME IInv, NEW w \in Workers, CommitRotation(w)
    PROVE  \E s \in Sessions, n \in Tokens, t \in Tokens :
              /\ n # t /\ token[t].session = s /\ token[n] = NoToken
              /\ t \in Unrevoked(s) /\ Unrevoked(s) \subseteq {t}
              /\ token[t].replaced_by = None
              /\ \A u \in Tokens : token[u].replaced_by # n
              /\ \A u \in Tokens \ {n, t} : token'[u] = token[u]
              /\ token'[t].session = s /\ token'[t].revoked /\ token'[t].replaced_by = n
              /\ token'[n].session = s /\ token'[n].replaced_by = None
<1>1. RowOK(req[w]) /\ req[w] \in Transaction /\ req[w].phase = "rotating"
    BY TypedRows DEF IInv, CommitRotation
<1>2. req[w].t # None /\ token[req[w].t].session # None /\ req[w].new # None
    BY <1>1 DEF RowOK
<1>3. PICK s \in Sessions, n \in Tokens, t \in Tokens :
         s = SessionOf(w) /\ n = req[w].new /\ t = req[w].t
    BY <1>1, <1>2, SessionOfTyped DEF IInv, Transaction
<1> DEFINE issued == [NoToken EXCEPT !.session = s]
<1>4. /\ token[t].session = s /\ ~token[t].used /\ ~token[t].revoked
      /\ token[n].session = None
    BY <1>1, <1>2, <1>3 DEF RowOK, SessionOf
<1>5. token[n] = NoToken /\ n # t
    BY <1>4, TokensAssumption DEF IInv, TokenRows
<1>6. t \in Family(s) /\ t \in Unrevoked(s) /\ Unrevoked(s) \subseteq {t}
    BY <1>4 DEF IInv, CsrfOfUsableGeneration, Unrevoked, Family
<1>7. token[t].replaced_by = None
    BY <1>4, <1>6 DEF IInv, OneSuccessor
<1>8. \A u \in Tokens : token[u].replaced_by # n
    BY <1>4, TokensAssumption DEF IInv, TokenRows
<1>9. issued.session = s /\ issued.replaced_by = None
    BY IssuedToken
<1>10. token' = [token EXCEPT ![t].used = TRUE, ![t].revoked = TRUE,
                              ![t].replaced_by = n, ![n] = issued]
    BY <1>3 DEF CommitRotation
<1> HIDE DEF issued
<1>11. /\ token'[n] = issued
       /\ \A u \in Tokens \ {n, t} : token'[u] = token[u]
       /\ token'[t] = [token[t] EXCEPT !.used = TRUE, !.revoked = TRUE, !.replaced_by = n]
    BY <1>5, <1>10 DEF IInv, TypeOK
<1>12. token'[t].session = s /\ token'[t].revoked /\ token'[t].replaced_by = n
    BY <1>4, <1>11, TypedRows DEF IInv, TokenRow
<1> QED
    BY <1>4, <1>5, <1>6, <1>7, <1>8, <1>9, <1>11, <1>12

LEMMA CommitRotationWaits ==
    ASSUME IInv, WInv, NEW w \in Workers, CommitRotation(w)
    PROVE  WInv'
<1>1. PICK s \in Sessions, n \in Tokens, t \in Tokens :
              /\ n # t /\ token[t].session = s /\ token[n] = NoToken
              /\ t \in Unrevoked(s) /\ Unrevoked(s) \subseteq {t}
              /\ token[t].replaced_by = None
              /\ \A u \in Tokens : token[u].replaced_by # n
              /\ \A u \in Tokens \ {n, t} : token'[u] = token[u]
              /\ token'[t].session = s /\ token'[t].revoked /\ token'[t].replaced_by = n
              /\ token'[n].session = s /\ token'[n].replaced_by = None
    BY ReplacedGeneration
<1>2. token[n].replaced_by = None /\ token[n].session = None
    BY <1>1 DEF NoToken
<1>3. n # None /\ s # None
    BY TokensAssumption
\* What was closed is, with the new generation.
<1>4. ASSUME NEW S \in SUBSET Tokens, Closed(S)
      PROVE  S \union {n} \in SUBSET Tokens /\ Closed(S \union {n})'
    BY <1>1, <1>4 DEF Closed
<1>5. ASSUME NEW S \in SUBSET Tokens, Closed(S)' PROVE Closed(S)
    BY <1>1, <1>2, <1>5 DEF Closed
<1>6. ASSUME NEW x \in Tokens, NEW u \in Tokens, Later(x, u) PROVE Later(x, u)'
  <2>1. x # t /\ x # n
      BY <1>1, <1>2, <1>6 DEF Later
  <2>2. token'[x] = token[x]
      BY <2>1, <1>1
  <2> QED
      BY <2>2, <1>5, <1>6 DEF Later
\* Only the new generation is later than before.
<1>7. ASSUME NEW x \in Tokens, NEW u \in Tokens, Later(x, u)', u # n PROVE Later(x, u)
  <2>1. x # n
      BY <1>1, <1>7 DEF Later
  <2>2. x # t
    <3>1. Closed({n})'
        BY <1>1 DEF Closed
    <3> QED
        BY <3>1, <1>1, <1>7 DEF Later
  <2>3. token'[x] = token[x]
      BY <2>1, <2>2, <1>1
  <2>4. token[x].replaced_by # None
      BY <2>3, <1>7 DEF Later
  <2>5. ASSUME NEW S \in SUBSET Tokens, Closed(S), token[x].replaced_by \in S PROVE u \in S
    <3>1. u \in S \union {n}
        BY <2>3, <2>5, <1>4, <1>7 DEF Later
    <3> QED
        BY <3>1, <1>7
  <2> QED
      BY <2>4, <2>5 DEF Later
<1>8. ASSUME NEW u \in Tokens PROVE ~Later(n, u)'
    BY <1>1 DEF Later
<1>9. NoCircle'
  <2> SUFFICES ASSUME NEW S \in SUBSET Tokens, S # {}
               PROVE  \E x \in S : \A u \in S : ~Later(x, u)'
      BY DEF NoCircle
  <2>1. CASE n \in S
      BY <2>1, <1>8
  <2>2. CASE n \notin S
    <3>1. PICK x \in S : \A u \in S : ~Later(x, u)
        BY DEF WInv, NoCircle
    <3>2. \A u \in S : ~Later(x, u)'
        BY <2>2, <3>1, <1>7
    <3> QED
        BY <3>2
  <2> QED
      BY <2>1, <2>2
<1>10. UsableIsLast'
  <2> SUFFICES ASSUME NEW r \in Sessions, NEW x \in Family(r)', NEW u \in Unrevoked(r)'
               PROVE  u = x \/ Later(x, u)'
      BY DEF UsableIsLast
  <2>1. x \in Tokens /\ u \in Tokens /\ token'[x].session = r /\ token'[u].session = r
        /\ ~token'[u].revoked /\ u # t
      BY <1>1 DEF Family, Unrevoked
  <2>2. CASE u = n
    <3>1. r = s
        BY <2>1, <2>2, <1>1
    <3>2. CASE x = n
        BY <2>2, <3>2
    <3>3. CASE x = t
        BY <2>2, <3>3, <1>1, <1>3 DEF Later
    <3>4. CASE x # n /\ x # t
      <4>1. x \in Family(s)
          BY <2>1, <3>1, <3>4, <1>1 DEF Family
      <4>2. Later(x, t)'
          BY <3>4, <4>1, <1>1, <1>6, <2>1 DEF WInv, UsableIsLast
      <4>3. token'[x].replaced_by # None
          BY <4>2 DEF Later
      <4>4. ASSUME NEW S \in SUBSET Tokens, Closed(S)', token'[x].replaced_by \in S PROVE n \in S
        <5>1. t \in S
            BY <4>2, <4>4 DEF Later
        <5> QED
            BY <4>4, <5>1, <1>1, <1>3 DEF Closed
      <4> QED
          BY <2>2, <4>3, <4>4 DEF Later
    <3> QED
        BY <3>2, <3>3, <3>4
  <2>3. CASE u # n
    <3>1. u \in Unrevoked(r)
        BY <2>1, <2>3, <1>1 DEF Unrevoked, Family
    <3>2. r # s
        BY <2>1, <3>1, <1>1
    <3>3. x \in Family(r)
        BY <2>1, <3>2, <1>1 DEF Family
    <3> QED
        BY <2>1, <3>1, <3>3, <1>6 DEF WInv, UsableIsLast
  <2> QED
      BY <2>2, <2>3
<1>11. \A u \in Tokens : token[u].session # None => token'[u].session = token[u].session
    BY <1>1, <1>2
<1>12. req' = [req EXCEPT ![w] = Idle]
    BY DEF CommitRotation
<1> QED
    BY <1>6, <1>9, <1>10, <1>11, <1>12, CommitWaits

LEMMA NextWaits ==
    ASSUME IInv, WInv, [Next]_vars
    PROVE  WInv'
<1>1. ASSUME UNCHANGED <<token, session, req>> PROVE WInv'
  <2>1. NoCircle'
      BY <1>1, OrderKept DEF WInv
  <2> QED
      BY <1>1, <2>1 DEF WInv, UsableIsLast, Family, Unrevoked, WaitOK, Later, Closed, Bulk
<1>2. ASSUME NEW w \in Workers, Step(w) PROVE WInv'
  <2>1. CASE \/ VerifyCredentials(w)
             \/ \E route \in Routes, t \in Tokens : Present(w, route, t)
             \/ \E route \in Routes : LoadCompany(w, route)
      BY <2>1, BeginWaits
  <2>2. CASE \E s \in Sessions, t \in Tokens : CreateSession(w, s, t)
      BY <2>2, CreateSessionWaits
  <2>3. CASE DetectReuse(w) \/ RefuseRefresh(w) \/ Logout(w)
      BY <2>3, RevokeFamilyWaits DEF DetectReuse, RefuseRefresh, Logout, Presented
  <2>4. CASE \E n \in Tokens : Rotate(w, n)
      BY <2>4, RotateWaits
  <2>5. CASE RotateCsrf(w) \/ LogoutAll(w)
      BY <2>5, RotateCsrfWaits, LogoutAllWaits
  <2>6. CASE CommitRotation(w) \/ CommitRevocation(w)
      BY <2>6, CommitRotationWaits, CommitRevocationWaits
  <2>7. CASE \E s \in Sessions : StartRevocation(w, s)
      BY <2>7, StartRevocationWaits
  <2>8. CASE \E t \in Tokens : RevokeToken(w, t)
      BY <2>8, RevokeTokenWaits
  <2>9. CASE \E s \in Sessions : RevokeSession(w, s)
      BY <2>9, RevokeSessionWaits
  <2>10. CASE RevokeCompanySessions(w) \/ Rollback(w)
      BY <2>10, RevokeCompanySessionsWaits, RollbackWaits
  <2>11. CASE SuspendCompany(w) \/ ReactivateCompany(w)
      BY <2>11, WriteCompanyWaits DEF SuspendCompany, ReactivateCompany
  <2> QED
      BY <1>2, <2>1, <2>2, <2>3, <2>4, <2>5, <2>6, <2>7, <2>8, <2>9, <2>10, <2>11 DEF Step
<1>3. CASE (\E s \in Sessions : Expire(s)) \/ DeactivateMembership \/ UNCHANGED vars
    BY <1>1, <1>3 DEF Expire, DeactivateMembership, vars
<1> QED
    BY <1>2, <1>3 DEF Next

-----------------------------------------------------------------------------
(* Deadlocks.                                                               *)

\* Two bulk requests of a set are one, if the set counts fewer than two.
LEMMA OneBulk ==
    ASSUME NEW W \in SUBSET Workers,
           ~(Cardinality({w \in W : req[w].route \in {"logout_all", "suspend"}}) >= 2)
    PROVE  \A v, w \in W : Bulk(req[v]) /\ Bulk(req[w]) => v = w
<1> SUFFICES ASSUME NEW v \in W, NEW w \in W, Bulk(req[v]), Bulk(req[w]), v # w PROVE FALSE
    OBVIOUS
<1> DEFINE B == {x \in W : req[x].route \in {"logout_all", "suspend"}}
<1>1. IsFiniteSet(B)
    BY WorkersAssumption, FS_Subset
<1>2. {v} \union {w} \in SUBSET B
    BY DEF Bulk
<1>3. Cardinality({v} \union {w}) = 2
  <2>1. IsFiniteSet({v}) /\ Cardinality({v}) = 1
      BY FS_Singleton
  <2>2. Cardinality({v} \union {w}) = IF w \in {v} THEN Cardinality({v}) ELSE Cardinality({v}) + 1
      BY <2>1, FS_AddElement
  <2> QED
      BY <2>1, <2>2
<1>4. Cardinality({v} \union {w}) <= Cardinality(B) /\ Cardinality(B) \in Nat
    BY <1>1, <1>2, FS_Subset, FS_CardinalityType
<1> QED
    BY <1>3, <1>4

\* A request of one session has that session last: nothing is left to wait for.
LEMMA SessionHolderGoesOn ==
    ASSUME IInv, WInv, NEW w \in Workers, NEW v \in Workers, WaitsFor(w, v), ~Bulk(req[w])
    PROVE  req[w].sessions = {}
<1>1. WaitOK(req[w]) /\ RowOK(req[w]) /\ req[w] \in Transaction
    BY TypedRows DEF IInv, WInv
<1> SUFFICES ASSUME req[w].sessions # {} PROVE FALSE
    OBVIOUS
<1>2. CASE req[w].phase = "rotating"
    BY <1>1, <1>2 DEF WaitOK, WaitsFor
<1>3. CASE req[w].phase = "revoking"
  <2>1. req[w].todo = {} /\ req[w].sessions # {}
        /\ req[w].live \union req[w].sessions \subseteq {token[req[w].t].session}
      BY <1>1, <1>3 DEF WaitOK
  <2>2. req[w].live \ req[w].sessions = {}
      BY <2>1
  <2> QED
      BY <1>3, <2>1, <2>2 DEF WaitsFor
<1>4. CASE req[w].phase = "suspending"
    BY <1>1, <1>4 DEF WaitOK, Bulk
<1> QED
    BY <1>1, <1>2, <1>3, <1>4 DEF WaitOK

\* With one bulk request at most, all of the set wait for a generation.
LEMMA AllWaitForTokens ==
    ASSUME IInv, WInv, NEW W \in SUBSET Workers, Deadlocked(W),
           \A v, w \in W : Bulk(req[v]) /\ Bulk(req[w]) => v = w
    PROVE  \A w \in W : \E v \in W \ {w} : \E u \in req[w].todo : u \in LockedTokens(v)
<1>1. \A w \in W : \E v \in W \ {w} : WaitsFor(w, v)
    BY DEF Deadlocked
<1>2. ASSUME NEW w \in W, ~Bulk(req[w]) PROVE req[w].sessions = {}
    BY <1>1, <1>2, SessionHolderGoesOn
\* A bulk request could only wait for a session of another one.
<1>3. ASSUME NEW b \in W, Bulk(req[b])
      PROVE  \E v \in W \ {b} : \E u \in req[b].todo : u \in LockedTokens(v)
  <2>1. PICK v \in W \ {b} : WaitsFor(b, v)
      BY <1>1
  <2>2. req[v].sessions = {}
      BY <1>2, <1>3
  <2> QED
      BY <2>1, <2>2 DEF WaitsFor
<1>4. ASSUME NEW b \in W, Bulk(req[b]) PROVE req[b].sessions = {}
  <2>1. WaitOK(req[b]) /\ req[b].todo # {}
      BY <1>3, <1>4 DEF WInv
  <2> QED
      BY <2>1 DEF WaitOK
<1>5. \A w \in W : req[w].sessions = {}
    BY <1>2, <1>4
<1> QED
    BY <1>1, <1>5 DEF WaitsFor

\* Who of such a set is waited for holds the generation that it presented, and that one
\* is later than what the waiting request presented in the same session.
LEMMA WaitsForLater ==
    ASSUME IInv, WInv, NEW W \in SUBSET Workers,
           \A v, w \in W : Bulk(req[v]) /\ Bulk(req[w]) => v = w,
           \A w \in W : req[w].todo # {},
           NEW s \in Sessions, NEW b \in W, \A w \in W : Bulk(req[w]) => w = b,
           \A u \in req[b].todo : token[u].session = s,
           NEW w \in W, NEW v \in W \ {w}, NEW u \in req[w].todo, u \in LockedTokens(v),
           token[u].session = s
    PROVE  u = req[v].t /\ token[req[v].t].session = s /\ req[v].t \in Tokens
<1>1. WaitOK(req[v]) /\ RowOK(req[v]) /\ req[v] \in Transaction
      /\ WaitOK(req[w]) /\ RowOK(req[w]) /\ req[w] \in Transaction
    BY TypedRows DEF IInv, WInv
<1>2. PICK x \in req[v].todo : TRUE
    OBVIOUS
<1>3. req[v].phase = "revoking" /\ req[v].t # None
    BY <1>1, <1>2 DEF WaitOK
<1>4. u \notin req[v].tokens
  <2> SUFFICES ASSUME u \in req[v].tokens PROVE FALSE
      OBVIOUS
  <2>1. token[x].session # s
      BY <1>1, <1>2 DEF WaitOK
  <2>2. CASE Bulk(req[v])
      BY <2>1, <2>2, <1>2
  <2>3. CASE ~Bulk(req[v])
      BY <2>1, <2>3, <1>1, <1>2, <1>3 DEF WaitOK
  <2> QED
      BY <2>2, <2>3
<1> QED
    BY <1>1, <1>3, <1>4 DEF LockedTokens, Transaction

\* No set of requests, one of them a bulk request at most, waits for each other.
LEMMA NoDeadlock ==
    ASSUME IInv, WInv, NEW W \in SUBSET Workers, Deadlocked(W),
           \A v, w \in W : Bulk(req[v]) /\ Bulk(req[w]) => v = w
    PROVE  FALSE
<1>1. \A w \in W : \E v \in W \ {w} : \E u \in req[w].todo : u \in LockedTokens(v)
    BY AllWaitForTokens
<1>2. \A w \in W : req[w].todo # {}
    BY <1>1
\* The bulk request, or any one.
<1>3. PICK b \in W : \A w \in W : Bulk(req[w]) => w = b
    BY DEF Deadlocked
<1>4. PICK v1 \in W \ {b}, u1 \in req[b].todo : u1 \in LockedTokens(v1)
    BY <1>1
<1> DEFINE s == token[u1].session
<1>5. \A u \in req[b].todo : u = u1
    BY DEF WInv, WaitOK
<1>6. s \in Sessions
    BY TypedRows DEF IInv, RowOK, Transaction, TokenRow
<1> DEFINE T == {t \in Tokens : \E w \in W : t = req[w].t /\ token[t].session = s}
<1>7. ASSUME NEW w \in W, NEW v \in W \ {w}, NEW u \in req[w].todo, u \in LockedTokens(v),
             token[u].session = s
      PROVE  u = req[v].t /\ req[v].t \in T
    BY <1>2, <1>3, <1>5, <1>6, <1>7, WaitsForLater
<1>8. T # {}
    BY <1>4, <1>7
<1>9. ASSUME NEW t \in T PROVE \E u \in T : Later(t, u)
  <2>1. PICK w \in W : t = req[w].t /\ token[t].session = s
      OBVIOUS
  <2>2. PICK v \in W \ {w}, u \in req[w].todo : u \in LockedTokens(v)
      BY <1>1
  <2>3. WaitOK(req[w]) /\ RowOK(req[w]) /\ req[w] \in Transaction
      BY TypedRows DEF IInv, WInv
  <2>4. req[w].phase = "revoking" /\ req[w].t # None
      BY <2>2, <2>3 DEF WaitOK
  <2>5. token[u].session = s
    <3>1. CASE w = b
        BY <3>1, <1>5
    <3>2. CASE w # b
        BY <3>2, <1>3, <2>1, <2>2, <2>3, <2>4 DEF WaitOK
    <3> QED
        BY <3>1, <3>2
  <2>6. u = req[v].t /\ req[v].t \in T
      BY <1>7, <2>2, <2>5
\* Two requests do not lock the same row.
  <2>7. u # req[w].t
    <3>1. LocksOf(req[v]) \intersect LocksOf(req[w]) = {}
        BY DEF IInv, Exclusive
    <3> QED
        BY <2>2, <2>4, <3>1 DEF LockedTokens, LocksOf
  <2> QED
      BY <2>1, <2>2, <2>3, <2>5, <2>6, <2>7 DEF WaitOK
<1>10. T \in SUBSET Tokens
    OBVIOUS
<1> HIDE DEF T
<1> QED
    BY <1>8, <1>9, <1>10 DEF WInv, NoCircle

\* auth.logout_all and platform.suspend_company aside, requests lock generations
\* before sessions, and generations in the order in which they replaced each other:
\* whatever the number of requests and sessions, a deadlock needs two of those.
THEOREM DeadlockFreedom == Spec => []DeadlockNeedsTwoBulkRequests
<1>1. Init => IInv /\ WInv
    BY InitInv, InitWaits
<1>2. IInv /\ WInv /\ [Next]_vars => (IInv /\ WInv)'
    BY NextPreserves, NextWaits
<1>3. IInv /\ WInv => DeadlockNeedsTwoBulkRequests
    BY OneBulk, NoDeadlock DEF DeadlockNeedsTwoBulkRequests
<1> QED
    BY <1>1, <1>2, <1>3, PTL DEF Spec
=============================================================================
