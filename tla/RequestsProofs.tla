--------------------------- MODULE RequestsProofs ---------------------------
(***************************************************************************)
(* The safety properties of Requests, for any requests, tenants,           *)
(* connections, threads and number of events.                              *)
(***************************************************************************)
EXTENDS Requests, TLAPS, FiniteSetTheorems

\* Before a request leaves its handler or its authorization, or is refused.
Early == {"new", "routed", "checkout", "opened", "authorizing", "admitted", "handling", "locking"}

\* A connection is in the pool or in the hands of one request.
PoolInv ==
    /\ \A r \in Requests : conn[r] # NoConnection <=> pc[r] \in Connected
    /\ \A r \in Requests : conn[r] \notin idle
    /\ \A q, r \in Requests : conn[q] = conn[r] /\ conn[r] # NoConnection => q = r
    /\ \A c \in Connections \ idle : \E r \in Requests : conn[r] = c

\* A connection in the pool shows nothing of the transactions before.
CleanPool == \A c \in idle : setting[c] = NoSetting

\* Tenants' requests have a company, the platform's have none.
ContextInv(r) == ctx[r].company = NoCompany <=> ctx[r].kind \in {"platform", "portal"}

\* What the connection of a request shows, as TenantIsolation says of all.
Isolated(r) ==
    conn[r] # NoConnection =>
        /\ setting[conn[r]].company \in {NoCompany, ctx[r].company}
        /\ setting[conn[r]].role = "platform" <=> ctx[r].kind \in {"platform", "portal"}
        /\ setting[conn[r]].admin => ctx[r].kind = "platform"
        /\ pc[r] = "writing" => setting[conn[r]].company = ctx[r].company

\* Where the events of a request are.
EventInv(r) ==
    /\ pc[r] \in Early => recorded[r] = 0 /\ buffered[r] = 0 /\ logged[r] = 0
    /\ pc[r] \in OnTheLoop => buffered[r] > 0
    /\ pc[r] = "done" => buffered[r] = 0
    /\ buffered[r] > 0 => ctx[r].kind \in {"tenant", "login"}
    /\ logged[r] + buffered[r] <= recorded[r]
    /\ ~disturbed => recorded[r] = logged[r] + buffered[r]

Good(r) == ContextInv(r) /\ EventInv(r) /\ Isolated(r)

\* The inductive invariant.
IInv ==
    /\ TypeOK
    /\ PoolInv
    /\ CleanPool
    /\ \A r \in Requests : Good(r)

\* A step of request r: nothing changes of another request.
Only(r) ==
    /\ \A q \in Requests \ {r} :
          /\ pc'[q] = pc[q]
          /\ ctx'[q] = ctx[q]
          /\ conn'[q] = conn[q]
          /\ recorded'[q] = recorded[q]
          /\ buffered'[q] = buffered[q]
          /\ logged'[q] = logged[q]
    /\ \A c \in Connections \ {conn[r], conn'[r]} : setting'[c] = setting[c]
    /\ disturbed => disturbed'
-----------------------------------------------------------------------------
(* The consequences of the invariant.                                       *)

LEMMA IInvIsolates == IInv => TenantIsolation
  BY DEF IInv, Good, Isolated, TenantIsolation

LEMMA IInvForbidsHoldAndWait == IInv => NoHoldAndWait
  BY DEF IInv, PoolInv, NoHoldAndWait, Waiting, Connected

LEMMA IInvUsesPool == IInv => EmptyPoolIsInUse
<1> SUFFICES ASSUME IInv, NEW r \in Waiting, idle = {}, NEW c \in Connections
             PROVE  \E q \in InFlight \ {r} : conn[q] = c
    BY DEF EmptyPoolIsInUse
<1>1. PICK q \in Requests : conn[q] = c
  BY DEF IInv, PoolInv
<1>2. conn[q] # NoConnection /\ pc[q] \in Connected
  BY <1>1, ConstantsAssumption DEF IInv, PoolInv
<1>3. q # r
  BY <1>2 DEF Waiting, Connected
<1>4. q \in InFlight
  BY <1>2 DEF InFlight, Connected, Ended
<1> QED
  BY <1>1, <1>3, <1>4

LEMMA IInvKeepsEvents == IInv => EventsAreKept
<1> SUFFICES ASSUME IInv, NEW r \in Requests, pc[r] = "done", ~disturbed
             PROVE  logged[r] = recorded[r]
    BY DEF EventsAreKept
<1>1. EventInv(r) /\ logged[r] \in Nat /\ recorded[r] \in Nat
  BY ConstantsAssumption DEF IInv, Good, TypeOK
<1> QED
  BY <1>1 DEF EventInv
-----------------------------------------------------------------------------
(* The parts of a step.                                                     *)

\* The requests of which nothing changes keep what is said of them.
LEMMA StepOfOne ==
    ASSUME IInv, NEW r \in Requests, Only(r),
           TypeOK', PoolInv', CleanPool', Good(r)'
    PROVE  IInv'
<1> SUFFICES ASSUME NEW q \in Requests, q # r  PROVE Good(q)'
    BY DEF IInv
<1>1. Good(q)
  BY DEF IInv
<1>2. /\ pc'[q] = pc[q] /\ ctx'[q] = ctx[q] /\ conn'[q] = conn[q]
      /\ recorded'[q] = recorded[q] /\ buffered'[q] = buffered[q] /\ logged'[q] = logged[q]
      /\ disturbed => disturbed'
  BY DEF Only
<1>3. ContextInv(q)'
  BY <1>1, <1>2 DEF Good, ContextInv
<1>4. EventInv(q)'
  BY <1>1, <1>2 DEF Good, EventInv
<1>5. Isolated(q)'
  <2>1. CASE conn[q] = NoConnection
    BY <1>2, <2>1 DEF Isolated
  <2>2. CASE conn[q] # NoConnection
    <3>1. conn[q] \in Connections
      BY <2>2 DEF IInv, TypeOK
    <3>2. conn[q] # conn[r]
      BY <2>2 DEF IInv, PoolInv
    <3>3. conn[q] # conn'[r]
      BY <1>2, <2>2 DEF PoolInv
    <3>4. setting'[conn[q]] = setting[conn[q]]
      BY <3>1, <3>2, <3>3 DEF Only
    <3> QED
      BY <1>1, <1>2, <3>4 DEF Good, Isolated
  <2> QED
    BY <2>1, <2>2
<1> QED
  BY <1>3, <1>4, <1>5 DEF Good

\* What Go does.
LEMMA GoDoes ==
    ASSUME TypeOK, NEW r \in Requests, NEW phase \in Phases, Go(r, phase)
    PROVE  /\ pc' \in [Requests -> Phases]
           /\ ctx' \in [Requests -> Contexts]
           /\ pc'[r] = phase
           /\ ctx'[r] = IF phase = "done" THEN NoContext ELSE ctx[r]
           /\ \A q \in Requests \ {r} : pc'[q] = pc[q] /\ ctx'[q] = ctx[q]
<1>1. NoContext \in Contexts
  BY DEF NoContext, Contexts, Kinds
<1> QED
  BY <1>1 DEF TypeOK, Go

\* A request that moves on keeps its connection, or its lack of one.
LEMMA PoolOfMove ==
    ASSUME IInv, NEW r \in Requests,
           \A q \in Requests \ {r} : pc'[q] = pc[q],
           pc'[r] \in Connected <=> pc[r] \in Connected,
           UNCHANGED <<conn, idle>>
    PROVE  PoolInv'
  BY DEF IInv, PoolInv

LEMMA PoolOfCheckout ==
    ASSUME IInv, NEW r \in Requests, NEW c \in Connections, NEW s \in Settings,
           \A q \in Requests \ {r} : pc'[q] = pc[q],
           pc[r] \notin Connected, pc'[r] \in Connected,
           Checkout(r, c, s)
    PROVE  /\ PoolInv' /\ CleanPool'
           /\ idle' \subseteq Connections
           /\ conn' \in [Requests -> Connections \cup {NoConnection}]
           /\ setting' \in [Connections -> Settings]
           /\ conn'[r] = c /\ setting'[c] = s /\ setting[c] = NoSetting
           /\ \A q \in Requests \ {r} : conn'[q] = conn[q]
           /\ \A d \in Connections \ {c} : setting'[d] = setting[d]
<1>1. TypeOK /\ PoolInv /\ CleanPool
  BY DEF IInv
<1>2. /\ idle' = idle \ {c} /\ c \in idle
      /\ conn'[r] = c
      /\ \A q \in Requests \ {r} : conn'[q] = conn[q]
  BY <1>1 DEF Checkout, TypeOK
<1>3. /\ conn' \in [Requests -> Connections \cup {NoConnection}]
      /\ setting' \in [Connections -> Settings]
      /\ setting'[c] = s
      /\ \A d \in Connections \ {c} : setting'[d] = setting[d]
  BY <1>1 DEF Checkout, TypeOK
<1>4. PoolInv'
  <2>1. \A q \in Requests : conn'[q] # NoConnection <=> pc'[q] \in Connected
    BY <1>1, <1>2, ConstantsAssumption DEF PoolInv
  <2>2. \A q \in Requests : conn'[q] \notin idle'
    BY <1>1, <1>2 DEF PoolInv
  <2>3. \A p, q \in Requests : conn'[p] = conn'[q] /\ conn'[q] # NoConnection => p = q
    BY <1>1, <1>2 DEF PoolInv
  <2>4. \A d \in Connections \ idle' : \E q \in Requests : conn'[q] = d
    <3> TAKE d \in Connections \ idle'
    <3>1. CASE d = c
      BY <1>2, <3>1
    <3>2. CASE d # c
      <4>1. PICK q \in Requests : conn[q] = d
        BY <1>1, <1>2, <3>2 DEF PoolInv
      <4>2. q # r
        BY <1>1, <4>1, ConstantsAssumption DEF PoolInv
      <4> QED
        BY <1>2, <4>1, <4>2
    <3> QED
      BY <3>1, <3>2
  <2> QED
    BY <2>1, <2>2, <2>3, <2>4 DEF PoolInv
<1>5. CleanPool' /\ setting[c] = NoSetting /\ idle' \subseteq Connections
  BY <1>1, <1>2, <1>3 DEF CleanPool, TypeOK
<1> QED
  BY <1>2, <1>3, <1>4, <1>5

LEMMA PoolOfEnd ==
    ASSUME IInv, NEW r \in Requests,
           \A q \in Requests \ {r} : pc'[q] = pc[q],
           pc[r] \in Connected, pc'[r] \notin Connected,
           EndTransaction(r)
    PROVE  /\ PoolInv' /\ CleanPool'
           /\ idle' \subseteq Connections
           /\ conn' \in [Requests -> Connections \cup {NoConnection}]
           /\ setting' \in [Connections -> Settings]
           /\ rowLock' \in Requests \cup {NoRequest}
           /\ conn'[r] = NoConnection
           /\ \A q \in Requests \ {r} : conn'[q] = conn[q]
           /\ \A d \in Connections \ {conn[r]} : setting'[d] = setting[d]
<1>1. TypeOK /\ PoolInv /\ CleanPool
  BY DEF IInv
<1> DEFINE c == conn[r]
<1>2. c \in Connections
  BY <1>1 DEF TypeOK, PoolInv
<1>3. /\ idle' = idle \cup {c}
      /\ conn'[r] = NoConnection
      /\ \A q \in Requests \ {r} : conn'[q] = conn[q]
      /\ conn' \in [Requests -> Connections \cup {NoConnection}]
  BY <1>1 DEF EndTransaction, TypeOK
<1>4. NoSetting \in Settings
  BY DEF NoSetting, Settings
<1>5. /\ setting' \in [Connections -> Settings]
      /\ setting'[c] = NoSetting
      /\ \A d \in Connections \ {c} : setting'[d] = setting[d]
  BY <1>1, <1>2, <1>4 DEF EndTransaction, TypeOK
<1>6. PoolInv'
  <2>1. \A q \in Requests : conn'[q] # NoConnection <=> pc'[q] \in Connected
    BY <1>1, <1>3 DEF PoolInv
  <2>2. \A q \in Requests : conn'[q] \notin idle'
    <3> TAKE q \in Requests
    <3>1. CASE q = r
      BY <1>1, <1>2, <1>3, <3>1, ConstantsAssumption DEF TypeOK
    <3>2. CASE q # r
      BY <1>1, <1>2, <1>3, <3>2, ConstantsAssumption DEF PoolInv
    <3> QED
      BY <3>1, <3>2
  <2>3. \A p, q \in Requests : conn'[p] = conn'[q] /\ conn'[q] # NoConnection => p = q
    BY <1>1, <1>3 DEF PoolInv
  <2>4. \A d \in Connections \ idle' : \E q \in Requests : conn'[q] = d
    <3> TAKE d \in Connections \ idle'
    <3>1. PICK q \in Requests : conn[q] = d
      BY <1>1, <1>3 DEF PoolInv
    <3>2. q # r
      BY <1>3, <3>1
    <3> QED
      BY <1>3, <3>1, <3>2
  <2> QED
    BY <2>1, <2>2, <2>3, <2>4 DEF PoolInv
<1>7. CleanPool' /\ idle' \subseteq Connections
  BY <1>1, <1>2, <1>3, <1>5 DEF CleanPool, TypeOK
<1>8. rowLock' \in Requests \cup {NoRequest}
  BY <1>1 DEF EndTransaction, TypeOK
<1> QED
  BY <1>3, <1>5, <1>6, <1>7, <1>8

\* A pool that a step does not touch.
LEMMA CleanPoolStays ==
    ASSUME IInv, idle' = idle, \A c \in idle : setting'[c] = setting[c]
    PROVE  CleanPool'
  BY DEF IInv, CleanPool

\* What Record does, of a request that has recorded nothing yet.
LEMMA RecordDoes ==
    ASSUME IInv, NEW r \in Requests, pc[r] \in Early, NEW n \in 0..MaxEvents, Record(r, n)
    PROVE  /\ recorded' \in [Requests -> 0..MaxEvents]
           /\ buffered' \in [Requests -> 0..MaxEvents]
           /\ recorded'[r] = n /\ buffered'[r] = n /\ logged'[r] = 0
           /\ \A q \in Requests \ {r} : recorded'[q] = recorded[q] /\ buffered'[q] = buffered[q]
<1>1. recorded[r] = 0 /\ buffered[r] = 0 /\ logged[r] = 0
  BY DEF IInv, Good, EventInv
<1>2. TypeOK
  BY DEF IInv
<1>3. recorded' = [recorded EXCEPT ![r] = n] /\ buffered' = [buffered EXCEPT ![r] = n]
  BY <1>1, <1>2, ConstantsAssumption DEF Record, TypeOK
<1> QED
  BY <1>1, <1>2, <1>3 DEF Record, TypeOK

\* What becomes of the buffer when an event leaves it.
LEMMA DropDoes ==
    ASSUME IInv, NEW r \in Requests, pc[r] \in OnTheLoop,
           buffered' = [buffered EXCEPT ![r] = @ - 1]
    PROVE  /\ buffered' \in [Requests -> 0..MaxEvents]
           /\ buffered[r] > 0 /\ buffered'[r] = buffered[r] - 1
           /\ AfterEvent(r) = "done" => buffered'[r] = 0
           /\ AfterEvent(r) = "flushing" => buffered'[r] > 0
           /\ AfterEvent(r) \in {"done", "flushing"}
           /\ \A q \in Requests \ {r} : buffered'[q] = buffered[q]
<1>1. TypeOK /\ buffered[r] > 0
  BY DEF IInv, Good, EventInv
<1>2. buffered[r] \in 0..MaxEvents /\ MaxEvents \in Nat
  BY <1>1, ConstantsAssumption DEF TypeOK
<1>3. buffered[r] - 1 \in 0..MaxEvents
  BY <1>1, <1>2
<1> QED
  BY <1>1, <1>2, <1>3 DEF TypeOK, AfterEvent

\* A request moves on without a change of its connection, its settings or its events.
LEMMA PlainMove ==
    ASSUME IInv, NEW r \in Requests, NEW phase \in Phases, Go(r, phase),
           UNCHANGED <<conn, idle, setting, rowLock, trail>>,
           phase \in Connected <=> pc[r] \in Connected,
           phase \in Early => pc[r] \in Early,
           phase \in OnTheLoop => buffered[r] > 0,
           phase = "done" => buffered[r] = 0,
           phase # "writing"
    PROVE  IInv'
<1>1. TypeOK /\ PoolInv /\ Good(r)
  BY DEF IInv
<1>2. /\ pc' \in [Requests -> Phases] /\ pc'[r] = phase
      /\ ctx' \in [Requests -> Contexts]
      /\ ctx'[r] = IF phase = "done" THEN NoContext ELSE ctx[r]
      /\ \A q \in Requests \ {r} : pc'[q] = pc[q] /\ ctx'[q] = ctx[q]
  BY <1>1, GoDoes
<1>3. Only(r)
  BY <1>2 DEF Only, trail
<1>4. TypeOK'
  BY <1>1, <1>2 DEF TypeOK, trail
<1>5. PoolInv' /\ CleanPool'
  BY <1>2, PoolOfMove, CleanPoolStays
<1>6. ContextInv(r)'
  BY <1>1, <1>2 DEF Good, ContextInv, NoContext
<1>7. EventInv(r)'
  BY <1>1, <1>2 DEF Good, EventInv, trail
<1>8. Isolated(r)'
  BY <1>1, <1>2 DEF Good, Isolated, PoolInv, Connected
<1> QED
  BY <1>3, <1>4, <1>5, <1>6, <1>7, <1>8, StepOfOne DEF Good
-----------------------------------------------------------------------------
(* The actions.                                                             *)

LEMMA InitIsGood == Init => IInv
<1> SUFFICES ASSUME Init  PROVE IInv
    OBVIOUS
<1>1. NoContext \in Contexts /\ NoSetting \in Settings
  BY DEF NoContext, Contexts, Kinds, NoSetting, Settings
<1>2. TypeOK
  <2>1. 0 \in 0..MaxEvents /\ "new" \in Phases
    BY ConstantsAssumption DEF Phases
  <2> QED
    BY <1>1, <2>1 DEF Init, TypeOK
<1>3. PoolInv /\ CleanPool
  BY ConstantsAssumption DEF Init, PoolInv, CleanPool, Connected
<1>4. ASSUME NEW r \in Requests  PROVE Good(r)
  BY DEF Init, Good, ContextInv, EventInv, Isolated, NoContext, OnTheLoop
<1> QED
  BY <1>2, <1>3, <1>4 DEF IInv

LEMMA RejectTokenIsGood ==
    ASSUME IInv, NEW r \in Requests, RejectToken(r)  PROVE IInv'
<1>1. "closed" \in Phases /\ pc[r] = "new" /\ Go(r, "closed")
  BY DEF Phases, RejectToken
<1> QED
  BY <1>1, PlainMove DEF RejectToken, Connected, Early, OnTheLoop

LEMMA RejectCompanyIsGood ==
    ASSUME IInv, NEW r \in Requests, NEW c \in Companies, RejectCompany(r, c)  PROVE IInv'
<1>1. TypeOK /\ PoolInv /\ Good(r) /\ pc[r] = "new" /\ pc[r] \in Early
  BY DEF IInv, RejectCompany, Early
<1>2. /\ pc' = [pc EXCEPT ![r] = "closed"]
      /\ ctx' = [ctx EXCEPT ![r] = [kind |-> "tenant", company |-> c]]
      /\ UNCHANGED <<conn, idle, setting, rowLock, logged, disturbed>>
  BY DEF RejectCompany, Record
<1>3. /\ recorded' \in [Requests -> 0..MaxEvents]
      /\ buffered' \in [Requests -> 0..MaxEvents]
      /\ recorded'[r] = 1 /\ buffered'[r] = 1 /\ logged'[r] = 0
      /\ \A q \in Requests \ {r} : recorded'[q] = recorded[q] /\ buffered'[q] = buffered[q]
  <2>1. 1 \in 0..MaxEvents /\ Record(r, 1)
    BY ConstantsAssumption DEF RejectCompany
  <2> QED
    BY <1>1, <2>1, RecordDoes
<1>4. [kind |-> "tenant", company |-> c] \in Contexts /\ "closed" \in Phases
  BY DEF Contexts, Kinds, Phases
<1>5. /\ pc'[r] = "closed" /\ ctx'[r].kind = "tenant" /\ ctx'[r].company = c
      /\ \A q \in Requests \ {r} : pc'[q] = pc[q] /\ ctx'[q] = ctx[q]
  BY <1>1, <1>2 DEF TypeOK
<1>6. Only(r)
  BY <1>2, <1>3, <1>5 DEF Only
<1>7. TypeOK'
  BY <1>1, <1>2, <1>3, <1>4 DEF TypeOK
<1>8. PoolInv' /\ CleanPool'
  BY <1>1, <1>2, <1>5, PoolOfMove, CleanPoolStays DEF Connected
<1>9. Good(r)'
  <2>1. conn'[r] = NoConnection
    BY <1>1, <1>2 DEF PoolInv, Connected
  <2> QED
    BY <1>3, <1>5, <2>1, ConstantsAssumption
       DEF Good, ContextInv, EventInv, Isolated, Early, OnTheLoop
<1> QED
  BY <1>6, <1>7, <1>8, <1>9, StepOfOne

LEMMA AdmitIsGood ==
    ASSUME IInv, NEW r \in Requests, NEW context \in Contexts, Admit(r, context)  PROVE IInv'
<1>1. TypeOK /\ PoolInv /\ Good(r) /\ pc[r] = "new"
  BY DEF IInv, Admit
<1>2. /\ pc' = [pc EXCEPT ![r] = "routed"] /\ ctx' = [ctx EXCEPT ![r] = context]
      /\ UNCHANGED <<conn, idle, setting, rowLock, trail>>
      /\ context.company = NoCompany <=> context.kind \in {"platform", "portal"}
  BY DEF Admit
<1>3. /\ pc'[r] = "routed" /\ ctx'[r] = context
      /\ \A q \in Requests \ {r} : pc'[q] = pc[q] /\ ctx'[q] = ctx[q]
  BY <1>1, <1>2 DEF TypeOK
<1>4. Only(r)
  BY <1>2, <1>3 DEF Only, trail
<1>5. TypeOK'
  BY <1>1, <1>2 DEF TypeOK, trail, Phases
<1>6. PoolInv' /\ CleanPool'
  BY <1>1, <1>2, <1>3, PoolOfMove, CleanPoolStays DEF Connected
<1>7. Good(r)'
  <2>1. conn'[r] = NoConnection
    BY <1>1, <1>2 DEF PoolInv, Connected
  <2>2. recorded'[r] = 0 /\ buffered'[r] = 0 /\ logged'[r] = 0
    BY <1>1, <1>2 DEF Good, EventInv, Early, trail
  <2> QED
    BY <1>2, <1>3, <2>1, <2>2 DEF Good, ContextInv, EventInv, Isolated, OnTheLoop
<1> QED
  BY <1>4, <1>5, <1>6, <1>7, StepOfOne

LEMMA DispatchIsGood ==
    ASSUME IInv, NEW r \in Requests, Dispatch(r)  PROVE IInv'
<1>1. UNCHANGED <<conn, idle, setting, rowLock, trail>>
  BY DEF Dispatch
<1>2. CASE pc[r] = "routed" /\ Go(r, "checkout")
  <2>1. "checkout" \in Phases
    BY DEF Phases
  <2> QED
    BY <1>1, <1>2, <2>1, PlainMove DEF Connected, Early, OnTheLoop
<1>3. CASE pc[r] = "opened" /\ Go(r, "authorizing")
  <2>1. "authorizing" \in Phases
    BY DEF Phases
  <2> QED
    BY <1>1, <1>3, <2>1, PlainMove DEF Connected, Early, OnTheLoop
<1>4. CASE pc[r] = "admitted" /\ Go(r, "handling")
  <2>1. "handling" \in Phases
    BY DEF Phases
  <2> QED
    BY <1>1, <1>4, <2>1, PlainMove DEF Connected, Early, OnTheLoop
<1>5. CASE pc[r] = "returned" /\ Go(r, "serializing")
  <2>1. "serializing" \in Phases
    BY DEF Phases
  <2> QED
    BY <1>1, <1>5, <2>1, PlainMove DEF Connected, Early, OnTheLoop
<1> QED
  BY <1>2, <1>3, <1>4, <1>5 DEF Dispatch

\* Over a connection that shows nothing, get_db sets what the request has, and no more.
LEMMA OpeningOfClean ==
    ASSUME NEW context \in Contexts
    PROVE  LET s == OpeningSetting(context, NoSetting)
           IN  /\ s \in Settings
               /\ s.role = "platform" <=> context.kind \in {"platform", "portal"}
               /\ s.company \in {NoCompany, context.company}
               /\ s.admin <=> context.kind = "platform"
<1> DEFINE role == IF context.kind \in {"platform", "portal"} THEN "platform" ELSE "app"
           company == IF context.kind = "tenant" THEN context.company ELSE NoCompany
           admin == context.kind = "platform"
<1>1. OpeningSetting(context, NoSetting) = [role |-> role, company |-> company, admin |-> admin]
  BY DEF OpeningSetting, NoSetting
<1>2. role \in {"login", "app", "platform"} /\ company \in Companies \cup {NoCompany}
      /\ admin \in BOOLEAN
  BY DEF Contexts
<1>3. role = "platform" <=> context.kind \in {"platform", "portal"}
  OBVIOUS
<1>4. company \in {NoCompany, context.company}
  OBVIOUS
<1>5. admin <=> context.kind = "platform"
  OBVIOUS
<1> HIDE DEF role, company, admin
<1> QED
  BY <1>1, <1>2, <1>3, <1>4, <1>5 DEF Settings

\* The settings of a transaction that get_db begins are those of the request alone.
LEMMA ConnectIsGood ==
    ASSUME IInv, NEW r \in Requests, NEW c \in Connections, Connect(r, c)  PROVE IInv'
<1> DEFINE s == OpeningSetting(ctx[r], setting[c])
           phase == IF ctx[r].kind \in {"tenant", "platform"} THEN "opened" ELSE "admitted"
<1>1. /\ TypeOK /\ Good(r) /\ pc[r] = "checkout" /\ Checkout(r, c, s) /\ Go(r, phase)
      /\ UNCHANGED <<rowLock, trail>>
  BY DEF IInv, Connect
<1>2. phase \in Phases /\ phase \in Connected /\ phase \in Early /\ phase \notin OnTheLoop
      /\ phase # "done"
  BY DEF Phases, Connected, Early, OnTheLoop
<1>3. setting[c] = NoSetting
  BY <1>1 DEF Checkout, IInv, CleanPool
<1>4. /\ s \in Settings
      /\ s.role = "platform" <=> ctx[r].kind \in {"platform", "portal"}
      /\ s.company \in {NoCompany, ctx[r].company}
      /\ s.admin <=> ctx[r].kind = "platform"
  BY <1>1, <1>3, OpeningOfClean DEF TypeOK
<1> HIDE DEF s, phase
<1>5. /\ pc' \in [Requests -> Phases] /\ pc'[r] = phase
      /\ ctx' \in [Requests -> Contexts] /\ ctx'[r] = ctx[r]
      /\ \A q \in Requests \ {r} : pc'[q] = pc[q] /\ ctx'[q] = ctx[q]
  BY <1>1, <1>2, GoDoes
<1>6. /\ PoolInv' /\ CleanPool'
      /\ idle' \subseteq Connections
      /\ conn' \in [Requests -> Connections \cup {NoConnection}]
      /\ setting' \in [Connections -> Settings]
      /\ conn'[r] = c /\ setting'[c] = s
      /\ \A q \in Requests \ {r} : conn'[q] = conn[q]
      /\ \A d \in Connections \ {c} : setting'[d] = setting[d]
  <2>1. pc[r] \notin Connected
    BY <1>1 DEF Connected
  <2> QED
    BY <1>1, <1>2, <1>4, <1>5, <2>1, PoolOfCheckout
<1>7. Only(r)
  BY <1>1, <1>5, <1>6 DEF Only, trail
<1>8. TypeOK'
  BY <1>1, <1>5, <1>6 DEF TypeOK, trail
<1>9. Good(r)'
  <2>1. ContextInv(r)'
    BY <1>1, <1>5 DEF Good, ContextInv
  <2>2. EventInv(r)'
    BY <1>1, <1>2, <1>5 DEF Good, EventInv, trail, Early
  <2>3. Isolated(r)'
    BY <1>2, <1>4, <1>5, <1>6 DEF Isolated, Early
  <2> QED
    BY <2>1, <2>2, <2>3 DEF Good
<1> QED
  BY <1>6, <1>7, <1>8, <1>9, StepOfOne

LEMMA ConnectFailIsGood ==
    ASSUME IInv, NEW r \in Requests, ConnectFail(r)  PROVE IInv'
<1>1. "closed" \in Phases
  BY DEF Phases
<1> QED
  BY <1>1, PlainMove DEF ConnectFail, Connected, Early, OnTheLoop

LEMMA ConnectTimeoutIsGood ==
    ASSUME IInv, NEW r \in Requests, ConnectTimeout(r)  PROVE IInv'
<1>1. "closed" \in Phases
  BY DEF Phases
<1> QED
  BY <1>1, PlainMove DEF ConnectTimeout, Connected, Early, OnTheLoop

\* What SetCompany does to the connection of a request that has one.
LEMMA SetCompanyDoes ==
    ASSUME IInv, NEW r \in Requests, pc[r] \in Connected, SetCompany(r)
    PROVE  /\ conn[r] \in Connections /\ conn[r] \notin idle
           /\ setting' \in [Connections -> Settings]
           /\ \A c \in Connections \ {conn[r]} : setting'[c] = setting[c]
           /\ setting'[conn[r]].role = setting[conn[r]].role
           /\ setting'[conn[r]].admin = setting[conn[r]].admin
           /\ setting'[conn[r]].company \in {setting[conn[r]].company, ctx[r].company}
<1>1. conn[r] \in Connections /\ conn[r] \notin idle
  BY DEF IInv, PoolInv, TypeOK
<1>2. setting \in [Connections -> Settings] /\ ctx[r].company \in Companies \cup {NoCompany}
  BY DEF IInv, TypeOK, Contexts
<1>3. CASE ctx[r].kind = "login"
  <2>1. setting' = [setting EXCEPT ![conn[r]].company = ctx[r].company]
    BY <1>3 DEF SetCompany
  <2>2. [setting[conn[r]] EXCEPT !.company = ctx[r].company] \in Settings
    BY <1>1, <1>2 DEF Settings
  <2>3. /\ setting'[conn[r]] = [setting[conn[r]] EXCEPT !.company = ctx[r].company]
        /\ setting' \in [Connections -> Settings]
        /\ \A c \in Connections \ {conn[r]} : setting'[c] = setting[c]
    BY <1>1, <1>2, <2>1, <2>2
  <2>4. setting[conn[r]] \in Settings
    BY <1>1, <1>2
  <2> QED
    BY <1>1, <2>3, <2>4 DEF Settings
<1>4. CASE ctx[r].kind # "login"
  BY <1>1, <1>2, <1>4 DEF SetCompany
<1> QED
  BY <1>3, <1>4

\* A request in a transaction records its events, sets its company or not, and moves on.
LEMMA LeaveIsGood ==
    ASSUME IInv, NEW r \in Requests, pc[r] \in Connected, pc[r] \in Early,
           NEW phase \in {"leaving", "returned"}, Go(r, phase),
           NEW n \in 0..MaxEvents, Record(r, n),
           n > 0 => ctx[r].kind \in {"tenant", "login"},
           SetCompany(r) \/ setting' = setting,
           UNCHANGED <<conn, idle>>, rowLock' \in Requests \cup {NoRequest}
    PROVE  IInv'
<1>1. TypeOK /\ PoolInv /\ Good(r)
  BY DEF IInv
<1>2. /\ pc' \in [Requests -> Phases] /\ pc'[r] = phase
      /\ ctx' \in [Requests -> Contexts] /\ ctx'[r] = ctx[r]
      /\ \A q \in Requests \ {r} : pc'[q] = pc[q] /\ ctx'[q] = ctx[q]
  <2>1. phase \in Phases /\ phase # "done"
    BY DEF Phases
  <2> QED
    BY <1>1, <2>1, GoDoes
<1>3. /\ recorded' \in [Requests -> 0..MaxEvents]
      /\ buffered' \in [Requests -> 0..MaxEvents]
      /\ recorded'[r] = n /\ buffered'[r] = n /\ logged'[r] = 0
      /\ \A q \in Requests \ {r} : recorded'[q] = recorded[q] /\ buffered'[q] = buffered[q]
  BY RecordDoes
<1>4. UNCHANGED <<logged, disturbed>>
  BY DEF Record
<1>5. /\ conn[r] \in Connections /\ conn[r] \notin idle
      /\ setting' \in [Connections -> Settings]
      /\ \A c \in Connections \ {conn[r]} : setting'[c] = setting[c]
      /\ setting'[conn[r]].role = setting[conn[r]].role
      /\ setting'[conn[r]].admin = setting[conn[r]].admin
      /\ setting'[conn[r]].company \in {setting[conn[r]].company, ctx[r].company}
  <2>1. CASE SetCompany(r)
    BY <2>1, SetCompanyDoes
  <2>2. CASE setting' = setting
    BY <1>1, <2>2 DEF TypeOK, PoolInv
  <2> QED
    BY <2>1, <2>2
<1>6. Only(r)
  BY <1>2, <1>3, <1>4, <1>5 DEF Only
<1>7. TypeOK'
  BY <1>1, <1>2, <1>3, <1>4, <1>5 DEF TypeOK
<1>8. PoolInv' /\ CleanPool'
  <2>1. PoolInv'
    BY <1>2, PoolOfMove DEF Connected
  <2>2. \A c \in idle : setting'[c] = setting[c]
    BY <1>1, <1>5 DEF TypeOK
  <2> QED
    BY <2>1, <2>2, CleanPoolStays
<1>9. Good(r)'
  <2>1. ContextInv(r)'
    BY <1>1, <1>2 DEF Good, ContextInv
  <2>2. EventInv(r)'
    BY <1>2, <1>3 DEF EventInv, Early, OnTheLoop
  <2>3. Isolated(r)'
    <3>1. conn'[r] = conn[r] /\ conn[r] # NoConnection
      BY <1>5, ConstantsAssumption
    <3> QED
      BY <1>1, <1>2, <1>5, <3>1 DEF Good, Isolated
  <2> QED
    BY <2>1, <2>2, <2>3 DEF Good
<1> QED
  BY <1>6, <1>7, <1>8, <1>9, StepOfOne

LEMMA AuthorizeIsGood ==
    ASSUME IInv, NEW r \in Requests, Authorize(r)  PROVE IInv'
<1>1. TypeOK /\ Good(r) /\ pc[r] = "authorizing" /\ UNCHANGED <<conn, idle, setting, rowLock>>
  BY DEF IInv, Authorize
<1>2. CASE Go(r, "admitted") /\ UNCHANGED trail
  <2>1. "admitted" \in Phases
    BY DEF Phases
  <2> QED
    BY <1>1, <1>2, <2>1, PlainMove DEF Connected, Early, OnTheLoop
<1>3. "leaving" \in Phases
  BY DEF Phases
<1>4. CASE Go(r, "leaving") /\ UNCHANGED trail
  BY <1>1, <1>3, <1>4, PlainMove DEF Connected, Early, OnTheLoop
<1>5. CASE ctx[r].kind = "tenant" /\ Go(r, "leaving") /\ Record(r, 1)
  <2>1. 1 \in 0..MaxEvents
    BY ConstantsAssumption
  <2>2. rowLock' \in Requests \cup {NoRequest}
    BY <1>1 DEF TypeOK
  <2>3. pc[r] \in Connected /\ pc[r] \in Early
    BY <1>1 DEF Connected, Early
  <2>4. setting' = setting /\ UNCHANGED <<conn, idle>>
    BY <1>1
  <2> QED
    BY <1>5, <2>1, <2>2, <2>3, <2>4, LeaveIsGood
<1> QED
  BY <1>1, <1>2, <1>4, <1>5 DEF Authorize

LEMMA UpdateIsGood ==
    ASSUME IInv, NEW r \in Requests, Update(r)  PROVE IInv'
<1>1. /\ TypeOK /\ PoolInv /\ Good(r) /\ pc[r] = "handling" /\ SetCompany(r)
      /\ Go(r, "locking") /\ UNCHANGED <<conn, idle, rowLock, trail>>
  BY DEF IInv, Update
<1>2. /\ pc' \in [Requests -> Phases] /\ pc'[r] = "locking"
      /\ ctx' \in [Requests -> Contexts] /\ ctx'[r] = ctx[r]
      /\ \A q \in Requests \ {r} : pc'[q] = pc[q] /\ ctx'[q] = ctx[q]
  <2>1. "locking" \in Phases
    BY DEF Phases
  <2> QED
    BY <1>1, <2>1, GoDoes
<1>3. /\ conn[r] \in Connections /\ conn[r] \notin idle
      /\ setting' \in [Connections -> Settings]
      /\ \A c \in Connections \ {conn[r]} : setting'[c] = setting[c]
      /\ setting'[conn[r]].role = setting[conn[r]].role
      /\ setting'[conn[r]].admin = setting[conn[r]].admin
      /\ setting'[conn[r]].company \in {setting[conn[r]].company, ctx[r].company}
  BY <1>1, SetCompanyDoes DEF Connected
<1>4. Only(r)
  BY <1>1, <1>2, <1>3 DEF Only, trail
<1>5. TypeOK'
  BY <1>1, <1>2, <1>3 DEF TypeOK, trail
<1>6. PoolInv' /\ CleanPool'
  <2>1. PoolInv'
    BY <1>1, <1>2, PoolOfMove DEF Connected
  <2>2. \A c \in idle : setting'[c] = setting[c]
    BY <1>1, <1>3 DEF TypeOK
  <2> QED
    BY <1>1, <2>1, <2>2, CleanPoolStays
<1>7. Good(r)'
  <2>1. ContextInv(r)'
    BY <1>1, <1>2 DEF Good, ContextInv
  <2>2. EventInv(r)'
    BY <1>1, <1>2 DEF Good, EventInv, Early, OnTheLoop, trail
  <2>3. Isolated(r)'
    <3>1. conn'[r] = conn[r] /\ conn[r] # NoConnection
      BY <1>1, <1>3, ConstantsAssumption
    <3> QED
      BY <1>1, <1>2, <1>3, <3>1 DEF Good, Isolated
  <2> QED
    BY <2>1, <2>2, <2>3 DEF Good
<1> QED
  BY <1>4, <1>5, <1>6, <1>7, StepOfOne

LEMMA HandleIsGood ==
    ASSUME IInv, NEW r \in Requests, Handle(r)  PROVE IInv'
<1>1. PICK n \in 0..MaxEvents :
          (ctx[r].kind \in {"platform", "portal"} => n = 0) /\ Record(r, n)
  BY DEF Handle
<1>2. /\ pc[r] \in {"handling", "locking"} /\ SetCompany(r)
      /\ Go(r, "leaving") \/ Go(r, "returned")
      /\ UNCHANGED <<conn, idle>>
  BY DEF Handle
<1>3. rowLock' \in Requests \cup {NoRequest}
  BY DEF Handle, IInv, TypeOK
<1>4. n > 0 => ctx[r].kind \in {"tenant", "login"}
  <2>1. ctx[r].kind \in Kinds
    BY DEF IInv, TypeOK, Contexts
  <2> QED
    BY <1>1, <2>1 DEF Kinds
<1>5. pc[r] \in Connected /\ pc[r] \in Early
  BY <1>2 DEF Connected, Early
<1> QED
  BY <1>1, <1>2, <1>3, <1>4, <1>5, LeaveIsGood

LEMMA SerializeIsGood ==
    ASSUME IInv, NEW r \in Requests, Serialize(r)  PROVE IInv'
<1>1. "leaving" \in Phases
  BY DEF Phases
<1> QED
  BY <1>1, PlainMove DEF Serialize, Connected, Early, OnTheLoop

LEMMA StartExitIsGood ==
    ASSUME IInv, NEW r \in Requests, StartExit(r)  PROVE IInv'
<1>1. "exiting" \in Phases
  BY DEF Phases
<1> QED
  BY <1>1, PlainMove DEF StartExit, Connected, Early, OnTheLoop

LEMMA ExitIsGood ==
    ASSUME IInv, NEW r \in Requests, Exit(r)  PROVE IInv'
<1>1. /\ TypeOK /\ Good(r) /\ pc[r] = "exiting" /\ EndTransaction(r) /\ Go(r, "closed")
      /\ UNCHANGED trail
  BY DEF IInv, Exit
<1>2. /\ pc' \in [Requests -> Phases] /\ pc'[r] = "closed"
      /\ ctx' \in [Requests -> Contexts] /\ ctx'[r] = ctx[r]
      /\ \A q \in Requests \ {r} : pc'[q] = pc[q] /\ ctx'[q] = ctx[q]
  <2>1. "closed" \in Phases
    BY DEF Phases
  <2> QED
    BY <1>1, <2>1, GoDoes
<1>3. pc[r] \in Connected /\ pc'[r] \notin Connected
  BY <1>1, <1>2 DEF Connected
<1>4. /\ PoolInv' /\ CleanPool'
      /\ idle' \subseteq Connections
      /\ conn' \in [Requests -> Connections \cup {NoConnection}]
      /\ setting' \in [Connections -> Settings]
      /\ rowLock' \in Requests \cup {NoRequest}
      /\ conn'[r] = NoConnection
      /\ \A q \in Requests \ {r} : conn'[q] = conn[q]
      /\ \A d \in Connections \ {conn[r]} : setting'[d] = setting[d]
  BY <1>1, <1>2, <1>3, PoolOfEnd
<1>5. Only(r)
  BY <1>1, <1>2, <1>4 DEF Only, trail
<1>6. TypeOK'
  BY <1>1, <1>2, <1>4 DEF TypeOK, trail
<1>7. Good(r)'
  BY <1>1, <1>2, <1>4 DEF Good, ContextInv, EventInv, Isolated, Early, OnTheLoop, trail
<1> QED
  BY <1>4, <1>5, <1>6, <1>7, StepOfOne

LEMMA StartFlushIsGood ==
    ASSUME IInv, NEW r \in Requests, StartFlush(r)  PROVE IInv'
<1>1. pc[r] = "closed" /\ UNCHANGED <<conn, idle, setting, rowLock, trail>>
  BY DEF StartFlush
<1>2. buffered[r] \in 0..MaxEvents
  BY DEF IInv, TypeOK
<1>3. CASE buffered[r] = 0
  <2>1. "done" \in Phases /\ Go(r, "done")
    BY <1>3 DEF Phases, StartFlush
  <2> QED
    BY <1>1, <1>3, <2>1, PlainMove DEF Connected, Early, OnTheLoop
<1>4. CASE buffered[r] # 0
  <2>1. "flushing" \in Phases /\ Go(r, "flushing") /\ buffered[r] > 0
    BY <1>2, <1>4 DEF Phases, StartFlush
  <2> QED
    BY <1>1, <2>1, PlainMove DEF Connected, Early, OnTheLoop
<1> QED
  BY <1>3, <1>4

LEMMA FlushSettingTyped ==
    ASSUME NEW company \in Companies \cup {NoCompany}
    PROVE  [NoSetting EXCEPT !.role = "app", !.company = company] \in Settings
<1>1. NoSetting \in Settings
  BY DEF NoSetting, Settings
<1> QED
  BY <1>1 DEF Settings

\* A flush begins from a connection that shows nothing, and sets the company of its event.
LEMMA FlushConnectIsGood ==
    ASSUME IInv, NEW r \in Requests, NEW c \in Connections, FlushConnect(r, c)  PROVE IInv'
<1> DEFINE s == [setting[c] EXCEPT !.role = "app", !.company = ctx[r].company]
<1>1. /\ TypeOK /\ Good(r) /\ pc[r] = "flushing" /\ Checkout(r, c, s) /\ Go(r, "writing")
      /\ UNCHANGED <<rowLock, trail>>
  BY DEF IInv, FlushConnect
<1>2. setting[c] = NoSetting
  BY <1>1 DEF Checkout, IInv, CleanPool
<1>3. s.role = "app" /\ s.company = ctx[r].company /\ s.admin = FALSE
  BY <1>2 DEF NoSetting
<1>4. s \in Settings
  <2>1. ctx[r].company \in Companies \cup {NoCompany}
    BY <1>1 DEF TypeOK, Contexts
  <2> QED
    BY <1>2, <2>1, FlushSettingTyped
<1>5. buffered[r] > 0 /\ ctx[r].kind \in {"tenant", "login"}
  BY <1>1 DEF Good, EventInv, OnTheLoop
<1> HIDE DEF s
<1>6. /\ pc' \in [Requests -> Phases] /\ pc'[r] = "writing"
      /\ ctx' \in [Requests -> Contexts] /\ ctx'[r] = ctx[r]
      /\ \A q \in Requests \ {r} : pc'[q] = pc[q] /\ ctx'[q] = ctx[q]
  <2>1. "writing" \in Phases
    BY DEF Phases
  <2> QED
    BY <1>1, <2>1, GoDoes
<1>7. pc[r] \notin Connected /\ pc'[r] \in Connected
  BY <1>1, <1>6 DEF Connected
<1>8. /\ PoolInv' /\ CleanPool'
      /\ idle' \subseteq Connections
      /\ conn' \in [Requests -> Connections \cup {NoConnection}]
      /\ setting' \in [Connections -> Settings]
      /\ conn'[r] = c /\ setting'[c] = s
      /\ \A q \in Requests \ {r} : conn'[q] = conn[q]
      /\ \A d \in Connections \ {c} : setting'[d] = setting[d]
  BY <1>1, <1>4, <1>6, <1>7, PoolOfCheckout
<1>9. Only(r)
  BY <1>1, <1>6, <1>8 DEF Only, trail
<1>10. TypeOK'
  BY <1>1, <1>6, <1>8 DEF TypeOK, trail
<1>11. Good(r)'
  <2>1. ContextInv(r)'
    BY <1>1, <1>6 DEF Good, ContextInv
  <2>2. EventInv(r)'
    BY <1>1, <1>5, <1>6 DEF Good, EventInv, trail, Early
  <2>3. Isolated(r)'
    BY <1>3, <1>5, <1>6, <1>8 DEF Isolated
  <2> QED
    BY <2>1, <2>2, <2>3 DEF Good
<1> QED
  BY <1>8, <1>9, <1>10, <1>11, StepOfOne

\* What is known of a request after an event has left its buffer.
LEMMA GoAfterEvent ==
    ASSUME IInv, NEW r \in Requests, pc[r] \in OnTheLoop, Go(r, AfterEvent(r)),
           buffered' = [buffered EXCEPT ![r] = @ - 1]
    PROVE  /\ pc' \in [Requests -> Phases] /\ pc'[r] \in {"done", "flushing"}
           /\ ctx' \in [Requests -> Contexts]
           /\ \A q \in Requests \ {r} : pc'[q] = pc[q] /\ ctx'[q] = ctx[q]
           /\ ContextInv(r)'
           /\ buffered' \in [Requests -> 0..MaxEvents]
           /\ \A q \in Requests \ {r} : buffered'[q] = buffered[q]
           /\ buffered[r] > 0 /\ buffered'[r] = buffered[r] - 1
           /\ pc'[r] = "done" => buffered'[r] = 0
           /\ pc'[r] = "flushing" => buffered'[r] > 0
           /\ buffered'[r] > 0 => ctx'[r].kind \in {"tenant", "login"}
<1>1. TypeOK /\ Good(r)
  BY DEF IInv
<1>2. /\ buffered' \in [Requests -> 0..MaxEvents]
      /\ buffered[r] > 0 /\ buffered'[r] = buffered[r] - 1
      /\ AfterEvent(r) = "done" => buffered'[r] = 0
      /\ AfterEvent(r) = "flushing" => buffered'[r] > 0
      /\ AfterEvent(r) \in {"done", "flushing"}
      /\ \A q \in Requests \ {r} : buffered'[q] = buffered[q]
  BY DropDoes
<1>3. AfterEvent(r) \in Phases
  BY <1>2 DEF Phases
<1>4. /\ pc' \in [Requests -> Phases]
      /\ ctx' \in [Requests -> Contexts]
      /\ pc'[r] = AfterEvent(r)
      /\ ctx'[r] = IF AfterEvent(r) = "done" THEN NoContext ELSE ctx[r]
      /\ \A q \in Requests \ {r} : pc'[q] = pc[q] /\ ctx'[q] = ctx[q]
  BY <1>1, <1>3, GoDoes
<1>5. ContextInv(r)'
  BY <1>1, <1>4 DEF Good, ContextInv, NoContext
<1>6. buffered'[r] > 0 => ctx'[r].kind \in {"tenant", "login"}
  <2>1. CASE AfterEvent(r) = "done"
    BY <1>2, <2>1
  <2>2. CASE AfterEvent(r) # "done"
    BY <1>1, <1>2, <1>4, <2>2 DEF Good, EventInv
  <2> QED
    BY <2>1, <2>2
<1> QED
  BY <1>2, <1>4, <1>5, <1>6

\* The flush gets no connection: its event leaves the buffer and is no row.
LEMMA EventDropped ==
    ASSUME IInv, NEW r \in Requests, pc[r] = "flushing", Go(r, AfterEvent(r)),
           buffered' = [buffered EXCEPT ![r] = @ - 1], disturbed' = TRUE,
           UNCHANGED <<conn, idle, setting, rowLock, recorded, logged>>
    PROVE  IInv'
<1>1. TypeOK /\ PoolInv /\ Good(r)
  BY DEF IInv
<1>2. /\ pc' \in [Requests -> Phases] /\ pc'[r] \in {"done", "flushing"}
      /\ ctx' \in [Requests -> Contexts]
      /\ \A q \in Requests \ {r} : pc'[q] = pc[q] /\ ctx'[q] = ctx[q]
      /\ ContextInv(r)'
      /\ buffered' \in [Requests -> 0..MaxEvents]
      /\ \A q \in Requests \ {r} : buffered'[q] = buffered[q]
      /\ buffered[r] > 0 /\ buffered'[r] = buffered[r] - 1
      /\ pc'[r] = "done" => buffered'[r] = 0
      /\ pc'[r] = "flushing" => buffered'[r] > 0
      /\ buffered'[r] > 0 => ctx'[r].kind \in {"tenant", "login"}
  BY <1>1, GoAfterEvent DEF OnTheLoop
<1>3. Only(r)
  BY <1>1, <1>2 DEF Only
<1>4. TypeOK'
  BY <1>1, <1>2 DEF TypeOK
<1>5. PoolInv' /\ CleanPool'
  <2>1. pc'[r] \notin Connected /\ pc[r] \notin Connected
    BY <1>1, <1>2 DEF Connected
  <2> QED
    BY <1>1, <1>2, <2>1, PoolOfMove, CleanPoolStays
<1>6. EventInv(r)'
  <2>1. recorded[r] \in Nat /\ logged[r] \in Nat /\ buffered[r] \in Nat
    BY <1>1, ConstantsAssumption DEF TypeOK
  <2> QED
    BY <1>1, <1>2, <2>1 DEF Good, EventInv, Early, OnTheLoop
<1>7. conn'[r] = NoConnection
  BY <1>1 DEF PoolInv, Connected
<1> QED
  BY <1>2, <1>3, <1>4, <1>5, <1>6, <1>7, StepOfOne DEF Good, Isolated

LEMMA FlushTimeoutIsGood ==
    ASSUME IInv, NEW r \in Requests, FlushTimeout(r)  PROVE IInv'
  BY EventDropped DEF FlushTimeout

LEMMA FlushConnectFailIsGood ==
    ASSUME IInv, NEW r \in Requests, FlushConnectFail(r)  PROVE IInv'
  BY EventDropped DEF FlushConnectFail

\* A write of the flush ends: the event leaves the buffer, and may be a row now.
LEMMA WriteEnds ==
    ASSUME IInv, NEW r \in Requests, pc[r] = "writing", EndTransaction(r),
           Go(r, AfterEvent(r)), buffered' = [buffered EXCEPT ![r] = @ - 1],
           recorded' = recorded,
           \/ logged' = [logged EXCEPT ![r] = @ + 1] /\ disturbed' = disturbed
           \/ logged' = logged /\ disturbed' = TRUE
    PROVE  IInv'
<1>1. TypeOK /\ PoolInv /\ Good(r)
  BY DEF IInv
<1>2. /\ pc' \in [Requests -> Phases] /\ pc'[r] \in {"done", "flushing"}
      /\ ctx' \in [Requests -> Contexts]
      /\ \A q \in Requests \ {r} : pc'[q] = pc[q] /\ ctx'[q] = ctx[q]
      /\ ContextInv(r)'
      /\ buffered' \in [Requests -> 0..MaxEvents]
      /\ \A q \in Requests \ {r} : buffered'[q] = buffered[q]
      /\ buffered[r] > 0 /\ buffered'[r] = buffered[r] - 1
      /\ pc'[r] = "done" => buffered'[r] = 0
      /\ pc'[r] = "flushing" => buffered'[r] > 0
      /\ buffered'[r] > 0 => ctx'[r].kind \in {"tenant", "login"}
  BY GoAfterEvent DEF OnTheLoop
<1>3. pc[r] \in Connected /\ pc'[r] \notin Connected
  BY <1>2 DEF Connected
<1>4. /\ PoolInv' /\ CleanPool'
      /\ idle' \subseteq Connections
      /\ conn' \in [Requests -> Connections \cup {NoConnection}]
      /\ setting' \in [Connections -> Settings]
      /\ rowLock' \in Requests \cup {NoRequest}
      /\ conn'[r] = NoConnection
      /\ \A q \in Requests \ {r} : conn'[q] = conn[q]
      /\ \A d \in Connections \ {conn[r]} : setting'[d] = setting[d]
  BY <1>2, <1>3, PoolOfEnd
<1>5. /\ recorded[r] \in 0..MaxEvents /\ logged[r] \in 0..MaxEvents
      /\ buffered[r] \in 0..MaxEvents /\ MaxEvents \in Nat
      /\ logged[r] + buffered[r] <= recorded[r]
      /\ ~disturbed => recorded[r] = logged[r] + buffered[r]
  BY <1>1, ConstantsAssumption DEF TypeOK, Good, EventInv
<1>6. /\ logged' \in [Requests -> 0..MaxEvents]
      /\ \A q \in Requests \ {r} : logged'[q] = logged[q]
      /\ logged'[r] + buffered'[r] <= recorded[r]
      /\ ~disturbed' => recorded[r] = logged'[r] + buffered'[r]
      /\ disturbed' \in BOOLEAN /\ (disturbed => disturbed')
  <2>1. CASE logged' = [logged EXCEPT ![r] = @ + 1] /\ disturbed' = disturbed
    <3>1. logged[r] + 1 \in 0..MaxEvents
      BY <1>2, <1>5
    <3>2. /\ logged'[r] = logged[r] + 1
          /\ logged' \in [Requests -> 0..MaxEvents]
          /\ \A q \in Requests \ {r} : logged'[q] = logged[q]
      BY <1>1, <2>1, <3>1 DEF TypeOK
    <3>3. disturbed \in BOOLEAN
      BY <1>1 DEF TypeOK
    <3> QED
      BY <1>2, <1>5, <2>1, <3>2, <3>3
  <2>2. CASE logged' = logged /\ disturbed' = TRUE
    BY <1>1, <1>2, <1>5, <2>2 DEF TypeOK
  <2> QED
    BY <2>1, <2>2
<1>7. Only(r)
  BY <1>2, <1>4, <1>6 DEF Only
<1>8. TypeOK'
  BY <1>1, <1>2, <1>4, <1>6 DEF TypeOK
<1>9. EventInv(r)'
  BY <1>2, <1>6 DEF EventInv, Early, OnTheLoop
<1> QED
  BY <1>2, <1>4, <1>7, <1>8, <1>9, StepOfOne DEF Good, Isolated

LEMMA FlushWriteIsGood ==
    ASSUME IInv, NEW r \in Requests, FlushWrite(r)  PROVE IInv'
  BY WriteEnds DEF FlushWrite

LEMMA FlushFailIsGood ==
    ASSUME IInv, NEW r \in Requests, FlushFail(r)  PROVE IInv'
  BY WriteEnds DEF FlushFail

LEMMA CrashIsGood == ASSUME IInv, Crash  PROVE IInv'
<1>1. TypeOK /\ PoolInv
  BY DEF IInv
<1>2. /\ pc' = [r \in Requests |-> IF r \in InFlight THEN "lost" ELSE pc[r]]
      /\ conn' = [r \in Requests |-> NoConnection]
      /\ idle' = Connections
      /\ setting' = [c \in Connections |-> NoSetting]
      /\ rowLock' = NoRequest
      /\ buffered' = [r \in Requests |-> 0]
      /\ disturbed' = TRUE
      /\ ctx' = [r \in Requests |-> NoContext]
      /\ UNCHANGED <<recorded, logged>>
  BY DEF Crash
<1>3. ASSUME NEW r \in Requests  PROVE pc'[r] \in {"new", "done", "lost"}
  BY <1>2 DEF InFlight, Ended
<1>4. TypeOK'
  <2>1. NoContext \in Contexts /\ NoSetting \in Settings /\ "lost" \in Phases
    BY DEF NoContext, Contexts, Kinds, NoSetting, Settings, Phases
  <2>2. 0 \in 0..MaxEvents
    BY ConstantsAssumption
  <2> QED
    BY <1>1, <1>2, <2>1, <2>2 DEF TypeOK
<1>5. PoolInv' /\ CleanPool'
  BY <1>2, <1>3, ConstantsAssumption DEF PoolInv, CleanPool, Connected
<1>6. ASSUME NEW r \in Requests  PROVE Good(r)'
  <2>1. ContextInv(r)' /\ Isolated(r)'
    BY <1>2 DEF ContextInv, Isolated, NoContext
  <2>2. pc'[r] = "new" => pc[r] = "new"
    BY <1>2
  <2>3. EventInv(r)
    BY DEF IInv, Good
  <2>4. recorded[r] \in Nat /\ logged[r] \in Nat /\ buffered[r] \in Nat
    BY <1>1, ConstantsAssumption DEF TypeOK
  <2>5. EventInv(r)'
    BY <1>2, <1>3, <2>2, <2>3, <2>4 DEF EventInv, Early, OnTheLoop
  <2> QED
    BY <2>1, <2>5 DEF Good
<1> QED
  BY <1>4, <1>5, <1>6 DEF IInv
-----------------------------------------------------------------------------
(* The theorems.                                                            *)

LEMMA StutterIsGood == ASSUME IInv, UNCHANGED vars  PROVE IInv'
<1>1. TypeOK'
  BY DEF IInv, TypeOK, vars
<1>2. PoolInv' /\ CleanPool'
  BY DEF IInv, PoolInv, CleanPool, vars
<1>3. ASSUME NEW r \in Requests  PROVE Good(r)'
  BY DEF IInv, Good, ContextInv, EventInv, Isolated, vars
<1> QED
  BY <1>1, <1>2, <1>3 DEF IInv

LEMMA ArriveIsGood == ASSUME IInv, NEW r \in Requests, Arrive(r)  PROVE IInv'
  BY RejectTokenIsGood, RejectCompanyIsGood, AdmitIsGood DEF Arrive

LEMMA ServeIsGood == ASSUME IInv, NEW r \in Requests, Serve(r)  PROVE IInv'
<1>1. CASE Dispatch(r)
  BY <1>1, DispatchIsGood
<1>2. CASE \E c \in Connections : Connect(r, c)
  BY <1>2, ConnectIsGood
<1>3. CASE ConnectTimeout(r)
  BY <1>3, ConnectTimeoutIsGood
<1>4. CASE Authorize(r)
  BY <1>4, AuthorizeIsGood
<1>5. CASE Update(r)
  BY <1>5, UpdateIsGood
<1>6. CASE Handle(r)
  BY <1>6, HandleIsGood
<1>7. CASE StartExit(r)
  BY <1>7, StartExitIsGood
<1>8. CASE Exit(r)
  BY <1>8, ExitIsGood
<1>9. CASE StartFlush(r)
  BY <1>9, StartFlushIsGood
<1>10. CASE \E c \in Connections : FlushConnect(r, c)
  BY <1>10, FlushConnectIsGood
<1>11. CASE FlushTimeout(r)
  BY <1>11, FlushTimeoutIsGood
<1>12. CASE FlushWrite(r)
  BY <1>12, FlushWriteIsGood
<1>13. CASE FlushFail(r)
  BY <1>13, FlushFailIsGood
<1>14. CASE ConnectFail(r)
  BY <1>14, ConnectFailIsGood
<1>15. CASE Serialize(r)
  BY <1>15, SerializeIsGood
<1>16. CASE FlushConnectFail(r)
  BY <1>16, FlushConnectFailIsGood
<1> QED
  BY <1>1, <1>2, <1>3, <1>4, <1>5, <1>6, <1>7, <1>8, <1>9, <1>10, <1>11, <1>12, <1>13,
     <1>14, <1>15, <1>16 DEF Serve

\* The invariant holds in every state.
LEMMA SpecKeepsIInv == Spec => []IInv
<1>1. IInv /\ [Next]_vars => IInv'
  BY StutterIsGood, CrashIsGood, ArriveIsGood, ServeIsGood DEF Next
<1> QED
  BY InitIsGood, <1>1, PTL DEF Spec

\* The variables keep their types; for every set of requests.
THEOREM TypesAreKept == Spec => []TypeOK
<1>1. IInv => TypeOK
  BY DEF IInv
<1> QED
  BY SpecKeepsIInv, <1>1, PTL

\* A transaction shows row-level security its own request's company, role and
\* administrator, and no other's, whatever the connection of the pool carried before
\* (get_db, set_current_company, enforce_platform_role).
THEOREM TenantsAreIsolated == Spec => []TenantIsolation
  BY SpecKeepsIInv, IInvIsolates, PTL

\* No request waits for a connection of the pool while it keeps another: the audit trail
\* is flushed after get_db has ended (CorrelationAuditMiddleware).
THEOREM NobodyHoldsAndWaits == Spec => []NoHoldAndWait
  BY SpecKeepsIInv, IInvForbidsHoldAndWait, PTL

\* An empty pool has lost no connection: each is in the hands of another request, which
\* the process is serving.
THEOREM ConnectionsComeBack == Spec => []EmptyPoolIsInUse
  BY SpecKeepsIInv, IInvUsesPool, PTL

\* Every event that a request recorded is in audit_logs when it is done, its transaction
\* committed or not, as long as no process crashed and no write of an event failed
\* (AuditService.record, AuditService.flush).
THEOREM EventsReachTheLog == Spec => []EventsAreKept
  BY SpecKeepsIInv, IInvKeepsEvents, PTL
-----------------------------------------------------------------------------
(* The row lock.  Each request in the transaction that has it, or waits for *)
(* it, has a connection, and threads are not fewer than connections.        *)

Holding == {"returned", "serializing", "leaving", "exiting"}

LockOK == rowLock # NoRequest => rowLock \in Requests /\ pc[rowLock] \in Holding

\* What a step of r does to the lock, in terms of where r is.
LEMMA LockOfStep ==
    ASSUME LockOK, NEW r \in Requests,
           \A q \in Requests \ {r} : pc'[q] = pc[q],
           \/ rowLock' = NoRequest
           \/ rowLock' = r /\ pc'[r] \in Holding
           \/ rowLock' = rowLock /\ (rowLock = r => pc[r] \notin Holding \/ pc'[r] \in Holding)
    PROVE  LockOK'
  BY DEF LockOK

LEMMA LockOfMove ==
    ASSUME TypeOK, LockOK, NEW r \in Requests, NEW phase \in Phases, Go(r, phase),
           \/ rowLock' = rowLock /\ (pc[r] \notin Holding \/ phase \in Holding)
           \/ rowLock' = r /\ phase \in Holding
    PROVE  LockOK'
  BY GoDoes, LockOfStep

LEMMA LockOfEnd ==
    ASSUME TypeOK, LockOK, NEW r \in Requests, NEW phase \in Phases, Go(r, phase),
           EndTransaction(r)
    PROVE  LockOK'
<1>1. rowLock' = IF rowLock = r THEN NoRequest ELSE rowLock
  BY DEF EndTransaction
<1> QED
  BY <1>1, GoDoes, LockOfStep

LEMMA LockOfArrive == ASSUME TypeOK, LockOK, NEW r \in Requests, Arrive(r)  PROVE LockOK'
<1>1. CASE RejectToken(r)
  BY <1>1, LockOfMove DEF RejectToken, Phases, Holding
<1>2. ASSUME NEW c \in Companies, RejectCompany(r, c)  PROVE LockOK'
  <2>1. pc[r] = "new" /\ rowLock' = rowLock /\ \A q \in Requests \ {r} : pc'[q] = pc[q]
    BY <1>2 DEF RejectCompany, TypeOK
  <2> QED
    BY <2>1, LockOfStep DEF Holding
<1>3. ASSUME NEW context \in Contexts, Admit(r, context)  PROVE LockOK'
  <2>1. pc[r] = "new" /\ rowLock' = rowLock /\ \A q \in Requests \ {r} : pc'[q] = pc[q]
    BY <1>3 DEF Admit, TypeOK
  <2> QED
    BY <2>1, LockOfStep DEF Holding
<1> QED
  BY <1>1, <1>2, <1>3 DEF Arrive

LEMMA LockOfServe == ASSUME TypeOK, LockOK, NEW r \in Requests, Serve(r)  PROVE LockOK'
<1>1. CASE Dispatch(r)
  BY <1>1, LockOfMove DEF Dispatch, Phases, Holding
<1>2. ASSUME NEW c \in Connections, Connect(r, c)  PROVE LockOK'
  BY <1>2, LockOfMove DEF Connect, Phases, Holding
<1>3. CASE ConnectTimeout(r) \/ ConnectFail(r)
  BY <1>3, LockOfMove DEF ConnectTimeout, ConnectFail, Phases, Holding
<1>4. CASE Authorize(r)
  BY <1>4, LockOfMove DEF Authorize, Phases, Holding
<1>5. CASE Update(r)
  BY <1>5, LockOfMove DEF Update, Phases, Holding
<1>6. CASE Handle(r)
  BY <1>6, LockOfMove DEF Handle, Phases, Holding
<1>7. CASE Serialize(r) \/ StartExit(r)
  BY <1>7, LockOfMove DEF Serialize, StartExit, Phases, Holding
<1>8. CASE Exit(r)
  BY <1>8, LockOfEnd DEF Exit, Phases
<1>9. CASE StartFlush(r)
  BY <1>9, LockOfMove DEF StartFlush, Phases, Holding
<1>10. ASSUME NEW c \in Connections, FlushConnect(r, c)  PROVE LockOK'
  BY <1>10, LockOfMove DEF FlushConnect, Phases, Holding
<1>11. AfterEvent(r) \in Phases
  BY DEF AfterEvent, Phases
<1>12. CASE FlushTimeout(r) \/ FlushConnectFail(r)
  BY <1>11, <1>12, LockOfMove DEF FlushTimeout, FlushConnectFail, Holding
<1>13. CASE FlushWrite(r) \/ FlushFail(r)
  BY <1>11, <1>13, LockOfEnd DEF FlushWrite, FlushFail
<1> QED
  BY <1>1, <1>2, <1>3, <1>4, <1>5, <1>6, <1>7, <1>8, <1>9, <1>10, <1>12, <1>13 DEF Serve

LEMMA SpecKeepsLock == Spec => []LockOK
<1>1. Init => LockOK
  BY DEF Init, LockOK
<1>2. TypeOK /\ LockOK /\ [Next]_vars => LockOK'
  <2>1. UNCHANGED vars /\ LockOK => LockOK'
    BY DEF vars, LockOK
  <2>2. Crash => LockOK'
    BY DEF Crash, LockOK
  <2> QED
    BY <2>1, <2>2, LockOfArrive, LockOfServe DEF Next
<1> QED
  BY <1>1, <1>2, TypesAreKept, PTL DEF Spec

\* Connections are as many as the holder and those who wait, threads as many as connections.
LEMMA ThreadIsLeft == IInv /\ LockOK => LockHolderFindsThread
<1> SUFFICES ASSUME IInv, LockOK, rowLock # NoRequest
             PROVE  Cardinality({r \in Requests : pc[r] = "locking"}) < Threads
    BY DEF LockHolderFindsThread
<1> DEFINE Locking == {r \in Requests : pc[r] = "locking"}
           Users == Locking \cup {rowLock}
<1>1. IsFiniteSet(Locking) /\ Cardinality(Locking) \in Nat
  BY ConstantsAssumption, FS_Subset, FS_CardinalityType
<1>2. rowLock \in Requests /\ pc[rowLock] \in Holding
  BY DEF LockOK
<1>3. IsFiniteSet(Users) /\ Cardinality(Users) = Cardinality(Locking) + 1
  BY <1>1, <1>2, FS_AddElement DEF Holding
<1>4. \A q \in Users : q \in Requests /\ pc[q] \in Connected
  BY <1>2 DEF Holding, Connected
<1>5. \A q \in Users : conn[q] \in Connections /\ \A r \in Users : conn[q] = conn[r] => q = r
  BY <1>4 DEF IInv, PoolInv, TypeOK
<1>6. Cardinality(Connections) \in Nat
  BY ThreadsAssumption, FS_CardinalityType
<1> HIDE DEF Users
<1>7. ~(Cardinality(Connections) < Cardinality(Users))
  <2> SUFFICES ASSUME Cardinality(Connections) < Cardinality(Users)  PROVE FALSE
      OBVIOUS
  <2> DEFINE f == [q \in Users |-> conn[q]]
  <2>1. f \in [Users -> Connections]
    BY <1>5
  <2>2. \A q \in Users : f[q] = conn[q]
    OBVIOUS
  <2> HIDE DEF f
  <2>3. \E q, r \in Users : q # r /\ f[q] = f[r]
    BY <1>3, <2>1, ThreadsAssumption, FS_PigeonHole
  <2> QED
    BY <1>5, <2>2, <2>3
<1> QED
  BY <1>1, <1>3, <1>6, <1>7, ThreadsAssumption, ConstantsAssumption

\* A request that has locked its row can always go on to its commit: those who wait for the
\* row leave a thread to validate its response (serialize_response), for every pool
\* that is not larger than the threads are many.
THEOREM LockHoldersGoOn == Spec => []LockHolderFindsThread
  BY SpecKeepsIInv, SpecKeepsLock, ThreadIsLeft, PTL
=============================================================================
