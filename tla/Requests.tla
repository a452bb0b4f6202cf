------------------------------ MODULE Requests ------------------------------
(***************************************************************************)
(* How one server process carries requests: the event loop, the worker     *)
(* threads, the pool of database connections and the audit trail.          *)
(*                                                                         *)
(* The middleware and the flush of audit events run on the event loop.     *)
(* Dependencies and handlers are ordinary functions: each call is a job    *)
(* that needs one of the threads, and the loop to start it; so is the      *)
(* validation of what a handler returns.  A request keeps one connection   *)
(* from get_db to the end of its transaction, in between its jobs too.     *)
(* The connection carries settings that row-level security reads: the      *)
(* role, the company, the administrator.                                   *)
(*                                                                         *)
(* Each request is sent once.  Statements are not modelled, except that a  *)
(* handler that writes takes the lock of the row that all writers want     *)
(* and keeps it to the end of its transaction.                             *)
(***************************************************************************)
EXTENDS Naturals, FiniteSets

CONSTANTS Requests,      \* the requests that clients send
          Companies,     \* the tenants
          Connections,   \* pool_size + max_overflow connections
          Threads,       \* tokens of the thread pool
          MaxEvents,     \* audit events that one request records, at most
          NoCompany, NoConnection, NoRequest

ASSUME ConstantsAssumption ==
    /\ Threads \in Nat \ {0}
    /\ MaxEvents \in Nat \ {0}
    /\ IsFiniteSet(Requests)
    /\ NoCompany \notin Companies
    /\ NoConnection \notin Connections
    /\ NoRequest \notin Requests

\* 5 + 10 connections and 40 threads: the engine and the pool of threads have their defaults.
ASSUME ThreadsAssumption ==
    IsFiniteSet(Connections) /\ Cardinality(Connections) <= Threads

VARIABLES
    pc,         \* where each request is
    ctx,        \* what the middleware found out about it
    conn,       \* its connection
    idle,       \* the connections in the pool
    setting,    \* what the open transaction of each connection has set
    rowLock,    \* the request that holds the lock of the row
    recorded,   \* how many audit events each request has recorded
    buffered,   \* how many of them are still in its scope
    logged,     \* how many of them are rows of audit_logs
    disturbed   \* history: a crash, or an event that could not be written

vars == <<pc, ctx, conn, idle, setting, rowLock, recorded, buffered, logged, disturbed>>

trail == <<recorded, buffered, logged, disturbed>>
-----------------------------------------------------------------------------
(* Types *)

\* tenant: a company's access token; platform: an administrator's token;
\* login: a public path of a tenant; portal: a public path of the platform.
Kinds == {"tenant", "platform", "login", "portal"}

Contexts == [kind: Kinds, company: Companies \cup {NoCompany}]
NoContext == [kind |-> "portal", company |-> NoCompany]

Settings == [role: {"login", "app", "platform"},
             company: Companies \cup {NoCompany},
             admin: BOOLEAN]

\* A session of the login role: what a transaction starts from.
NoSetting == [role |-> "login", company |-> NoCompany, admin |-> FALSE]

Phases == {"new", "routed", "checkout", "opened", "authorizing", "admitted", "handling",
           "locking", "returned", "serializing", "leaving", "exiting", "closed", "flushing",
           "writing", "done", "lost"}

InThread  == {"checkout", "authorizing", "handling", "locking", "serializing"}
OnTheLoop == {"flushing", "writing"}
Connected == {"opened", "authorizing", "admitted", "handling", "locking", "returned",
              "serializing", "leaving", "exiting", "writing"}
Ended     == {"done", "lost"}

\* The types of the variables.
TypeOK ==
    /\ pc \in [Requests -> Phases]
    /\ ctx \in [Requests -> Contexts]
    /\ conn \in [Requests -> Connections \cup {NoConnection}]
    /\ idle \subseteq Connections
    /\ setting \in [Connections -> Settings]
    /\ rowLock \in Requests \cup {NoRequest}
    /\ recorded \in [Requests -> 0..MaxEvents]
    /\ buffered \in [Requests -> 0..MaxEvents]
    /\ logged \in [Requests -> 0..MaxEvents]
    /\ disturbed \in BOOLEAN
-----------------------------------------------------------------------------
(* The resources *)

\* The flush of a request runs on the loop and does not yield it.
LoopFree == \A q \in Requests : pc[q] \notin OnTheLoop

ThreadFree == Cardinality({q \in Requests : pc[q] \in InThread}) < Threads

InFlight == {r \in Requests : pc[r] # "new" /\ pc[r] \notin Ended}

\* The request goes on to a phase; what is known of it goes with it when it is done.
Go(r, phase) ==
    /\ pc' = [pc EXCEPT ![r] = phase]
    /\ ctx' = IF phase = "done" THEN [ctx EXCEPT ![r] = NoContext] ELSE ctx

\* Take connection c from the pool and begin a transaction with settings s.
Checkout(r, c, s) ==
    /\ c \in idle
    /\ idle' = idle \ {c}
    /\ conn' = [conn EXCEPT ![r] = c]
    /\ setting' = [setting EXCEPT ![c] = s]

\* Mutant: set_config(..., false), a setting of the session.
EndTransactionOnly(r) ==
    /\ idle' = idle \cup {conn[r]}
    /\ setting' = [setting EXCEPT ![conn[r]].role = "login"]
    /\ conn' = [conn EXCEPT ![r] = NoConnection]
    /\ rowLock' = IF rowLock = r THEN NoRequest ELSE rowLock

\* Mutant: the lock belongs to the session, as pg_advisory_lock.
EndTransactionKeepLock(r) ==
    /\ idle' = idle \cup {conn[r]}
    /\ setting' = [setting EXCEPT ![conn[r]] = NoSetting]
    /\ conn' = [conn EXCEPT ![r] = NoConnection]
    /\ UNCHANGED rowLock

\* COMMIT or ROLLBACK, and close(): SET LOCAL and set_config(..., true) end with the
\* transaction, the locks too, and the connection is back in the pool.
EndTransaction(r) ==
    /\ idle' = idle \cup {conn[r]}
    /\ setting' = [setting EXCEPT ![conn[r]] = NoSetting]
    /\ conn' = [conn EXCEPT ![r] = NoConnection]
    /\ rowLock' = IF rowLock = r THEN NoRequest ELSE rowLock

Record(r, n) ==
    /\ recorded' = [recorded EXCEPT ![r] = @ + n]
    /\ buffered' = [buffered EXCEPT ![r] = @ + n]
    /\ UNCHANGED <<logged, disturbed>>
-----------------------------------------------------------------------------
(* The middleware *)

\* 401: no token, or not a valid one.
RejectToken(r) ==
    /\ LoopFree
    /\ pc[r] = "new"
    /\ Go(r, "closed")
    /\ UNCHANGED <<conn, idle, setting, rowLock, trail>>

\* 403: the token of company c with the X-Company-ID of another.
RejectCompany(r, c) ==
    /\ LoopFree
    /\ pc[r] = "new"
    /\ pc' = [pc EXCEPT ![r] = "closed"]
    /\ ctx' = [ctx EXCEPT ![r] = [kind |-> "tenant", company |-> c]]
    /\ Record(r, 1)
    /\ UNCHANGED <<conn, idle, setting, rowLock>>

\* The request passes.  A login names its company in the body; the platform has none.
Admit(r, context) ==
    /\ LoopFree
    /\ pc[r] = "new"
    /\ (context.company = NoCompany) <=> (context.kind \in {"platform", "portal"})
    /\ ctx' = [ctx EXCEPT ![r] = context]
    /\ pc' = [pc EXCEPT ![r] = "routed"]
    /\ UNCHANGED <<conn, idle, setting, rowLock, trail>>
-----------------------------------------------------------------------------
(* The jobs of a request *)

\* The loop hands the next job of the request to a thread.
Dispatch(r) ==
    /\ LoopFree
    /\ ThreadFree
    /\ \/ pc[r] = "routed"   /\ Go(r, "checkout")
       \/ pc[r] = "opened"   /\ Go(r, "authorizing")
       \/ pc[r] = "admitted" /\ Go(r, "handling")
       \/ pc[r] = "returned" /\ Go(r, "serializing")
    /\ UNCHANGED <<conn, idle, setting, rowLock, trail>>

\* What get_db sets, over what the connection shows already: the role always, the company
\* and the administrator only if the request has them.
OpeningSetting(context, shown) ==
    [role    |-> IF context.kind \in {"platform", "portal"} THEN "platform" ELSE "app",
     company |-> IF context.kind = "tenant" THEN context.company ELSE shown.company,
     admin   |-> context.kind = "platform" \/ shown.admin]

\* get_db: the first statement takes a connection.
Connect(r, c) ==
    /\ pc[r] = "checkout"
    /\ Checkout(r, c, OpeningSetting(ctx[r], setting[c]))
    /\ Go(r, IF ctx[r].kind \in {"tenant", "platform"} THEN "opened" ELSE "admitted")
    /\ UNCHANGED <<rowLock, trail>>

\* The pool has been empty for pool_timeout seconds: the request ends with 500.
ConnectTimeout(r) ==
    /\ pc[r] = "checkout"
    /\ idle = {}
    /\ Go(r, "closed")
    /\ UNCHANGED <<conn, idle, setting, rowLock, trail>>

\* The pool has a place, but the database refuses a connection.
ConnectFail(r) ==
    /\ pc[r] = "checkout"
    /\ idle # {}
    /\ Go(r, "closed")
    /\ UNCHANGED <<conn, idle, setting, rowLock, trail>>

\* get_active_membership and require_permissions, or require_platform_admin: 403 without
\* an event when the session or the membership is not active, with one when a permission
\* is missing.
Authorize(r) ==
    /\ pc[r] = "authorizing"
    /\ \/ Go(r, "admitted") /\ UNCHANGED trail
       \/ Go(r, "leaving")  /\ UNCHANGED trail
       \/ ctx[r].kind = "tenant" /\ Go(r, "leaving") /\ Record(r, 1)
    /\ UNCHANGED <<conn, idle, setting, rowLock>>

\* A login names its company in the body, and its handler sets it first.
SetCompany(r) ==
    setting' = IF ctx[r].kind = "login"
               THEN [setting EXCEPT ![conn[r]].company = ctx[r].company]
               ELSE setting

\* The handler sends the statement that writes the row.
Update(r) ==
    /\ pc[r] = "handling"
    /\ SetCompany(r)
    /\ Go(r, "locking")
    /\ UNCHANGED <<conn, idle, rowLock, trail>>

\* The handler has written the row or not.  It records up to MaxEvents events; the platform
\* writes its own audit in the transaction.  It returns a value of its response_model, or
\* it raises, or returns a response or nothing.
Handle(r) ==
    /\ \/ pc[r] = "handling" /\ UNCHANGED rowLock
       \/ pc[r] = "locking"  /\ rowLock = NoRequest /\ rowLock' = r
    /\ SetCompany(r)
    /\ \E n \in 0..MaxEvents :
          /\ ctx[r].kind \in {"platform", "portal"} => n = 0
          /\ Record(r, n)
    /\ Go(r, "returned") \/ Go(r, "leaving")
    /\ UNCHANGED <<conn, idle>>

\* serialize_response: the value is validated, or refused.  The transaction is still open.
Serialize(r) ==
    /\ pc[r] = "serializing"
    /\ Go(r, "leaving")
    /\ UNCHANGED <<conn, idle, setting, rowLock, trail>>

\* The exit of get_db runs in a thread of its own, outside the tokens.
StartExit(r) ==
    /\ LoopFree
    /\ pc[r] = "leaving"
    /\ Go(r, "exiting")
    /\ UNCHANGED <<conn, idle, setting, rowLock, trail>>

\* Mutant: the events belong to the transaction.
ExitWithEvents(r) ==
    /\ pc[r] = "exiting"
    /\ EndTransaction(r)
    /\ Go(r, "closed")
    /\ buffered' = [buffered EXCEPT ![r] = 0]
    /\ UNCHANGED <<recorded, logged, disturbed>>

Exit(r) ==
    /\ pc[r] = "exiting"
    /\ EndTransaction(r)
    /\ Go(r, "closed")
    /\ UNCHANGED trail
-----------------------------------------------------------------------------
(* AuditService.flush, in the finally of the outermost middleware *)

AfterEvent(r) == IF buffered[r] = 1 THEN "done" ELSE "flushing"

\* Mutant: the flush runs before the transaction has ended.
StartFlushEarly(r) ==
    /\ LoopFree
    /\ pc[r] \in {"leaving", "closed"}
    /\ Go(r, IF buffered[r] = 0 THEN "done" ELSE "flushing")
    /\ UNCHANGED <<conn, idle, setting, rowLock, trail>>

StartFlush(r) ==
    /\ LoopFree
    /\ pc[r] = "closed"
    /\ Go(r, IF buffered[r] = 0 THEN "done" ELSE "flushing")
    /\ UNCHANGED <<conn, idle, setting, rowLock, trail>>

\* A session of the flush's own, in the company of the event.
FlushConnect(r, c) ==
    /\ pc[r] = "flushing"
    /\ Checkout(r, c, [setting[c] EXCEPT !.role = "app", !.company = ctx[r].company])
    /\ Go(r, "writing")
    /\ UNCHANGED <<rowLock, trail>>

\* Mutant: the loop waits for ever.
FlushWithoutTimeout(r) == pc[r] = "flushing" /\ idle = {} /\ UNCHANGED vars

\* The loop has waited pool_timeout seconds: the event is dropped.
FlushTimeout(r) ==
    /\ pc[r] = "flushing"
    /\ idle = {}
    /\ Go(r, AfterEvent(r))
    /\ buffered' = [buffered EXCEPT ![r] = @ - 1]
    /\ disturbed' = TRUE
    /\ UNCHANGED <<conn, idle, setting, rowLock, recorded, logged>>

\* The database refuses a connection.
FlushConnectFail(r) ==
    /\ pc[r] = "flushing"
    /\ idle # {}
    /\ Go(r, AfterEvent(r))
    /\ buffered' = [buffered EXCEPT ![r] = @ - 1]
    /\ disturbed' = TRUE
    /\ UNCHANGED <<conn, idle, setting, rowLock, recorded, logged>>

FlushWrite(r) ==
    /\ pc[r] = "writing"
    /\ EndTransaction(r)
    /\ Go(r, AfterEvent(r))
    /\ buffered' = [buffered EXCEPT ![r] = @ - 1]
    /\ logged' = [logged EXCEPT ![r] = @ + 1]
    /\ UNCHANGED <<recorded, disturbed>>

\* Mutant: the session of a failed write is not closed.
FlushFailOpen(r) ==
    /\ pc[r] = "writing"
    /\ conn' = [conn EXCEPT ![r] = NoConnection]
    /\ Go(r, AfterEvent(r))
    /\ buffered' = [buffered EXCEPT ![r] = @ - 1]
    /\ disturbed' = TRUE
    /\ UNCHANGED <<idle, setting, rowLock, recorded, logged>>

\* The database refuses the row, or is gone: the error is logged and swallowed.
FlushFail(r) ==
    /\ pc[r] = "writing"
    /\ EndTransaction(r)
    /\ Go(r, AfterEvent(r))
    /\ buffered' = [buffered EXCEPT ![r] = @ - 1]
    /\ disturbed' = TRUE
    /\ UNCHANGED <<recorded, logged>>
-----------------------------------------------------------------------------
\* The process stops: its requests and their events are gone, PostgreSQL rolls their
\* transactions back, and the process that follows starts with a pool of its own.
Crash ==
    /\ InFlight # {}
    /\ pc' = [r \in Requests |-> IF r \in InFlight THEN "lost" ELSE pc[r]]
    /\ conn' = [r \in Requests |-> NoConnection]
    /\ idle' = Connections
    /\ setting' = [c \in Connections |-> NoSetting]
    /\ rowLock' = NoRequest
    /\ buffered' = [r \in Requests |-> 0]
    /\ disturbed' = TRUE
    /\ ctx' = [r \in Requests |-> NoContext]
    /\ UNCHANGED <<recorded, logged>>

Init ==
    /\ pc = [r \in Requests |-> "new"]
    /\ ctx = [r \in Requests |-> NoContext]
    /\ conn = [r \in Requests |-> NoConnection]
    /\ idle = Connections
    /\ setting = [c \in Connections |-> NoSetting]
    /\ rowLock = NoRequest
    /\ recorded = [r \in Requests |-> 0]
    /\ buffered = [r \in Requests |-> 0]
    /\ logged = [r \in Requests |-> 0]
    /\ disturbed = FALSE

Arrive(r) ==
    \/ RejectToken(r)
    \/ \E c \in Companies : RejectCompany(r, c)
    \/ \E context \in Contexts : Admit(r, context)

\* What the process does for a request that has arrived.
Serve(r) ==
    \/ Dispatch(r)
    \/ \E c \in Connections : Connect(r, c)
    \/ ConnectTimeout(r)
    \/ ConnectFail(r)
    \/ Authorize(r)
    \/ Update(r)
    \/ Handle(r)
    \/ Serialize(r)
    \/ StartExit(r)
    \/ Exit(r)
    \/ StartFlush(r)
    \/ \E c \in Connections : FlushConnect(r, c)
    \/ FlushTimeout(r)
    \/ FlushConnectFail(r)
    \/ FlushWrite(r)
    \/ FlushFail(r)

Next == Crash \/ \E r \in Requests : Arrive(r) \/ Serve(r)

\* The scheduler runs every job, the pool and the database answer or time out.  Nothing
\* is assumed of the clients, and no crash has to happen.
Fairness == \A r \in Requests : WF_vars(Serve(r))

Spec == Init /\ [][Next]_vars /\ Fairness
-----------------------------------------------------------------------------
(* Properties *)

Waiting == {r \in Requests : pc[r] \in {"checkout", "flushing"}}

\* Whatever request had the connection before, a transaction shows row-level security no
\* company but that of its own request, the platform's role only to the platform, and an
\* administrator only to a request with an administrator's token.  An audit event is
\* written in the company it is about.
TenantIsolation ==
    \A r \in Requests : conn[r] # NoConnection =>
        LET shown == setting[conn[r]]
        IN  /\ shown.company \in {NoCompany, ctx[r].company}
            /\ shown.role = "platform" <=> ctx[r].kind \in {"platform", "portal"}
            /\ shown.admin => ctx[r].kind = "platform"
            /\ pc[r] = "writing" => shown.company = ctx[r].company

\* No request waits for a connection while it keeps one, that of its transaction included:
\* audit events are written in a transaction of their own, after the request's.
NoHoldAndWait == \A r \in Waiting : conn[r] = NoConnection

\* A request that finds the pool empty finds every connection in the hands of another
\* request that is being served: none was lost by a refusal, a failure or a crash.
EmptyPoolIsInUse ==
    \A r \in Waiting : idle = {} =>
        \A c \in Connections : \E q \in InFlight \ {r} : conn[q] = c

\* Refused, rolled back or committed: the events of a request that has ended are in the
\* audit log, unless the process crashed, or the write of an event failed.
EventsAreKept ==
    \A r \in Requests : pc[r] = "done" /\ ~disturbed => logged[r] = recorded[r]

\* Whoever has the row lock finds a thread for its next job: those who wait for the lock
\* keep a thread each, but never all of them.
LockHolderFindsThread ==
    rowLock # NoRequest => Cardinality({r \in Requests : pc[r] = "locking"}) < Threads

\* Every request that arrives is answered, or lost in a crash: none is served for ever,
\* although jobs keep their connection and their row lock while they wait for a thread,
\* threads wait for a connection and for a row, and the loop itself waits for a connection.
EveryRequestEnds == \A r \in Requests : []<>(r \notin InFlight)
=============================================================================
