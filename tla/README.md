# Verification of the CRM and Inbox backend

TLA+ models of the multi-tenant CRM/Inbox service (FastAPI, SQLAlchemy,
PostgreSQL; a Next.js application in front of it), model-checked with TLC, and
theorems about them checked with TLAPS. The paths below are relative to `src/`.

## 1. Inventory

### How the program runs

One process runs an event loop and a pool of threads. The middlewares and the
flush of audit events run on the loop; the dependencies and the handler of a request
are ordinary functions, each a job that needs a thread, and the validation of what the
handler returns is one more, before the transaction ends. Each request has a database
session of its own (`backend/app/db/session.py`, `get_db`): one transaction at READ
COMMITTED, `autoflush=False`, committed when the handler returns and rolled back when
it raises. The interesting state is nearly all in PostgreSQL; what makes it hard is
that the requests interleave between any two statements:

- a `SELECT` sees what is committed when it runs and, with two exceptions
  (`FOR UPDATE` of a refresh token and of an accepted invitation), locks nothing;
- the handler decides on the rows it has loaded;
- at the flush, SQLAlchemy writes *only the attributes whose value differs from
  the loaded one*; the `UPDATE` waits for the row lock and then applies to the
  latest committed row, whatever that row has become;
- triggers, unique indexes and `CHECK`s look at the row that results;
- each statement of a read sees a different table.

No test of the repository runs two requests at once.

### Components

| Component | State | Operations | What makes it correct |
|---|---|---|---|
| Inbox conversations (`api/routes/inbox.py`, `services/inbox*.py`) | `conversations` rows | create, update, assign, status, priority, takeover, reopen, archive, mark-read/unread | status and timestamps agree; closed rows only reopen; archived rows never change; unread count |
| Inbox messages (`api/routes/inbox_messages.py`) | `messages` rows | draft, edit, discard, queue, send, simulated inbound | lifecycle of a message; nothing enters a read-only conversation; one message per external id; one event per send |
| Lifecycle triggers (migrations 0015, 0016) | none: they check and lock | run before each write of the two tables | they are what the promises above rest on |
| Notes and tags (`api/routes/inbox_collaboration.py`) | notes, tags, links | create, edit, archive notes; create, rename, link, unlink tags | one tag per name; an archived note stays so; nothing is added to a read-only conversation |
| Auth sessions (`core/sessions.py`, `api/routes/auth.py`) | `auth_sessions`, `refresh_tokens` | login, refresh, logout, logout-all | a generation is exchanged once; reuse revokes the family; revocation is final |
| Platform (`api/routes/platform.py`, `services/platform.py`, migration 0011) | companies, invitations, memberships of owners | provision, invite, revoke, validate, accept, suspend, reactivate | one pending invitation per address; owners were invited; suspension holds |
| Login limiter (`core/rate_limit.py`) | failures per key, in memory | retry_after, record_failure, reset | few wrong passwords per window; a refusal is earned and ends |
| CRM (`api/routes/crm.py`, `services/crm.py`) | contacts, leads, tasks, activities | create, edit, archive, assign, status, complete | every status is in the history; `archived_at` is final |
| Requests (`db/session.py`, `main.py`) | threads, connection pool, open transactions | admit, dispatch, connect, authorize, handle, validate the response, commit | no hold-and-wait; who holds a row lock finds a thread; every request ends; no connection is lost |
| Audit (`services/audit.py`, `middleware/correlation.py`) | events in the scope of a request; `audit_logs` | buffered, written after the transaction | refusals and rollbacks lose no event |
| Tenant isolation (`middleware/tenant_security.py`, `db/tenant.py`) | the settings that row-level security reads | set by `get_db` and by login | a reused connection shows nothing of the request before |
| Authorization (`api/authorization.py`) | roles and permissions, data | read once per request | a refusal is recorded |
| Lists (`list_*`, `read_conversation`, `summary`) | cursors held by clients | keyset and offset pages, reads in several statements | no row is missed or shown twice that nobody touched (of tasks, only those not due at one time) |
| Frontend proxies (`frontend/src/lib`, `frontend/src/app/api`) | cookies | forward requests | no state, no single-flight of refreshes |

Components interact through rows: suspension revokes the rows of Auth sessions;
an acceptance writes the company that suspension writes; a message insert locks
and checks the conversation that close and archive write. They also interact through
what the process has little of: requests wait for each other's connections, threads,
row locks and for the event loop.

## 2. Modules

`Inbox`, `Collaboration`, `AuthSessions`, `Platform` and `Crm` have the same shape;
`Requests` models what they take for granted, that a transaction begins, has a tenant and
ends. The committed rows are variables (`conv`, `msg`, `token`, `company`, `lead`...).
`req[w]` is the transaction of worker `w`: its phase, the rows it loaded, what it
has written and locked. A request is *load* (guard: what the `SELECT` finds),
*flush* (the checks on the loaded row, the differences applied to the latest row,
the trigger, the locks), *commit*, and at any point *rollback* (a refusal, a
constraint, a crash, the loser of a deadlock). A flush that must wait is an
action that is not enabled. Each alternative of a route is an action named after
the handler.

| Module | Models | Notes |
|---|---|---|
| `Inbox` | conversations, messages and their triggers | `EnforceConversationLifecycle`, `EnforceMessageLifecycle`, `RequireWritable` are the triggers; `ReceiveInbound` includes the savepoint |
| `MessageLifecycle` | what a message promises to those who read it | the abstract specification; `Inbox` implements it with `message <- visible` |
| `InboxProofs` | theorems about `Inbox` | see section 5 |
| `Collaboration` | notes, tags and links of conversations | the conversation is a status that a step of `Inbox` changes (`ChangeConversation`) |
| `CollaborationProofs` | theorems about `Collaboration` | see section 5 |
| `AuthSessions` | one user's sessions in one company | a revocation is several steps: a snapshot (`StartRevocation`), one lock at a time, tokens before sessions |
| `AuthSessionsProofs` | theorems about `AuthSessions` | see section 5 |
| `Platform` | companies and invitations of owners | the accepting function locks and re-checks |
| `PlatformProofs` | theorems about `Platform` | see section 5 |
| `Crm` | contacts, leads, tasks | one visible row per request, so that flush and commit are one step |
| `CrmProofs` | theorems about `Crm` | see section 5 |
| `Requests` | how the process serves requests: loop, threads, pool, settings of a transaction, audit events | what a handler does is a row lock or nothing; `Serve(r)` is all that the process does for request `r` |
| `RequestsProofs` | theorems about `Requests` | see section 5 |
| `LoginLimiter` | the failures of one key, and the steps of `platform_login` between the calls | `stamp[w]` is the clock as worker `w` read it, before it took the lock; the list is the set of the places that it holds of `recorded` |
| `LoginLimiterProofs` | theorems about `LoginLimiter` | see section 5 |
| `Listings` | every list and multi-statement read, against writers that commit late | `kind` is the list; a page is the set of the rows at some places of it (`Place`), for tasks one of several such sets (`Pages`); `stable`, `moved`, `changes`, `tied` are history variables |
| `ListingsProofs` | theorems about `Listings` | see section 5 |
| `MC...` | symmetry for TLC; `MCCrm` also has a state constraint, `MCListings` the page sizes | |

Definitions that begin with a comment "Mutant:" are mutated forms of the definition that follows:
each breaks one property, which shows that the property depends on that line of
the code. They are used in no specification.

Abstractions that the modules of rows share:

- Timestamps are "set" or "not set". Their order is modelled in `Listings` and
  `LoginLimiter` only, where it is the question.
- A flush takes the locks of its rows in one step (not in `AuthSessions`, where
  the order of locks is the question).
- Arguments of a request are chosen when they are used.
- Columns that no rule mentions are one column with a few values (`settings`,
  `details`) that keeps the read-modify-write of the real ones.
- One tenant. Row-level security compares rows with settings of the transaction:
  `Requests` models the settings, the policies are PostgreSQL's and not modelled.

Particular ones:

- `Inbox`: the check of a draft's author is part of `LoadMessage`; `assign` is a
  setting, without the membership check; `ai_enabled` is left out (it is never
  set by a route); system events are modelled for archive and send, the two that
  the properties count.
- `Collaboration`: a note belongs to its author, since a request of another member
  is refused; `archive_note` of an archived note and `add_tag` of a linked tag
  change nothing and are left out. An insertion into the table of links is two steps: the
  trigger looks at the conversation (`InsertLink`), then the primary key makes the insertion
  wait for another of the same link (`AddTag`), while the conversation may be closed.
  A tag's name is a word and whether it has a capital; `Normalized` forgets the capital.
- `AuthSessions`: `Present` locks the token and reads the session in one step:
  no other request changes the locked row between the two. A CSRF token has the name of the
  refresh token issued with it. `late` is a history variable. No route
  deactivates a membership: `DeactivateMembership` is the operator's.
- `Platform`: `update_company` writes columns that are not modelled; slugs,
  administrators' sessions, the mail and the audit are left out. Companies may be older than
  the portal (active, onboarding not started).
- `Crm`: activities are abstracted to the statuses they record.
  `create_lead_activity` and the activities of assignments and tasks are left out.
- `Requests`: a request is sent once; all writers want one row; the policy of a crash is
  that a new process starts with a new pool. Platform routes write their audit inside
  their own transaction and so record nothing here. The response may be sent before
  or after the exit of `get_db`, depending on the version of FastAPI: what a client
  learns of the commit is not modelled. After a `def` handler FastAPI validates the value in
  the thread pool (`returned`, `serializing`), with the transaction and its row lock
  still there; a handler that raises, or returns a response or nothing, goes on without. The
  exit of `get_db` has a thread of its own, outside the pool. A connection can fail with a
  place in the pool left (`ConnectFail`, `FlushConnectFail`): the engine connects late, or
  finds its connection dead (`pool_pre_ping`).
- `LoginLimiter`: one key (address and email), since keys share nothing but the lock. A call
  takes the lock at most `Delay` ticks after it read the clock. `recorded` has the times of all
  the failures since the last reset, in the order of the calls, and `failures` the places in it that
  the list still holds: the first of them is `recent[0]`, and the list is out of the order of
  the clock exactly when `recorded` is.
- `Listings`: a writer writes once; a name or a score is one more value of the key, and so is
  a `NULL` key. The order of the rows of a page is that of `Precedes` and is not recorded
  in `seen`. `list_tasks` orders by `due_at` and `created_at` and by no identifier
  (`api/routes/crm.py:965`): each statement may put tasks on a par in an order of its own, so that a
  page holds any of them, as many as have a place in it (`Ties`, `Pages`). `Numbered` lists
  refuse a page beyond `MaxPage` (100 in the code): the walk stops short, `refused`; audit logs
  have an offset without a limit. Walks of a client that changes its filters half-way are not modelled.

## 3. Runs

Bounds are the sets in each `.cfg`; nothing else bounds a run, since identifiers
are used up and the other counters are bounded by them. Two workers suffice for a lost
update or a stale check (one acts between the two steps of the other); three are
used where a property counts (`AuthRotation`) or where a third request could
exploit the outcome of a race of two (`AuthBulk`).

| Run | Instance | Shows |
|---|---|---|
| `InboxConversation` | 2 workers, 1 conversation, 1 message, 1 setting of 2 values, all routes | `TimestampsMatchStatus`, `OneArchiveEvent`, `OneEventPerSentMessage`, `ClosedOnlyReopens`, `NoMessageEntersReadOnly`, `ImplementsLifecycle` |
| `InboxCounter` | 2 workers, 2 conversations, 3 messages, 1 external id | `TypeOK`, `RetriesAreNotCounted`, `ImplementsLifecycle`: retried and concurrent deliveries |
| `NotesAndTags` | 2 workers, 1 conversation, 1 note, 2 tags, 2 words, 2 texts, all routes | `TypeOK`, `OneTagPerName`, `ArchivedNoteStays`, `OnlyStragglersCommit` |
| `AuthRotation` | 3 workers, 1 session, 3 tokens, expiry, deactivation | `TypeOK`, `CsrfOfUsableGeneration`, `OneSuccessor`, `AtMostOneLateRotation`, `RevocationIsFinal` |
| `AuthBulk` | 3 workers, 2 sessions, 3 tokens, logout-all, suspension | `DeadlockNeedsTwoBulkRequests` |
| `PlatformInvitations` | 2 workers, 1 company, 3 invitations, 2 addresses, all routes | `TypeOK`, `OnePendingPerEmail`, `OwnersWereInvited`, `AcceptedFromPending` |
| `CrmRequests` | 2 workers, 2 contacts, 1 lead, 1 task, 1 address, 2 reasons, 4 targets, all routes | `TypeOK`, `StatusWasRecorded`, `ArchivedAtIsFinal` |
| `RequestService` | 3 requests, 1 company, 2 connections, 2 threads, at most 1 event each | `TenantIsolation`, `NoHoldAndWait`, `EmptyPoolIsInUse`, `EventsAreKept`, `LockHolderFindsThread`, `EveryRequestEnds` |
| `AdminLogin` | 2 workers, limit 2, window of 5 ticks, 2 ticks to the second, delay 1, 9 ticks | `FewAttempts`, `PromiseIsKept`, `DenialsAreEarned` |
| `ListWalks` | 4 rows, 2 of them inbound, 2 writers, pages of 2 (of 1 for contacts), at most 3 pages by number, keys 0 to 2 | `NoRowTwice`, `NoRowMissed`, `LatestIsNotOlder` |
| `InboxLostIncrement` | 2 workers | violated: see section 4 |
| `PlatformSuspension` | 1 worker | violated |

Why these bounds are enough:

- `CrmRequests`: four of the seven statuses that a client may ask for, since the code
  treats `lost` and `won` apart, `new` is the initial one and the others are alike. The
  constraint `Focus` explores a state further only while at most one of a second contact, a
  history of the lead and a task is there: the three are written by different routes
  under no common rule. States outside are still checked, once.
- `RequestService`: with three requests one holds the row lock and wants a thread to validate
  its response, one waits for the lock in a thread and one has the other thread, where it
  waits for a connection. With two connections the pool is empty while both
  others hold theirs. Threads are as many as connections, the fewest that
  `ThreadsAssumption` allows. The code's figures, 15 connections (the engine's 5 and 10
  more) and 40 threads, are the defaults of their libraries, and the assumption is what
  `EveryRequestEnds` needs of them: with one thread and two connections the holder of the lock
  would wait for the thread in which the other waits for the lock, with no timeout. Code records at most two events in a request;
  one, buffered and written, has every outcome but the second turn of the loop of `flush`.
- `AdminLogin`: the window is longer than twice the delay and not a whole number of seconds,
  so that the rounding shows; the clock runs nearly two windows.
- `ListWalks`: two full pages, with rows that have equal keys, and a writer before and after
  the cursor. Pages of one row make a walk through contacts come to a page that is
  refused, those of two cut a group of tasks due at one time.

Deadlock checking is off where the system stops for good: in `AuthSessions`, `Platform`
and `Crm` every identifier is used up; in `Requests` every request has ended; in
`LoginLimiter` the clock has reached its bound; in `Listings` the client has read its
last page, or was refused it, and the writers have written. In `Inbox` and `Collaboration` it is on. That requests
can wait for each other's row locks is stated as an invariant instead
(`DeadlockNeedsTwoBulkRequests`).

`EveryRequestEnds` is the one liveness property: a request that the process has begun to serve
is answered, or lost with its process; as each request is sent once, that is to say that again
and again it is not in flight. `Requests` assumes weak fairness of `Serve(r)`, for each
request: the event loop and the threads run every job they are given, a wait for
a connection ends after `pool_timeout` (actions of their own, for a handler and for the
flush; without the second the loop stands still), and the database answers. Nothing is assumed of clients, nor that
processes crash or do not. The modules of rows have no fairness: the server promises
no client that a request succeeds, and a wait for a row lock ends with the transaction
that holds it, which is what `Requests` is about.

## 4. Where the code and its documentation disagree

Two runs have the answer "violated". Each checks one property, a sentence of the documentation:

- `InboxLostIncrement`. "Chaque message inbound incrémente `unread_count`"
  (`docs/inbox/conversation-lifecycle.md:13`): `receive` writes the loaded count
  plus one, so that one of two concurrent messages is not counted.
- `PlatformSuspension`. "Pour réactiver, utiliser l'action dédiée"
  (`docs/runbooks/suspend-company.md:13`): accepting an invitation sets the status
  of the company to `onboarding`, suspended or not.

Others were met while modelling and have no run of their own. Of the inbox:

- "`archived` est strictement read-only" (`docs/inbox/conversation-lifecycle.md:6`): editing,
  discarding or queueing a draft reads its conversation without a lock and may
  commit after the archive. `NoMessageEntersReadOnly` is what holds, for new messages.
- A queued message stays queued once its conversation is closed or archived
  (`services/inbox.py:146`): no route sends or withdraws it.
- `last_message_at` is computed before the wait for the row lock: a later commit can move
  it back (`services/inbox.py:189`). In `Listings` the conversation can then be shown
  twice or missed by a walk; only one whose own key has moved can.
- `assign` checks the membership of the assignee without a lock, as `create_lead` checks
  its contact.
- Two status changes decided on one status compose into a transition that
  `ALLOWED_TRANSITIONS` refuses (`services/inbox_conversations.py:83`).
- Two edits that each clear the column the other keeps leave a draft without
  content (`services/inbox_messages.py:58`).

Of sessions and logins:

- "... la révocation de toute la famille `auth_sessions`, ainsi que de toutes ses
  générations" (`docs/security/session-flow.md:32-34`): the `UPDATE` does not see a
  generation that a concurrent rotation inserts. It stays unrevoked;
  `AtMostOneLateRotation` shows that it is of no use, because the next refresh finds
  the session revoked.
- "Le login est limité à cinq échecs sur cinq minutes par couple IP/email"
  (`docs/platform/super-admin.md:35`): every thread that asked before the fifth
  failure was recorded tries one more password. `FewAttempts` is what holds: the limit, and
  one for each other worker. `Retry-After` is cut to whole seconds, so that a client
  that waits as long may be refused once more, up to a second later (`PromiseIsKept`).
- A login that read the company before its suspension leaves a live session in a
  suspended company (`api/routes/auth.py:66`; `AuthSessions` has the interleaving:
  `VerifyCredentials`, `SuspendCompany`, `CreateSession`).

Of the rest:

- A status change racing an archive gives a lead its old kind of status back;
  its `archived_at` stays (`ArchivedAtIsFinal`), so that it remains refused. Two
  archives at once record two activities (`docs/qa/manual-crm-smoke-test.md:32`).
- A page by offset, and its total by an earlier statement, show rows twice and miss others
  when rows come, leave or move (`NoRowTwice` and `NoRowMissed` say when);
  the last inbound message of a summary can be newer than its last message
  (`services/inbox_collaboration.py:302` and `:320`).
- A list of tasks read by pages can show a task twice and never show another although
  nothing is written: tasks with one `due_at`, or none, that were created in
  transactions of one instant have no order (`api/routes/crm.py:965`). The other lists end
  with the identifier.
- A list of more than 100 pages cannot be read to its end: the next page is refused, 422
  (`api/routes/crm.py:842`, `api/routes/platform.py:330`, `schemas/crm.py:182`), while
  `pages` in the answer says that it is there.
- An audit event that says `success` is recorded before the commit and written although
  the commit failed (`services/audit.py:49`). The email of an invitation is sent before
  the commit as well.
- An edit that loaded a note before it was archived changes the body of the
  archived note, which `update_note` calls read-only
  (`api/routes/inbox_collaboration.py:245`); the note stays archived
  (`ArchivedNoteStays`).
- No trigger runs on `DELETE`, so that a tag can be removed from a conversation
  archived meanwhile; of two removals at once, one deletes nothing and both record
  `inbox.tag.removed` (`api/routes/inbox_collaboration.py:395`).
- `suspended_at` and `status` of a company can disagree after a suspension and a
  reactivation at once.

## 5. Proofs

`InboxProofs` proves, for any sets of workers, conversations, messages, external
ids and settings (assuming that `None` is none of them), that `Spec` implies
`TypeOK`, `TimestampsMatchStatus`, `OneEventPerSentMessage`, `OneArchiveEvent`,
`ArchivedStaysArchived`, `ClosedOnlyReopens`, `NoMessageEntersReadOnly` and
`ImplementsLifecycle`.

None of these invariants is inductive: a request applies differences computed on
a stale row, so that what it will write must be related to what is committed. The
inductive invariant adds, for each flushed transaction: what it has locked nobody
else has written since (its pending row differs from the committed one only by
its own writes); the pending row satisfies the trigger's promise; the events it
carries are those its writes owe; and what it loaded is a row that was
committed. The steps are, for each action, that the invariant survives; actions that only load or
roll back are one lemma each; the refinement maps every commit to one step of
`MessageLifecycle`, every other step to a stutter.

With a finite set of messages, `Spec` implies `RetriesAreNotCounted` as well
(`RetriesCountOnce`). `receive` adds one to the counter that it loaded,
which may be stale, so the invariant bounds that of every request as well (`CountOK`): received
messages are never taken back, so that a bound on a stale counter still holds, and the commit
that writes the increment inserts a message that was not there (`CommitReceives`).

`AuthSessionsProofs` proves, for any sets of workers and sessions and a finite set
of tokens without `None`, that `Spec` implies `TypeOK`, `CsrfOfUsableGeneration`,
`OneSuccessor`, `AtMostOneLateRotation` and `RevocationIsFinal`. A request reads
the session without a lock, so nothing it knows of the session survives; the
inductive invariant rests on the token instead. It adds that no two requests lock
the same token or insert the same one, that a token being exchanged is neither
used nor revoked, that a replacement is a row, and that after a late rotation no
request in progress can rotate: the generation it presented is revoked, or it has
read the session revoked (`NotLate`). The step that matters is `CommitRotation`:
the generation it exchanges is the only one of its session that is not revoked,
so that no other request can be exchanging one, and the set of generations and
that of the used ones grow by one element each.

With finitely many workers, `Spec` implies `DeadlockNeedsTwoBulkRequests` (`DeadlockFreedom`).
Waiting has an order to rest on: `Later(t, u)` says that the rotations lead from generation `t` to
`u`, as `u` is in every set that holds the replacement of `t` and, of each of its
members, the replacement. No circle of it exists (`NoCircle`), because a replacement is a new
row, and the one generation of a session that is not revoked is later than the others
(`UsableIsLast`). A request of one session that has locked that session has nothing left to wait for
(`SessionHolderGoesOn`). Hence, with one bulk request at most, everyone in a set of requests that
wait for each other waits for a generation (`AllWaitForTokens`); whoever
holds it had presented it (`WaitsForLater`), and it is later than the one that
the waiting request presented in that session. The set would be a circle of later generations.

`CollaborationProofs` proves, for any sets of workers, conversations, notes, tags
and words without `None`, that `Spec` implies `TypeOK`, `OneTagPerName`,
`ArchivedNoteStays` and `OnlyStragglersCommit`. The inductive invariant says of each
request what it will commit: a note keeps the conversation of the committed row,
and stays archived if that is; a tag has a name that no other tag has; and
of two requests that have flushed, that they write different notes, and different
tags under different names (`Apart`). `CommitKeepsRowOK` is the lemma that matters: a
commit leaves the others in progress what they rely on. That no request becomes a
straggler of a read-only conversation needs no more than the trigger
(`FlushRequiresWritable`), and that a straggler stays one of the same conversation while it
waits for the primary key (`PastTriggerGoesOn`).

`PlatformProofs` proves, for any sets of workers, companies, invitations and addresses
without `None`, that `Spec` implies `TypeOK`, `OnePendingPerEmail`, `OwnersWereInvited` and
`AcceptedFromPending`. The inductive invariant says of each request what it knows of
the rows it will write. An insertion knows that no pending invitation of its address is left
but those it closes (`InsertOK`): the unique index has compared it with the other
insertions in progress, and nothing makes an old invitation pending again. An acceptance knows that its
row is still as it found it (`AcceptOK`), because it is locked. A request that closes
invitations knows only that they exist (`KnowsOK`) and, once flushed, that it has locked
them, so that no commit decides what an acceptance holds (`Apart`). `RowKept` is the lemma
that matters: a commit leaves the others in progress what they know. `accepted_at` is
never taken back, so that owners and invitations keep agreeing although a revocation can
overwrite the status `accepted`.

`CrmProofs` proves, for any sets of workers, contacts, leads and tasks, that `Spec` implies
`TypeOK`, `StatusWasRecorded` and `ArchivedAtIsFinal`. No request locks anything here, so that all that
a request knows must survive what others commit: that its row exists, and is archived
if it was when it was loaded (`RowOK`). `KeepsRows` says that no commit takes this back.

`RequestsProofs` proves, for any requests (finitely many), tenants, number of events,
connections and threads, the connections no more than the threads, that `Spec` implies
`TypeOK`, `TenantIsolation`, `NoHoldAndWait`, `EmptyPoolIsInUse`, `EventsAreKept` and
`LockHolderFindsThread`. `TenantIsolation` is not inductive: `get_db` sets the
company over what the connection shows, so that the invariant adds that a connection in
the pool shows nothing (`CleanPool`) and that it is in the pool or in the hands of one
request (`PoolInv`); of each request, where its events are (`EventInv`). Each action is a
step of one request, which leaves what is said of the others alone (`StepOfOne`).
`LockHolderFindsThread` is the only one to need `ThreadsAssumption`: the holder of the row
lock (`LockOK`) and those who wait for it have a connection each, so that those who wait are fewer
than the connections (`ThreadIsLeft`, by the pigeonhole principle).

`ArchivedStaysArchived` of `Inbox` is proved only: no run checks it, since it follows from
the trigger of conversations alone.

`LoginLimiterProofs` proves, for finitely many workers, any limit, any window, any delay
shorter than it and any clock, that `Spec` implies `FewAttempts`, `PromiseIsKept` and
`DenialsAreEarned`. The list says less than its length promises: it is cut to its last five,
in an order that is that of the clock but for `Delay`. The inductive invariant says of every window,
shorter by `Delay`, that is not over: the list holds all of its failures, or is full of
failures recorded `Delay` before it begins or later (`Held`). Who is let in has therefore found fewer
failures in it than the limit (`AllowFinds`). Each of those let in before fails once
more at most, so that the failures of the window and the logins that may still record one are
counted together (`FewToCome`), and a login that fails moves from the one set to the other
(`Moves`). What a window held when it ended is kept in `PastWindows`. Of the
promise, the invariant says that it outlasts one of the failures of a full list (`PromiseOK`).

`ListingsProofs` proves, for any table, any writers, any page sizes, any last page and any
clock, that `Spec`
implies `NoRowTwice`, `NoRowMissed` and `LatestIsNotOlder`. Between two pages there is a cut of
the list. A cursor is a key, which cuts the list whatever others do: rows shown are not after it,
stable rows not shown are (`CursorOK`). An offset is a number of rows, so that the invariant
speaks of places: while no row comes or moves, a row shown is at a place below
the offset (`OffsetShown`), as long as it is on a par with no other; while none leaves or moves, and none comes between the count and the page,
a stable row not shown is at the offset or beyond (`OffsetLeft`). Of a page of tasks no more is known than that it holds a row on a par with no other exactly
when its place is in the page (`Page`), so that the invariant leaves the others out. Of a
detail, no row that was counted and is still there is later than the latest, and no inbound row
that was counted, or is the latest, later than the latest inbound one (`DetailOK`). The steps of the
writers are one lemma each, which say what they may do to the reader's list (`Others`); the rest are
facts about places in a finite order (`PlaceOrder`), which is total but for tasks (`TotalOrder`,
`FirstRow`, `LastRow`).

Both modules say with sets and cardinalities what the code says with slices of sorted lists:
a fold or a sort cannot be proved about here. TLC checked the inductive invariants of both
before they were proved.

Only model-checked: `EveryRequestEnds`, since liveness is out of the prover's reach. The two
findings of section 4 are counterexamples of TLC. Every other property of the runs is a
theorem.

## 6. Plan

Done: every module of section 2. What could follow:

1. `AuthSessions`: the sessions of administrators (`platform_login`, their refresh and
   logout), which are like a tenant's without a company.
2. `Crm`: `create_lead_activity` and the activities that assignments record.

## 7. Not modelled

- Attachments and participants: tables that no route writes.
- Schemas: validation without state. What they rule out is a guard where it matters.
- Migrations: they run once, offline; the triggers, functions and indexes that they install
  are in the modules of their tables.
- Seeds and scripts: run by hand on an idle database.
- The frontend: its proxies forward requests and cookies and keep no state, its pages
  render. That proxies do not combine concurrent refreshes is why `AuthSessions` lets clients
  present one token several times.
- Token cryptography, password hashing, configuration: functions of libraries.
- The row-level security policies, and the matrix of permissions, which is data.
- Slugs, administrators' sessions and mail of the platform.
