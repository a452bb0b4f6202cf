------------------------------- MODULE Inbox -------------------------------
(***************************************************************************)
(* The Inbox: conversations and their messages, changed by HTTP requests   *)
(* that the server runs concurrently.                                      *)
(*                                                                         *)
(* get_db gives a request one transaction at READ COMMITTED.  The request  *)
(* loads ORM rows with plain SELECTs, decides in Python on what it loaded, *)
(* flushes UPDATEs and INSERTs, and commits.  Between two of these steps   *)
(* other requests run: what a service checks is the row as it was loaded,  *)
(* and what an UPDATE changes is the latest committed row, of which it     *)
(* writes only the columns that the request changed.  An UPDATE waits for  *)
(* the row lock, held until the end of the transaction that wrote it;      *)
(* the BEFORE triggers see the latest row.                                 *)
(***************************************************************************)
EXTENDS Naturals, FiniteSets

CONSTANTS
    Workers,        \* the threads that serve requests, one request at a time
    Conversations,  \* identifiers of conversations
    Messages,       \* identifiers of messages
    ExternalIds,    \* provider identifiers of inbound messages
    Settings,       \* columns subject, priority, human_takeover, assignee
    Values,         \* the values of these columns
    Routes,         \* the routes that clients call
    None            \* SQL NULL

ASSUME RowsAssumption == IsFiniteSet(Messages)
EventKind == {"message_sent", "archived"}

ASSUME NoneAssumption ==
    None \notin Conversations \union Messages \union ExternalIds \union EventKind

VARIABLES
    conv,    \* committed rows of the table conversations
    msg,     \* committed rows of messages, system events aside
    events,  \* committed system events that the properties tell apart
    req      \* what each worker's transaction has loaded and written

vars == <<conv, msg, events, req>>

ConversationStatus ==
    {"open", "pending", "waiting_customer", "waiting_internal", "resolved",
     "closed", "archived"}

MessageStatus ==
    {"draft", "queued", "sent", "delivered", "read", "failed", "received"}

Body == SUBSET {"text", "html"}    \* which of body_text, body_html is not NULL

\* A timestamp column is abstracted to "is not NULL"; "absent" is no row.
ConversationRow ==
    [status: ConversationStatus \union {"absent"},
     resolved_at: BOOLEAN, closed_at: BOOLEAN, archived_at: BOOLEAN,
     unread_count: Nat, settings: [Settings -> Values \union {None}]]

MessageRow ==
    [status: MessageStatus \union {"absent"},
     conversation: Conversations \union {None}, body: Body,
     external: ExternalIds \union {None}, discarded_at: BOOLEAN]

Transaction ==
    [phase: {"idle", "message", "loaded", "flushed"},
     c: Conversations \union {None}, m: Messages \union {None},
     conv: ConversationRow, msg: MessageRow,
     writes: SUBSET {"conversation", "message"},
     event: EventKind \union {None}]

NoConversation ==
    [status |-> "absent", resolved_at |-> FALSE, closed_at |-> FALSE,
     archived_at |-> FALSE, unread_count |-> 0, settings |-> [s \in Settings |-> None]]

NoMessage ==
    [status |-> "absent", conversation |-> None, body |-> {},
     external |-> None, discarded_at |-> FALSE]

Idle ==
    [phase |-> "idle", c |-> None, m |-> None, conv |-> NoConversation,
     msg |-> NoMessage, writes |-> {}, event |-> None]

Init ==
    /\ conv = [c \in Conversations |-> NoConversation]
    /\ msg = [m \in Messages |-> NoMessage]
    /\ events = [c \in Conversations |-> [k \in EventKind |-> 0]]
    /\ req = [w \in Workers |-> Idle]

-----------------------------------------------------------------------------
(* The rules of the services, evaluated on the rows a request has loaded.   *)

EnsureWritable(row) == row.status \notin {"closed", "archived"} /\ ~row.archived_at

AllowedTransitions ==
    [s \in ConversationStatus |->
        CASE s = "open" -> {"pending", "waiting_customer", "waiting_internal", "resolved"}
          [] s = "pending" -> {"open", "resolved"}
          [] s \in {"waiting_customer", "waiting_internal"} -> {"open"}
          [] s = "resolved" -> {"open", "closed"}
          [] s \in {"closed", "archived"} -> {}]

AllowedMessageTransitions ==
    [s \in MessageStatus |->
        CASE s = "draft" -> {"queued", "failed"}
          [] s = "queued" -> {"sent", "failed"}
          [] s = "sent" -> {"delivered"}
          [] s = "delivered" -> {"read"}
          [] s \in {"read", "failed", "received"} -> {}]

EnsureDraft(row) == row.status = "draft" /\ ~row.discarded_at

ValidateContent(row) == row.body # {}

-----------------------------------------------------------------------------
(* The BEFORE triggers, evaluated on the rows of the database.              *)

RequireWritable(row) == row.status \notin {"closed", "archived"} /\ ~row.archived_at

\* Mutant: a trigger that forgets closed rows.
LifecycleOfArchivedOnly(old, new, others) == old.status # "archived" /\ ~old.archived_at

\* "others" says that a column outside this model changes (last_message_at).
EnforceConversationLifecycle(old, new, others) ==
    /\ old.status # "archived" /\ ~old.archived_at
    /\ old.status = "closed" =>
          /\ new.status \notin {"closed", "archived"}
          /\ ~others
          /\ new = [old EXCEPT !.status = new.status,
                               !.closed_at = new.closed_at,
                               !.resolved_at = new.resolved_at]

\* Mutants: a trigger that accepts an unchanged status, one that only protects
\* discarded drafts.
SameStatusIsAccepted(old, new) ==
    /\ ~old.discarded_at
    /\ \/ new.status = old.status
       \/ <<old.status, new.status>> \in {<<"draft", "queued">>, <<"queued", "sent">>}

DiscardIsFinal(old, new) == ~old.discarded_at

EnforceMessageLifecycle(old, new) ==
    /\ ~old.discarded_at
    /\ IF new.discarded_at
       THEN old.status = "draft" /\ new = [old EXCEPT !.discarded_at = TRUE]
       ELSE \/ old.status = "draft" /\ new = [old EXCEPT !.body = new.body]
            \/ /\ <<old.status, new.status>> \in
                     {<<"draft", "queued">>, <<"draft", "failed">>,
                      <<"queued", "failed">>, <<"queued", "sent">>,
                      <<"sent", "delivered">>, <<"delivered", "read">>}
               /\ new = [old EXCEPT !.status = new.status]

\* Mutant: events of archived conversations are accepted.
AcceptsEventUnlessClosed(row) == row.status # "closed"

\* A system event: last_message_at of its conversation is updated and a row
\* inserted, both under the triggers.
AcceptsEvent(row) ==
    EnforceConversationLifecycle(row, row, TRUE) /\ RequireWritable(row)

-----------------------------------------------------------------------------
(* Transactions.                                                            *)

Locks(w, c) == "conversation" \in req[w].writes /\ req[w].c = c

\* No transaction in progress has written the row: an UPDATE need not wait.
ConversationFree(c) == \A w \in Workers : ~Locks(w, c)

MessageFree(m) == \A w \in Workers : ~("message" \in req[w].writes /\ req[w].m = m)

\* Mutant: a SELECT for the external id instead of the unique index.
ExternalNotSeen(x) == x # None => \A m \in Messages : msg[m].external # x

\* The unique index on external_message_id: no committed row holds x, and no
\* INSERT in progress, for whose end this one would wait.
ExternalFree(x) ==
    x # None => /\ \A m \in Messages : msg[m].external # x
                /\ \A w \in Workers : "message" \in req[w].writes => req[w].msg.external # x

\* An ORM column set to NULL: the UPDATE writes it only if it was loaded set.
Cleared(seen, current) == current /\ ~seen

Flush(w, m, conversationRow, messageRow, writes, event) ==
    /\ req' = [req EXCEPT ![w] =
          [phase |-> "flushed", c |-> @.c, m |-> m, conv |-> conversationRow,
           msg |-> messageRow, writes |-> writes, event |-> event]]
    /\ UNCHANGED <<conv, msg, events>>

FlushConversation(w, row, event) ==
    Flush(w, None, row, NoMessage, {"conversation"}, event)

LoadConversation(w, c) ==
    /\ req[w].phase = "idle"
    /\ conv[c].status # "absent"
    /\ req' = [req EXCEPT ![w] = [Idle EXCEPT !.phase = "loaded", !.c = c, !.conv = conv[c]]]
    /\ UNCHANGED <<conv, msg, events>>

\* _message_or_404 and _ensure_author: only outbound messages have an author.
LoadMessage(w, m) ==
    /\ req[w].phase = "idle"
    /\ msg[m].status \notin {"absent", "received"} /\ ~msg[m].discarded_at
    /\ req' = [req EXCEPT ![w] = [Idle EXCEPT !.phase = "message", !.m = m, !.msg = msg[m]]]
    /\ UNCHANGED <<conv, msg, events>>

LoadConversationOfMessage(w) ==
    /\ req[w].phase = "message"
    /\ LET c == req[w].msg.conversation
       IN  req' = [req EXCEPT ![w].phase = "loaded", ![w].c = c, ![w].conv = conv[c]]
    /\ UNCHANGED <<conv, msg, events>>

OnConversation(w, route) ==
    route \in Routes /\ req[w].phase = "loaded" /\ req[w].m = None

OnMessage(w, route) ==
    route \in Routes /\ req[w].phase = "loaded" /\ req[w].m # None

-----------------------------------------------------------------------------
(* Routes on a conversation.                                                *)

\* The row is invisible to others until the request commits: one step.
CreateConversation(c, settings) ==
    /\ "create" \in Routes
    /\ conv[c].status = "absent"
    /\ conv' = [conv EXCEPT ![c] = [NoConversation EXCEPT !.status = "open", !.settings = settings]]
    /\ UNCHANGED <<msg, events, req>>

\* resolved_at and closed_at as change_status leaves them.
WithStatus(seen, row, target) ==
    [row EXCEPT !.status = target,
        !.resolved_at = CASE target = "resolved" -> TRUE
                          [] target = "closed" -> @
                          [] OTHER -> Cleared(seen.resolved_at, @),
        !.closed_at = IF target = "closed" THEN TRUE ELSE Cleared(seen.closed_at, @)]

\* The event is flushed before the status, under the triggers.
ChangeStatus(w, target) ==
    LET seen == req[w].conv
        row == conv[req[w].c]
    IN  /\ OnConversation(w, "status")
        /\ EnsureWritable(seen)
        /\ target \in AllowedTransitions[seen.status]
        /\ ConversationFree(req[w].c)
        /\ AcceptsEvent(row)
        /\ EnforceConversationLifecycle(row, WithStatus(seen, row, target), FALSE)
        /\ FlushConversation(w, WithStatus(seen, row, target), None)

\* Mutant: closed_at survives the reopening.
ReopenedKeepingClosedAt(seen, row) ==
    [row EXCEPT !.status = "open", !.resolved_at = Cleared(seen.resolved_at, @)]

\* ConversationService.reopen: status open, both timestamps NULL.
Reopened(seen, row) ==
    [row EXCEPT !.status = "open", !.resolved_at = Cleared(seen.resolved_at, @),
                !.closed_at = Cleared(seen.closed_at, @)]

\* The status is flushed first, then the event.
Reopen(w) ==
    LET seen == req[w].conv
        row == conv[req[w].c]
    IN  /\ OnConversation(w, "reopen")
        /\ seen.status = "closed" /\ ~seen.archived_at
        /\ ConversationFree(req[w].c)
        /\ EnforceConversationLifecycle(row, Reopened(seen, row), FALSE)
        /\ AcceptsEvent(Reopened(seen, row))
        /\ FlushConversation(w, Reopened(seen, row), None)

Archive(w) ==
    LET row == conv[req[w].c]
    IN  /\ OnConversation(w, "archive")
        /\ EnsureWritable(req[w].conv)
        /\ ConversationFree(req[w].c)
        /\ AcceptsEvent(row)
        /\ FlushConversation(w, [row EXCEPT !.status = "archived", !.archived_at = TRUE],
                             "archived")

\* update, change_priority, set_takeover and assign write one column each; all
\* but the first also record an event, which changes no other modelled column.
ChangeSetting(w, s, v) ==
    LET row == conv[req[w].c]
        new == [row EXCEPT !.settings[s] = v]
    IN  /\ OnConversation(w, "settings")
        /\ EnsureWritable(req[w].conv)
        /\ req[w].conv.settings[s] # v
        /\ ConversationFree(req[w].c)
        /\ EnforceConversationLifecycle(row, new, TRUE)
        /\ FlushConversation(w, new, None)

\* Mutant: the counter is decremented rather than reset.
MarkOneRead(w, route, count) ==
    LET row == conv[req[w].c]
    IN  /\ OnConversation(w, route)
        /\ (req[w].conv.unread_count = 0) = (count = 1)
        /\ ConversationFree(req[w].c)
        /\ FlushConversation(w, [row EXCEPT !.unread_count = IF count = 1 THEN 1 ELSE @ - 1], None)

\* mark_read writes 0 unless 0 was loaded; mark_unread writes 1 if it was.
Mark(w, route, count) ==
    LET row == conv[req[w].c]
        new == [row EXCEPT !.unread_count = count]
    IN  /\ OnConversation(w, route)
        /\ EnsureWritable(req[w].conv)
        /\ (req[w].conv.unread_count = 0) = (count = 1)
        /\ ConversationFree(req[w].c)
        /\ EnforceConversationLifecycle(row, new, FALSE)
        /\ FlushConversation(w, new, None)

MarkRead(w) == Mark(w, "mark_read", 0)

MarkUnread(w) == Mark(w, "mark_unread", 1)

-----------------------------------------------------------------------------
(* Routes that insert a message.                                            *)

\* The identifier of a new row is fresh.
Fresh(m) == msg[m].status = "absent" /\ MessageFree(m)

\* Mutant: last_message_at is not written, so that the conversation is not locked.
CreateDraftUnlocked(w, m, body) ==
    LET row == conv[req[w].c]
    IN  /\ OnConversation(w, "draft")
        /\ EnsureWritable(req[w].conv)
        /\ body # {}
        /\ Fresh(m)
        /\ RequireWritable(row)
        /\ Flush(w, m, row,
                 [NoMessage EXCEPT !.status = "draft", !.conversation = req[w].c, !.body = body],
                 {"message"}, None)

\* The conversation's last_message_at is written with the new row, so that the
\* UPDATE locks it even where no modelled column changes.
CreateDraft(w, m, body) ==
    LET row == conv[req[w].c]
    IN  /\ OnConversation(w, "draft")
        /\ EnsureWritable(req[w].conv)
        /\ body # {}
        /\ Fresh(m)
        /\ ConversationFree(req[w].c)
        /\ EnforceConversationLifecycle(row, row, TRUE)
        /\ RequireWritable(row)
        /\ Flush(w, m, row,
                 [NoMessage EXCEPT !.status = "draft", !.conversation = req[w].c, !.body = body],
                 {"conversation", "message"}, None)

\* Mutant: no savepoint, the counter of a refused duplicate is committed.
ReceiveWithoutSavepoint(w, m, external, body) ==
    LET row == conv[req[w].c]
    IN  /\ OnConversation(w, "inbound")
        /\ body # {}
        /\ Fresh(m)
        /\ ConversationFree(req[w].c)
        /\ Flush(w, m, [row EXCEPT !.unread_count = req[w].conv.unread_count + 1],
                 [NoMessage EXCEPT !.status = "received", !.conversation = req[w].c,
                                   !.body = body, !.external = external],
                 IF ExternalFree(external) THEN {"conversation", "message"} ELSE {"conversation"},
                 None)

\* unread_count is computed from the loaded row; a resolved conversation is
\* reopened.  A second message with the same external id fails on the unique
\* index, and the savepoint takes the conversation's UPDATE back with it.
ReceiveInbound(w, m, external, body) ==
    LET seen == req[w].conv
        row == conv[req[w].c]
        new == [(IF seen.status = "resolved" THEN Reopened(seen, row) ELSE row)
                    EXCEPT !.unread_count = seen.unread_count + 1]
    IN  /\ OnConversation(w, "inbound")
        /\ EnsureWritable(seen)
        /\ body # {}
        /\ Fresh(m)
        /\ ConversationFree(req[w].c)
        /\ ExternalFree(external)
        /\ EnforceConversationLifecycle(row, new, TRUE)
        /\ RequireWritable(new)
        /\ Flush(w, m, new,
                 [NoMessage EXCEPT !.status = "received", !.conversation = req[w].c,
                                   !.body = body, !.external = external],
                 {"conversation", "message"}, None)

-----------------------------------------------------------------------------
(* Routes on an outbound message.                                           *)

\* A write of the message row alone: the conversation is only checked.
FlushMessage(w, new) ==
    LET row == msg[req[w].m]
    IN  /\ EnsureWritable(req[w].conv)
        /\ MessageFree(req[w].m)
        /\ RequireWritable(conv[req[w].c])
        /\ EnforceMessageLifecycle(row, new)
        /\ Flush(w, req[w].m, req[w].conv, new, {"message"}, None)

\* The patch sets some of the body columns to NULL and others to a new text.
\* The content is validated on the loaded row with the patch applied.
UpdateDraft(w, cleared, written) ==
    LET seen == req[w].msg
        row == msg[req[w].m]
    IN  /\ OnMessage(w, "update_draft")
        /\ cleared \union written # {} /\ cleared \intersect written = {}
        /\ EnsureDraft(seen)
        /\ ValidateContent([seen EXCEPT !.body = (@ \ cleared) \union written])
        /\ FlushMessage(w, [row EXCEPT !.body = (@ \ (cleared \intersect seen.body)) \union written])

DiscardDraft(w) ==
    /\ OnMessage(w, "discard_draft")
    /\ EnsureDraft(req[w].msg)
    /\ FlushMessage(w, [msg[req[w].m] EXCEPT !.discarded_at = TRUE])

QueueMessage(w) ==
    /\ OnMessage(w, "queue")
    /\ EnsureDraft(req[w].msg)
    /\ ValidateContent(req[w].msg)
    /\ "queued" \in AllowedMessageTransitions[req[w].msg.status]
    /\ FlushMessage(w, [msg[req[w].m] EXCEPT !.status = "queued"])

\* Both rows are written, then the event MESSAGE_SENT.
SendMessage(w) ==
    LET row == msg[req[w].m]
        new == [row EXCEPT !.status = "sent"]
        c == req[w].c
    IN  /\ OnMessage(w, "send")
        /\ EnsureWritable(req[w].conv)
        /\ ~req[w].msg.discarded_at
        /\ "sent" \in AllowedMessageTransitions[req[w].msg.status]
        /\ ConversationFree(c) /\ MessageFree(req[w].m)
        /\ RequireWritable(conv[c])
        /\ EnforceMessageLifecycle(row, new)
        /\ AcceptsEvent(conv[c])
        /\ Flush(w, req[w].m, conv[c], new, {"conversation", "message"}, "message_sent")

-----------------------------------------------------------------------------
(* The end of a request.                                                    *)

Commit(w) ==
    LET t == req[w]
    IN  /\ t.phase = "flushed"
        /\ conv' = IF "conversation" \in t.writes THEN [conv EXCEPT ![t.c] = t.conv] ELSE conv
        /\ msg' = IF "message" \in t.writes THEN [msg EXCEPT ![t.m] = t.msg] ELSE msg
        /\ events' = IF t.event # None THEN [events EXCEPT ![t.c][t.event] = @ + 1] ELSE events
        /\ req' = [req EXCEPT ![w] = Idle]

\* A request that changes nothing: refused by a check or a trigger, with no
\* change to make, or rolled back on an error or by a crash.
Rollback(w) ==
    /\ req[w].phase # "idle"
    /\ req' = [req EXCEPT ![w] = Idle]
    /\ UNCHANGED <<conv, msg, events>>

ConversationRoute(w) ==
    \/ \E target \in ConversationStatus : ChangeStatus(w, target)
    \/ Reopen(w)
    \/ Archive(w)
    \/ \E s \in Settings, v \in Values : ChangeSetting(w, s, v)
    \/ MarkRead(w)
    \/ MarkUnread(w)

InsertRoute(w) ==
    \E m \in Messages, body \in Body :
        \/ CreateDraft(w, m, body)
        \/ \E x \in ExternalIds \union {None} : ReceiveInbound(w, m, x, body)

MessageRoute(w) ==
    \/ \E cleared, written \in Body : UpdateDraft(w, cleared, written)
    \/ DiscardDraft(w)
    \/ QueueMessage(w)
    \/ SendMessage(w)

Step(w) ==
    \/ \E c \in Conversations : LoadConversation(w, c)
    \/ \E m \in Messages : LoadMessage(w, m)
    \/ LoadConversationOfMessage(w)
    \/ ConversationRoute(w)
    \/ InsertRoute(w)
    \/ MessageRoute(w)
    \/ Commit(w)
    \/ Rollback(w)

Next ==
    \/ \E c \in Conversations, s \in [Settings -> Values] : CreateConversation(c, s)
    \/ \E w \in Workers : Step(w)

Spec == Init /\ [][Next]_vars
-----------------------------------------------------------------------------
(* What the Inbox guarantees.                                               *)

Received(c) == {m \in Messages : msg[m].conversation = c /\ msg[m].status = "received"}

Sent(c) == {m \in Messages : msg[m].conversation = c /\ msg[m].status = "sent"}

\* Every variable has the type its table declares.
TypeOK ==
    /\ conv \in [Conversations -> ConversationRow]
    /\ msg \in [Messages -> MessageRow]
    /\ events \in [Conversations -> [EventKind -> Nat]]
    /\ req \in [Workers -> Transaction]

\* change_status, reopen, archive and receive write status and timestamps of
\* the latest row as differences from the row they loaded.  Whatever they
\* interleave with, closed_at is set exactly in status closed, archived_at
\* exactly in status archived, and a resolved row has its resolved_at.
TimestampsMatch(row) ==
    /\ row.closed_at <=> row.status = "closed"
    /\ row.archived_at <=> row.status = "archived"
    /\ row.status = "resolved" => row.resolved_at

TimestampsMatchStatus == \A c \in Conversations : TimestampsMatch(conv[c])

\* A sent message has one MESSAGE_SENT event in its conversation and an event
\* has its message, for double sends and for sends racing close or archive.
OneEventPerSentMessage ==
    \A c \in Conversations : events[c]["message_sent"] = Cardinality(Sent(c))

\* Of two concurrent archive requests one takes effect: an archived
\* conversation has exactly one "Conversation archived" event.
OneArchiveEvent ==
    \A c \in Conversations :
        events[c]["archived"] = IF conv[c].status = "archived" THEN 1 ELSE 0

\* A provider's retry of a message, even concurrent with the first delivery,
\* is never counted again: the counter exceeds the number of messages received
\* by at most the one that mark_unread may add.
RetriesAreNotCounted ==
    \A c \in Conversations : conv[c].unread_count <= Cardinality(Received(c)) + 1

\* The row of an archived conversation never changes again.
ArchivedStaysArchived ==
    [][\A c \in Conversations : conv[c].status = "archived" => conv'[c] = conv[c]]_vars

\* A closed conversation changes only by being reopened to status open, even
\* by requests that loaded it before it was closed.
ClosedOnlyReopens ==
    [][\A c \in Conversations :
        conv[c].status = "closed" /\ conv'[c] # conv[c] =>
            /\ conv'[c].status = "open"
            /\ conv'[c].unread_count = conv[c].unread_count
            /\ conv'[c].settings = conv[c].settings]_vars

\* A new draft or inbound message becomes visible only in a conversation that
\* is neither closed nor archived at that moment.
NoMessageEntersReadOnly ==
    [][\A m \in Messages :
        msg[m].status = "absent" /\ msg'[m].status # "absent" =>
            EnsureWritable(conv[msg'[m].conversation])]_vars

\* Committed messages follow the lifecycle of MessageLifecycle, although every
\* request decides on rows it loaded earlier: an edit and a queue, a discard and a
\* queue or two sends of one message never combine.  (Two edits may, into a body that
\* neither wrote: the lifecycle lets an edit of a draft leave any body.)
visible ==
    [m \in Messages |->
        [state |-> IF msg[m].discarded_at THEN "discarded" ELSE msg[m].status,
         body |-> msg[m].body, conversation |-> msg[m].conversation,
         external |-> msg[m].external]]

Lifecycle == INSTANCE MessageLifecycle WITH Bodies <- Body, message <- visible

ImplementsLifecycle == Lifecycle!Spec

-----------------------------------------------------------------------------
(* What the documentation, or a check of the code, says of every execution  *)
(* and some interleaving of two requests breaks.                            *)

\* "Every inbound message increments unread_count": receive adds one to the
\* value it loaded, so that one of two concurrent messages is not counted.
InboundIncrements ==
    [][\A c \in Conversations :
        Cardinality(Received(c)') > Cardinality(Received(c)) =>
            conv'[c].unread_count = conv[c].unread_count + 1]_vars
=============================================================================
