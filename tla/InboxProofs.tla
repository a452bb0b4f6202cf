---------------------------- MODULE InboxProofs ----------------------------
(***************************************************************************)
(* What the Inbox guarantees, proved for any number of workers,            *)
(* conversations and messages.                                             *)
(*                                                                         *)
(* A request decides on rows it loaded earlier; what makes its writes safe *)
(* is the row lock it holds from the flush to the commit together with the *)
(* triggers, which looked at the row after the lock was taken.  The        *)
(* inductive invariant therefore says, of every transaction in progress,   *)
(* how what it is about to commit relates to the rows as committed now.    *)
(***************************************************************************)
EXTENDS Inbox, TLAPS, FiniteSetTheorems

\* Committed messages: the statuses that are reached, and what goes with each.
MessageRows ==
    \A m \in Messages :
        /\ msg[m].status \in {"absent", "draft", "queued", "sent", "received"}
        /\ msg[m].status = "absent" => msg[m] = NoMessage
        /\ msg[m].status # "absent" =>
              /\ msg[m].conversation # None
              /\ conv[msg[m].conversation].status # "absent"
        /\ msg[m].status # "received" => msg[m].external = None
        /\ msg[m].discarded_at => msg[m].status = "draft"

\* What a request has loaded: stale, but of rows that exist.
Loaded(w) ==
    LET t == req[w]
    IN  /\ t.phase # "flushed" => t.writes = {} /\ t.event = None
        /\ t.phase = "message" => t.m # None
        /\ t.phase \in {"loaded", "flushed"} =>
              t.c # None /\ conv[t.c].status # "absent"
        /\ t.phase = "loaded" =>
              t.conv.status # "absent" /\ TimestampsMatch(t.conv)
        /\ t.phase \in {"message", "loaded"} /\ t.m # None =>
              /\ msg[t.m].status \notin {"absent", "received"}
              /\ t.msg.conversation = msg[t.m].conversation
              /\ t.phase = "loaded" => t.c = t.msg.conversation

\* A conversation about to be committed, against the row as committed now.
PendingConversation(w) ==
    LET t == req[w]
    IN  /\ "conversation" \in t.writes =>
              /\ t.conv.status # "absent"
              /\ TimestampsMatch(t.conv)
              /\ conv[t.c].status # "archived"
              /\ conv[t.c].status = "closed" =>
                    /\ t.conv.status = "open"
                    /\ t.conv.unread_count = conv[t.c].unread_count
                    /\ t.conv.settings = conv[t.c].settings
              /\ t.event = "archived" <=> t.conv.status = "archived"
        /\ "conversation" \notin t.writes => t.event = None

\* A message about to be inserted.
PendingInsert(w) ==
    LET t == req[w]
    IN  /\ msg[t.m].status = "absent"
        /\ "conversation" \in t.writes
        /\ EnsureWritable(conv[t.c])
        /\ t.msg.conversation = t.c
        /\ t.msg.status \in {"draft", "received"}
        /\ t.msg.status = "draft" => t.msg.external = None
        /\ ~t.msg.discarded_at
        /\ t.event = None

\* A message about to be changed.
PendingUpdate(w) ==
    LET t == req[w]
    IN  /\ msg[t.m].status # "absent"
        /\ msg[t.m].conversation = t.c
        /\ EnforceMessageLifecycle(msg[t.m], t.msg)
        /\ t.msg.status \in {"draft", "queued", "sent"}
        /\ t.event = "message_sent" <=> t.msg.status = "sent"

PendingMessage(w) ==
    LET t == req[w]
    IN  IF "message" \in t.writes
        THEN /\ t.m # None
             /\ PendingInsert(w) \/ PendingUpdate(w)
        ELSE t.event # "message_sent"

\* Row locks, and the entries of the unique index, have one holder.
Exclusive ==
    \A v, w \in Workers : v # w =>
        /\ "conversation" \in req[v].writes /\ "conversation" \in req[w].writes =>
              req[v].c # req[w].c
        /\ "message" \in req[v].writes /\ "message" \in req[w].writes =>
              /\ req[v].m # req[w].m
              /\ req[v].msg.external # None => req[v].msg.external # req[w].msg.external

FreshExternal(w) ==
    "message" \in req[w].writes /\ req[w].msg.external # None =>
        \A m \in Messages : msg[m].external # req[w].msg.external

Inv ==
    /\ TypeOK
    /\ TimestampsMatchStatus
    /\ OneArchiveEvent
    /\ OneEventPerSentMessage
    /\ MessageRows
    /\ Exclusive
    /\ \A w \in Workers :
          Loaded(w) /\ PendingConversation(w) /\ PendingMessage(w) /\ FreshExternal(w)

-----------------------------------------------------------------------------
(* Typing.                                                                  *)

LEMMA TypedRows ==
    ASSUME TypeOK
    PROVE  /\ \A c \in Conversations : conv[c] \in ConversationRow
           /\ \A m \in Messages : msg[m] \in MessageRow
           /\ \A w \in Workers : req[w] \in Transaction
    BY DEF TypeOK

LEMMA IdleTransaction == Idle \in Transaction
<1>1. NoConversation \in ConversationRow
    BY DEF NoConversation, ConversationRow
<1>2. NoMessage \in MessageRow
    BY DEF NoMessage, MessageRow, Body
<1>3. QED
    BY <1>1, <1>2 DEF Idle, Transaction

LEMMA RowWith ==
    ASSUME NEW seen \in ConversationRow, NEW row \in ConversationRow,
           NEW target \in ConversationStatus
    PROVE  /\ WithStatus(seen, row, target) \in ConversationRow
           /\ WithStatus(seen, row, target).status = target
           /\ WithStatus(seen, row, target).archived_at = row.archived_at
           /\ WithStatus(seen, row, target).closed_at
                 <=> target = "closed" \/ (row.closed_at /\ ~seen.closed_at)
           /\ target = "resolved" => WithStatus(seen, row, target).resolved_at
    BY DEF WithStatus, Cleared, ConversationRow

LEMMA RowReopened ==
    ASSUME NEW seen \in ConversationRow, NEW row \in ConversationRow
    PROVE  /\ Reopened(seen, row) \in ConversationRow
           /\ Reopened(seen, row).status = "open"
           /\ Reopened(seen, row).archived_at = row.archived_at
           /\ Reopened(seen, row).closed_at <=> row.closed_at /\ ~seen.closed_at
           /\ Reopened(seen, row).unread_count = row.unread_count
           /\ Reopened(seen, row).settings = row.settings
    BY DEF Reopened, Cleared, ConversationRow, ConversationStatus

-----------------------------------------------------------------------------
(* Steps that change one worker's transaction and no committed row.         *)

\* Nobody else holds a lock that transaction t is to hold.
Unlocked(w, t) ==
    \A v \in Workers \ {w} :
        /\ "conversation" \in t.writes => ~Locks(v, t.c)
        /\ "message" \in t.writes /\ "message" \in req[v].writes =>
              /\ req[v].m # t.m
              /\ t.msg.external # None => req[v].msg.external # t.msg.external

LEMMA LocalStep ==
    ASSUME Inv, NEW w \in Workers, NEW t \in Transaction,
           req' = [req EXCEPT ![w] = t], UNCHANGED <<conv, msg, events>>,
           (Loaded(w) /\ PendingConversation(w) /\ PendingMessage(w) /\ FreshExternal(w))',
           Unlocked(w, t)
    PROVE  Inv'
<1>1. \A v \in Workers \ {w} : req'[v] = req[v]
    BY DEF Inv, TypeOK
<1>2. req'[w] = t
    BY DEF Inv, TypeOK
<1>3. TypeOK'
    BY DEF Inv, TypeOK
<1>4. TimestampsMatchStatus' /\ OneArchiveEvent' /\ OneEventPerSentMessage' /\ MessageRows'
    BY DEF Inv, TimestampsMatchStatus, OneArchiveEvent, OneEventPerSentMessage, Sent, MessageRows
<1>5. Exclusive'
    BY <1>1, <1>2 DEF Inv, Exclusive, Unlocked, Locks
<1>6. ASSUME NEW v \in Workers
      PROVE  (Loaded(v) /\ PendingConversation(v) /\ PendingMessage(v) /\ FreshExternal(v))'
    <2>1. CASE v = w
        BY <2>1
    <2>2. CASE v # w
        <3>1. req'[v] = req[v] /\ conv' = conv /\ msg' = msg
            BY <1>1, <2>2
        <3>2. Loaded(v) /\ PendingConversation(v) /\ PendingMessage(v) /\ FreshExternal(v)
            BY DEF Inv
        <3>3. QED
            BY <3>1, <3>2 DEF Loaded, PendingConversation, PendingMessage, PendingInsert,
                              PendingUpdate, FreshExternal
    <2>3. QED
        BY <2>1, <2>2
<1>7. QED
    BY <1>3, <1>4, <1>5, <1>6 DEF Inv

-----------------------------------------------------------------------------
(* Flushes.                                                                 *)

LEMMA FlushTransaction ==
    ASSUME TypeOK, NEW w \in Workers, NEW m \in Messages \union {None},
           NEW row \in ConversationRow, NEW message \in MessageRow,
           NEW writes \in SUBSET {"conversation", "message"},
           NEW event \in EventKind \union {None},
           Flush(w, m, row, message, writes, event)
    PROVE  LET t == [phase |-> "flushed", c |-> req[w].c, m |-> m, conv |-> row,
                     msg |-> message, writes |-> writes, event |-> event]
           IN  /\ t \in Transaction
               /\ req' = [req EXCEPT ![w] = t]
               /\ req'[w] = t
               /\ UNCHANGED <<conv, msg, events>>
<1> DEFINE t == [phase |-> "flushed", c |-> req[w].c, m |-> m, conv |-> row,
                 msg |-> message, writes |-> writes, event |-> event]
<1>1. req[w] \in Transaction
    BY DEF TypeOK
<1>2. t \in Transaction
    BY <1>1 DEF Transaction
<1>3. req' = [req EXCEPT ![w] = t]
    BY DEF Flush, TypeOK
<1>4. QED
    BY <1>2, <1>3 DEF Flush, TypeOK

\* A flush of the conversation alone.
LEMMA ConversationFlush ==
    ASSUME Inv, NEW w \in Workers, NEW row \in ConversationRow,
           NEW event \in {"archived", None},
           req[w].phase = "loaded",
           ConversationFree(req[w].c),
           FlushConversation(w, row, event),
           row.status # "absent",
           TimestampsMatch(row),
           event = "archived" <=> row.status = "archived",
           LET old == conv[req[w].c]
           IN  /\ old.status # "archived"
               /\ old.status = "closed" =>
                     /\ row.status = "open"
                     /\ row.unread_count = old.unread_count
                     /\ row.settings = old.settings
    PROVE  Inv'
<1> DEFINE t == [phase |-> "flushed", c |-> req[w].c, m |-> None, conv |-> row,
                 msg |-> NoMessage, writes |-> {"conversation"}, event |-> event]
<1>1. NoMessage \in MessageRow
    BY IdleTransaction DEF Idle, Transaction
<1>2. /\ t \in Transaction
      /\ req' = [req EXCEPT ![w] = t]
      /\ req'[w] = t
      /\ UNCHANGED <<conv, msg, events>>
    <2>1. TypeOK /\ event \in EventKind \union {None}
        BY DEF Inv, EventKind
    <2>2. Flush(w, None, row, NoMessage, {"conversation"}, event)
        BY DEF FlushConversation
    <2>3. QED
        BY <1>1, <2>1, <2>2, FlushTransaction
<1>3. Loaded(w) /\ t.c = req[w].c
    BY DEF Inv
<1>4. Loaded(w)'
    BY <1>2, <1>3 DEF Loaded
<1>5. PendingConversation(w)'
    BY <1>2 DEF PendingConversation, TimestampsMatch
<1>6. PendingMessage(w)' /\ FreshExternal(w)'
    BY <1>2, NoneAssumption DEF PendingMessage, FreshExternal, EventKind
<1>7. Unlocked(w, t)
    BY DEF Unlocked, ConversationFree
<1>8. QED
    BY <1>2, <1>4, <1>5, <1>6, <1>7, LocalStep

\* A flush of an existing message alone.
LEMMA MessageFlush ==
    ASSUME Inv, NEW w \in Workers, NEW new \in MessageRow,
           req[w].phase = "loaded", req[w].m # None,
           FlushMessage(w, new),
           new.status \in {"draft", "queued"}
    PROVE  Inv'
<1> DEFINE t == [phase |-> "flushed", c |-> req[w].c, m |-> req[w].m, conv |-> req[w].conv,
                 msg |-> new, writes |-> {"message"}, event |-> None]
<1>1. req[w] \in Transaction /\ TypeOK /\ req[w].m \in Messages
    BY TypedRows DEF Inv, Transaction
<1>2. /\ t \in Transaction
      /\ req' = [req EXCEPT ![w] = t]
      /\ req'[w] = t
      /\ UNCHANGED <<conv, msg, events>>
    <2>1. Flush(w, req[w].m, req[w].conv, new, {"message"}, None)
        BY DEF FlushMessage
    <2>2. req[w].conv \in ConversationRow
        BY <1>1 DEF Transaction
    <2>3. QED
        BY <1>1, <2>1, <2>2, FlushTransaction
<1>3. Loaded(w)
    BY DEF Inv
<1>4. Loaded(w)'
    BY <1>2, <1>3 DEF Loaded
<1>5. PendingConversation(w)'
    BY <1>2 DEF PendingConversation
<1>6. EnforceMessageLifecycle(msg[req[w].m], new)
    BY DEF FlushMessage
<1>7. PendingUpdate(w)'
    <2>1. None # "message_sent" /\ new.status # "sent"
        BY NoneAssumption DEF EventKind
    <2>2. /\ msg[req[w].m].status # "absent"
          /\ msg[req[w].m].conversation = req[w].c
        BY <1>3 DEF Loaded
    <2>3. /\ msg'[req'[w].m] = msg[req[w].m]
          /\ req'[w].msg = new /\ req'[w].event = None /\ req'[w].c = req[w].c
        BY <1>2
    <2>4. EnforceMessageLifecycle(msg'[req'[w].m], req'[w].msg)
        BY <1>6, <2>3
    <2>5. QED
        BY <2>1, <2>2, <2>3, <2>4 DEF PendingUpdate, EnforceMessageLifecycle
<1>8. PendingMessage(w)'
    BY <1>2, <1>7 DEF PendingMessage
<1>9. new.external = None
    BY <1>1, <1>3, <1>6 DEF Inv, MessageRows, Loaded, EnforceMessageLifecycle, MessageRow
<1>10. FreshExternal(w)'
    BY <1>2, <1>9 DEF FreshExternal
<1>11. Unlocked(w, t)
    BY <1>9 DEF Unlocked, FlushMessage, MessageFree
<1>12. QED
    BY <1>2, <1>4, <1>5, <1>8, <1>10, <1>11, LocalStep

\* A flush of a new message with its conversation.
LEMMA InsertFlush ==
    ASSUME Inv, NEW w \in Workers, NEW m \in Messages, NEW row \in ConversationRow,
           NEW new \in MessageRow,
           req[w].phase = "loaded",
           Fresh(m),
           ConversationFree(req[w].c),
           ExternalFree(new.external),
           Flush(w, m, row, new, {"conversation", "message"}, None),
           row.status \notin {"absent", "archived"},
           TimestampsMatch(row),
           EnsureWritable(conv[req[w].c]),
           new.conversation = req[w].c,
           new.status \in {"draft", "received"},
           new.status = "draft" => new.external = None,
           ~new.discarded_at
    PROVE  Inv'
<1> DEFINE t == [phase |-> "flushed", c |-> req[w].c, m |-> m, conv |-> row,
                 msg |-> new, writes |-> {"conversation", "message"}, event |-> None]
<1>1. req[w] \in Transaction /\ TypeOK
    BY TypedRows DEF Inv
<1>2. /\ t \in Transaction
      /\ req' = [req EXCEPT ![w] = t]
      /\ req'[w] = t
      /\ UNCHANGED <<conv, msg, events>>
    BY <1>1, FlushTransaction
<1>3. Loaded(w)
    BY DEF Inv
<1>4. Loaded(w)'
    BY <1>2, <1>3 DEF Loaded
<1>5. PendingConversation(w)'
    BY <1>2, NoneAssumption DEF PendingConversation, TimestampsMatch, EnsureWritable, EventKind
<1>6. PendingInsert(w)'
    BY <1>2 DEF PendingInsert, Fresh, EnsureWritable
<1>7. PendingMessage(w)'
    BY <1>2, <1>6, NoneAssumption DEF PendingMessage
<1>8. FreshExternal(w)'
    BY <1>2 DEF FreshExternal, ExternalFree
<1>9. Unlocked(w, t)
    BY DEF Unlocked, ConversationFree, Fresh, MessageFree, ExternalFree
<1>10. QED
    BY <1>2, <1>4, <1>5, <1>7, <1>8, <1>9, LocalStep

-----------------------------------------------------------------------------
(* Loads and rollbacks.                                                     *)

\* A transaction that has written nothing.
LEMMA UnwrittenStep ==
    ASSUME Inv, NEW w \in Workers, NEW t \in Transaction,
           req' = [req EXCEPT ![w] = t], UNCHANGED <<conv, msg, events>>,
           t.writes = {}, t.event = None, t.phase # "flushed",
           Loaded(w)'
    PROVE  Inv'
<1>1. req'[w] = t
    BY DEF Inv, TypeOK
<1>2. (PendingConversation(w) /\ PendingMessage(w) /\ FreshExternal(w))'
    BY <1>1, NoneAssumption DEF PendingConversation, PendingMessage, FreshExternal, EventKind
<1>3. Unlocked(w, t)
    BY DEF Unlocked
<1>4. QED
    BY <1>2, <1>3, LocalStep

LEMMA LoadConversationStep ==
    ASSUME Inv, NEW w \in Workers, NEW c \in Conversations, LoadConversation(w, c)
    PROVE  Inv'
<1> DEFINE t == [Idle EXCEPT !.phase = "loaded", !.c = c, !.conv = conv[c]]
<1>1. conv[c] \in ConversationRow
    BY TypedRows DEF Inv
<1>2. /\ t \in Transaction
      /\ t.phase = "loaded" /\ t.c = c /\ t.m = None /\ t.conv = conv[c]
      /\ t.writes = {} /\ t.event = None
    <2>1. Idle.m = None /\ Idle.writes = {} /\ Idle.event = None
        BY DEF Idle
    <2>2. QED
        BY <1>1, <2>1, IdleTransaction DEF Transaction
<1>3. req' = [req EXCEPT ![w] = t] /\ UNCHANGED <<conv, msg, events>>
    BY DEF LoadConversation
<1>4. req'[w] = t
    BY <1>3 DEF Inv, TypeOK
<1>5. conv[c].status # "absent" /\ TimestampsMatch(conv[c]) /\ c # None
    BY NoneAssumption DEF LoadConversation, Inv, TimestampsMatchStatus
<1> HIDE DEF t
<1>6. Loaded(w)'
    BY <1>2, <1>3, <1>4, <1>5 DEF Loaded, TimestampsMatch
<1>7. QED
    BY <1>2, <1>3, <1>6, UnwrittenStep

LEMMA LoadMessageStep ==
    ASSUME Inv, NEW w \in Workers, NEW m \in Messages, LoadMessage(w, m)
    PROVE  Inv'
<1> DEFINE t == [Idle EXCEPT !.phase = "message", !.m = m, !.msg = msg[m]]
<1>1. msg[m] \in MessageRow
    BY TypedRows DEF Inv
<1>2. /\ t \in Transaction
      /\ t.phase = "message" /\ t.m = m /\ t.msg = msg[m]
      /\ t.writes = {} /\ t.event = None
    <2>1. Idle.writes = {} /\ Idle.event = None
        BY DEF Idle
    <2>2. QED
        BY <1>1, <2>1, IdleTransaction DEF Transaction
<1>3. req' = [req EXCEPT ![w] = t] /\ UNCHANGED <<conv, msg, events>>
    BY DEF LoadMessage
<1>4. req'[w] = t
    BY <1>3 DEF Inv, TypeOK
<1>5. msg[m].status \notin {"absent", "received"} /\ m # None
    BY NoneAssumption DEF LoadMessage
<1> HIDE DEF t
<1>6. Loaded(w)'
    BY <1>2, <1>3, <1>4, <1>5 DEF Loaded
<1>7. QED
    BY <1>2, <1>3, <1>6, UnwrittenStep

LEMMA LoadConversationOfMessageStep ==
    ASSUME Inv, NEW w \in Workers, LoadConversationOfMessage(w)
    PROVE  Inv'
<1> DEFINE c == req[w].msg.conversation
           t == [req[w] EXCEPT !.phase = "loaded", !.c = c, !.conv = conv[c]]
<1>1. req[w] \in Transaction /\ TypeOK
    BY TypedRows DEF Inv
<1>2. /\ req[w].m \in Messages
      /\ msg[req[w].m].status \notin {"absent", "received"}
      /\ c = msg[req[w].m].conversation
      /\ req[w].phase = "message"
      /\ req[w].writes = {} /\ req[w].event = None
    BY <1>1 DEF Inv, Loaded, LoadConversationOfMessage, Transaction
<1>3. c \in Conversations /\ c # None /\ conv[c].status # "absent"
    BY <1>1, <1>2 DEF Inv, MessageRows, Transaction, MessageRow
<1>4. conv[c] \in ConversationRow /\ TimestampsMatch(conv[c])
    BY <1>1, <1>3, TypedRows DEF Inv, TimestampsMatchStatus
<1>5. /\ t \in Transaction
      /\ t.phase = "loaded" /\ t.c = c /\ t.conv = conv[c] /\ t.m = req[w].m
      /\ t.msg = req[w].msg /\ t.msg.conversation = c /\ t.writes = {} /\ t.event = None
    BY <1>1, <1>2, <1>3, <1>4 DEF Transaction
<1>6. req' = [req EXCEPT ![w] = t] /\ UNCHANGED <<conv, msg, events>>
    BY DEF LoadConversationOfMessage
<1>7. req'[w] = t
    BY <1>1, <1>6 DEF TypeOK
<1> HIDE DEF c, t
<1>8. Loaded(w)'
    BY <1>2, <1>3, <1>4, <1>5, <1>6, <1>7 DEF Loaded, TimestampsMatch
<1>9. QED
    BY <1>5, <1>6, <1>8, UnwrittenStep

LEMMA RollbackStep ==
    ASSUME Inv, NEW w \in Workers, Rollback(w)
    PROVE  Inv'
<1>1. req' = [req EXCEPT ![w] = Idle] /\ UNCHANGED <<conv, msg, events>>
    BY DEF Rollback
<1>2. req'[w] = Idle
    BY <1>1 DEF Inv, TypeOK
<1>3. Loaded(w)'
    BY <1>2 DEF Loaded, Idle
<1>4. QED
    BY <1>1, <1>3, IdleTransaction, UnwrittenStep DEF Idle

-----------------------------------------------------------------------------
(* Routes on a conversation.                                                *)

\* What a request that writes its conversation knows of the rows.
LEMMA LoadedRow ==
    ASSUME Inv, NEW w \in Workers, req[w].phase = "loaded"
    PROVE  /\ req[w].c \in Conversations
           /\ req[w].conv \in ConversationRow
           /\ req[w].conv.status # "absent"
           /\ TimestampsMatch(req[w].conv)
           /\ conv[req[w].c] \in ConversationRow
           /\ conv[req[w].c].status # "absent"
           /\ TimestampsMatch(conv[req[w].c])
<1>1. req[w] \in Transaction /\ Loaded(w)
    BY TypedRows DEF Inv
<1>2. req[w].c \in Conversations /\ req[w].conv \in ConversationRow
    BY <1>1 DEF Loaded, Transaction
<1>3. conv[req[w].c] \in ConversationRow /\ TimestampsMatch(conv[req[w].c])
    BY <1>2, TypedRows DEF Inv, TimestampsMatchStatus
<1>4. QED
    BY <1>1, <1>2, <1>3 DEF Loaded

LEMMA NoneIsNoEvent == None # "archived" /\ None # "message_sent"
    BY NoneAssumption DEF EventKind

LEMMA ChangeStatusStep ==
    ASSUME Inv, NEW w \in Workers, NEW target \in ConversationStatus, ChangeStatus(w, target)
    PROVE  Inv'
<1> DEFINE seen == req[w].conv
           row == conv[req[w].c]
           new == WithStatus(seen, row, target)
<1>1. req[w].phase = "loaded"
    BY DEF ChangeStatus, OnConversation
<1>2. /\ row.status \notin {"absent", "archived", "closed"} /\ ~row.archived_at
      /\ seen \in ConversationRow /\ row \in ConversationRow
      /\ TimestampsMatch(row)
    BY <1>1, LoadedRow DEF ChangeStatus, AcceptsEvent, RequireWritable
<1>3. target # "archived" /\ target # "absent"
    <2>1. seen.status \in ConversationStatus
        BY <1>1, LoadedRow DEF ConversationRow
    <2>2. target \in AllowedTransitions[seen.status]
        BY DEF ChangeStatus
    <2>3. QED
        BY <2>1, <2>2 DEF AllowedTransitions, ConversationStatus
<1>4. /\ new \in ConversationRow /\ new.status = target
      /\ TimestampsMatch(new)
    <2> HIDE DEF new, row, seen
    <2>1. /\ new \in ConversationRow /\ new.status = target
          /\ new.archived_at = row.archived_at
          /\ new.closed_at <=> target = "closed" \/ (row.closed_at /\ ~seen.closed_at)
          /\ target = "resolved" => new.resolved_at
        BY <1>2, RowWith DEF new
    <2>2. row.closed_at = FALSE /\ row.archived_at = FALSE
        BY <1>2 DEF TimestampsMatch, ConversationRow
    <2>3. new.closed_at <=> target = "closed"
        BY <2>1, <2>2
    <2>4. QED
        BY <1>3, <2>1, <2>2, <2>3 DEF TimestampsMatch
<1>5. ConversationFree(req[w].c) /\ FlushConversation(w, new, None)
    BY DEF ChangeStatus
<1>6. QED
    BY <1>1, <1>2, <1>3, <1>4, <1>5, NoneIsNoEvent, ConversationFlush

LEMMA ReopenStep ==
    ASSUME Inv, NEW w \in Workers, Reopen(w)
    PROVE  Inv'
<1> DEFINE seen == req[w].conv
           row == conv[req[w].c]
           new == Reopened(seen, row)
<1>1. req[w].phase = "loaded" /\ seen.status = "closed"
    BY DEF Reopen, OnConversation
<1>2. /\ row.status \notin {"absent", "archived"} /\ ~row.archived_at
      /\ seen \in ConversationRow /\ row \in ConversationRow
      /\ seen.closed_at
    BY <1>1, LoadedRow DEF Reopen, EnforceConversationLifecycle, TimestampsMatch
<1>3. /\ new \in ConversationRow /\ new.status = "open" /\ TimestampsMatch(new)
      /\ new.unread_count = row.unread_count /\ new.settings = row.settings
    BY <1>2, RowReopened DEF TimestampsMatch
<1>4. ConversationFree(req[w].c) /\ FlushConversation(w, new, None)
    BY DEF Reopen
<1>5. QED
    BY <1>1, <1>2, <1>3, <1>4, NoneIsNoEvent, ConversationFlush

LEMMA ArchiveStep ==
    ASSUME Inv, NEW w \in Workers, Archive(w)
    PROVE  Inv'
<1> DEFINE row == conv[req[w].c]
           new == [row EXCEPT !.status = "archived", !.archived_at = TRUE]
<1>1. req[w].phase = "loaded"
    BY DEF Archive, OnConversation
<1>2. /\ row.status \notin {"absent", "archived", "closed"}
      /\ row \in ConversationRow /\ TimestampsMatch(row)
    BY <1>1, LoadedRow DEF Archive, AcceptsEvent, RequireWritable
<1>3. new \in ConversationRow /\ new.status = "archived" /\ TimestampsMatch(new)
    BY <1>2 DEF TimestampsMatch, ConversationRow, ConversationStatus
<1>4. ConversationFree(req[w].c) /\ FlushConversation(w, new, "archived")
    BY DEF Archive
<1>5. QED
    BY <1>1, <1>2, <1>3, <1>4, NoneIsNoEvent, ConversationFlush

LEMMA ChangeSettingStep ==
    ASSUME Inv, NEW w \in Workers, NEW s \in Settings, NEW v \in Values,
           ChangeSetting(w, s, v)
    PROVE  Inv'
<1> DEFINE row == conv[req[w].c]
           new == [row EXCEPT !.settings[s] = v]
<1>1. req[w].phase = "loaded"
    BY DEF ChangeSetting, OnConversation
<1>2. /\ row.status \notin {"absent", "archived", "closed"}
      /\ row \in ConversationRow /\ TimestampsMatch(row)
    BY <1>1, LoadedRow DEF ChangeSetting, EnforceConversationLifecycle
<1>3. /\ new \in ConversationRow /\ new.status = row.status /\ TimestampsMatch(new)
    BY <1>2 DEF TimestampsMatch, ConversationRow
<1>4. ConversationFree(req[w].c) /\ FlushConversation(w, new, None)
    BY DEF ChangeSetting
<1>5. QED
    BY <1>1, <1>2, <1>3, <1>4, NoneIsNoEvent, ConversationFlush

LEMMA MarkStep ==
    ASSUME Inv, NEW w \in Workers, NEW route, NEW count \in Nat, Mark(w, route, count)
    PROVE  Inv'
<1> DEFINE row == conv[req[w].c]
           new == [row EXCEPT !.unread_count = count]
<1>1. req[w].phase = "loaded"
    BY DEF Mark, OnConversation
<1>2. row \in ConversationRow /\ TimestampsMatch(row) /\ row.status # "absent"
    BY <1>1, LoadedRow
<1>3. /\ new \in ConversationRow /\ new.status = row.status /\ TimestampsMatch(new)
    BY <1>2 DEF TimestampsMatch, ConversationRow
<1>4. row.status \notin {"archived", "closed"}
    BY <1>3 DEF Mark, EnforceConversationLifecycle
<1>5. ConversationFree(req[w].c) /\ FlushConversation(w, new, None)
    BY DEF Mark
<1>6. QED
    BY <1>1, <1>2, <1>3, <1>4, <1>5, NoneIsNoEvent, ConversationFlush

-----------------------------------------------------------------------------
(* Routes on messages.                                                      *)

LEMMA CreateDraftStep ==
    ASSUME Inv, NEW w \in Workers, NEW m \in Messages, NEW body \in Body, CreateDraft(w, m, body)
    PROVE  Inv'
<1> DEFINE row == conv[req[w].c]
           new == [NoMessage EXCEPT !.status = "draft", !.conversation = req[w].c, !.body = body]
<1>1. req[w].phase = "loaded" /\ Fresh(m) /\ ConversationFree(req[w].c)
    BY DEF CreateDraft, OnConversation
<1>2. /\ EnsureWritable(row) /\ row.status \notin {"absent", "archived"}
      /\ row \in ConversationRow /\ TimestampsMatch(row)
    BY <1>1, LoadedRow DEF CreateDraft, RequireWritable, EnsureWritable
<1>3. /\ new \in MessageRow
      /\ new.status = "draft" /\ new.conversation = req[w].c
      /\ new.external = None /\ ~new.discarded_at
    BY <1>1, LoadedRow DEF NoMessage, MessageRow, MessageStatus
<1>4. Flush(w, m, row, new, {"conversation", "message"}, None) /\ ExternalFree(new.external)
    BY <1>3 DEF CreateDraft, ExternalFree
<1> HIDE DEF new
<1>5. QED
    BY <1>1, <1>2, <1>3, <1>4, InsertFlush

LEMMA ReceiveInboundStep ==
    ASSUME Inv, NEW w \in Workers, NEW m \in Messages, NEW external \in ExternalIds \union {None},
           NEW body \in Body, ReceiveInbound(w, m, external, body)
    PROVE  Inv'
<1> DEFINE seen == req[w].conv
           row == conv[req[w].c]
           reopened == IF seen.status = "resolved" THEN Reopened(seen, row) ELSE row
           new == [reopened EXCEPT !.unread_count = seen.unread_count + 1]
           message == [NoMessage EXCEPT !.status = "received", !.conversation = req[w].c,
                                        !.body = body, !.external = external]
<1>1. req[w].phase = "loaded" /\ Fresh(m) /\ ConversationFree(req[w].c)
    BY DEF ReceiveInbound, OnConversation
<1>2. /\ seen \in ConversationRow /\ row \in ConversationRow
      /\ row.status # "absent" /\ TimestampsMatch(row) /\ TimestampsMatch(seen)
    BY <1>1, LoadedRow
<1>3. /\ EnforceConversationLifecycle(row, new, TRUE)
      /\ Flush(w, m, new, message, {"conversation", "message"}, None)
      /\ ExternalFree(external)
    BY DEF ReceiveInbound
<1>4. row.status \notin {"archived", "closed"} /\ ~row.archived_at
    BY <1>3 DEF EnforceConversationLifecycle
<1>5. /\ reopened \in ConversationRow /\ TimestampsMatch(reopened)
      /\ reopened.status \notin {"absent", "archived"}
    <2>1. CASE seen.status = "resolved"
        BY <1>2, <1>4, <2>1, RowReopened DEF TimestampsMatch
    <2>2. CASE seen.status # "resolved"
        BY <1>2, <1>4, <2>2
    <2>3. QED
        BY <2>1, <2>2
<1>6. seen.unread_count + 1 \in Nat
    BY <1>2 DEF ConversationRow
<1> HIDE DEF reopened
<1>7. /\ new \in ConversationRow /\ TimestampsMatch(new)
      /\ new.status \notin {"absent", "archived"}
    BY <1>5, <1>6 DEF TimestampsMatch, ConversationRow
<1>8. /\ message \in MessageRow
      /\ message.status = "received" /\ message.conversation = req[w].c
      /\ message.external = external /\ ~message.discarded_at
    BY <1>1, LoadedRow DEF NoMessage, MessageRow, MessageStatus
<1>9. EnsureWritable(row)
    BY <1>4 DEF EnsureWritable
<1> HIDE DEF new, message
<1>10. QED
    BY <1>1, <1>3, <1>7, <1>8, <1>9, InsertFlush

\* What a request on a message knows of it.
LEMMA LoadedMessage ==
    ASSUME Inv, NEW w \in Workers, req[w].phase = "loaded", req[w].m # None
    PROVE  /\ req[w].m \in Messages
           /\ req[w].msg \in MessageRow
           /\ msg[req[w].m] \in MessageRow
           /\ msg[req[w].m].status \notin {"absent", "received"}
           /\ msg[req[w].m].conversation = req[w].c
           /\ msg[req[w].m].external = None
<1>1. req[w] \in Transaction /\ Loaded(w)
    BY TypedRows DEF Inv
<1>2. req[w].m \in Messages /\ req[w].msg \in MessageRow
    BY <1>1 DEF Transaction
<1>3. msg[req[w].m] \in MessageRow
    BY <1>2, TypedRows DEF Inv
<1>4. QED
    BY <1>1, <1>2, <1>3 DEF Loaded, Inv, MessageRows

LEMMA UpdateDraftStep ==
    ASSUME Inv, NEW w \in Workers, NEW cleared \in Body, NEW written \in Body,
           UpdateDraft(w, cleared, written)
    PROVE  Inv'
<1> DEFINE row == msg[req[w].m]
           body == (row.body \ (cleared \intersect req[w].msg.body)) \union written
           new == [row EXCEPT !.body = body]
<1>1. req[w].phase = "loaded" /\ req[w].m # None
    BY DEF UpdateDraft, OnMessage
<1>2. row \in MessageRow /\ body \in Body
    BY <1>1, LoadedMessage DEF MessageRow, Body
<1>3. FlushMessage(w, new)
    BY <1>2 DEF UpdateDraft, MessageRow
<1> HIDE DEF body
<1>4. new \in MessageRow /\ new.status = row.status /\ new.discarded_at = row.discarded_at
    BY <1>2 DEF MessageRow
<1>5. row.status \in {"draft", "queued"}
    <2>1. EnforceMessageLifecycle(row, new)
        BY <1>3 DEF FlushMessage
    <2>2. QED
        BY <1>4, <2>1 DEF EnforceMessageLifecycle
<1> HIDE DEF new
<1>6. QED
    BY <1>1, <1>3, <1>4, <1>5, MessageFlush

LEMMA DiscardDraftStep ==
    ASSUME Inv, NEW w \in Workers, DiscardDraft(w)
    PROVE  Inv'
<1> DEFINE row == msg[req[w].m]
           new == [row EXCEPT !.discarded_at = TRUE]
<1>1. req[w].phase = "loaded" /\ req[w].m # None /\ FlushMessage(w, new)
    BY DEF DiscardDraft, OnMessage
<1>2. row \in MessageRow
    BY <1>1, LoadedMessage
<1>3. new \in MessageRow /\ new.status = row.status /\ new.discarded_at
    BY <1>2 DEF MessageRow
<1>4. row.status = "draft"
    BY <1>1, <1>3 DEF FlushMessage, EnforceMessageLifecycle
<1> HIDE DEF new
<1>5. QED
    BY <1>1, <1>3, <1>4, MessageFlush

LEMMA QueueMessageStep ==
    ASSUME Inv, NEW w \in Workers, QueueMessage(w)
    PROVE  Inv'
<1> DEFINE row == msg[req[w].m]
           new == [row EXCEPT !.status = "queued"]
<1>1. req[w].phase = "loaded" /\ req[w].m # None /\ FlushMessage(w, new)
    BY DEF QueueMessage, OnMessage
<1>2. row \in MessageRow
    BY <1>1, LoadedMessage
<1>3. new \in MessageRow /\ new.status = "queued"
    BY <1>2 DEF MessageRow, MessageStatus
<1> HIDE DEF new
<1>4. QED
    BY <1>1, <1>3, MessageFlush

LEMMA SendMessageStep ==
    ASSUME Inv, NEW w \in Workers, SendMessage(w)
    PROVE  Inv'
<1> DEFINE m == req[w].m
           row == conv[req[w].c]
           new == [msg[m] EXCEPT !.status = "sent"]
           t == [phase |-> "flushed", c |-> req[w].c, m |-> m, conv |-> row,
                 msg |-> new, writes |-> {"conversation", "message"},
                 event |-> "message_sent"]
<1>1. /\ req[w].phase = "loaded" /\ m # None
      /\ ConversationFree(req[w].c) /\ MessageFree(m)
      /\ EnforceMessageLifecycle(msg[m], new)
      /\ Flush(w, m, row, new, {"conversation", "message"}, "message_sent")
      /\ row.status \notin {"archived", "closed"}
    BY DEF SendMessage, OnMessage, RequireWritable
<1>2. /\ m \in Messages /\ msg[m] \in MessageRow
      /\ msg[m].status # "absent"
      /\ msg[m].conversation = req[w].c
      /\ msg[m].external = None
    BY <1>1, LoadedMessage
<1>3. row \in ConversationRow /\ TimestampsMatch(row) /\ row.status # "absent"
    BY <1>1, LoadedRow
<1>4. new \in MessageRow /\ new.status = "sent" /\ new.external = None
    BY <1>2 DEF MessageRow, MessageStatus
<1> HIDE DEF m, new, row
<1>5. /\ t \in Transaction
      /\ req' = [req EXCEPT ![w] = t]
      /\ req'[w] = t
      /\ UNCHANGED <<conv, msg, events>>
    <2>1. m \in Messages \union {None} /\ TypeOK /\ "message_sent" \in EventKind \union {None}
        BY <1>2 DEF Inv, EventKind
    <2>2. QED
        BY <1>1, <1>3, <1>4, <2>1, FlushTransaction
<1>6. Loaded(w)'
    <2>1. Loaded(w)
        BY DEF Inv
    <2>2. QED
        BY <1>1, <1>5, <2>1 DEF Loaded
<1>7. PendingConversation(w)'
    <2>1. conv'[req'[w].c] = row /\ req'[w].conv = row /\ req'[w].event = "message_sent"
        BY <1>5 DEF row
    <2>2. QED
        BY <1>1, <1>3, <1>5, <2>1 DEF PendingConversation, TimestampsMatch
<1>8. PendingMessage(w)' /\ FreshExternal(w)'
    <2>1. /\ msg'[req'[w].m] = msg[m] /\ req'[w].msg = new /\ req'[w].m = m
          /\ req'[w].event = "message_sent" /\ req'[w].c = req[w].c
          /\ "message" \in req'[w].writes
        BY <1>5
    <2>2. EnforceMessageLifecycle(msg'[req'[w].m], req'[w].msg)
        BY <1>1, <2>1
    <2>3. PendingUpdate(w)'
        BY <1>2, <1>4, <2>1, <2>2 DEF PendingUpdate, EnforceMessageLifecycle
    <2>4. QED
        BY <1>1, <1>4, <2>1, <2>3 DEF PendingMessage, FreshExternal
<1>9. Unlocked(w, t)
    BY <1>1, <1>4 DEF Unlocked, ConversationFree, MessageFree
<1>10. QED
    BY <1>5, <1>6, <1>7, <1>8, <1>9, LocalStep

-----------------------------------------------------------------------------
(* The commit.                                                              *)

\* What a transaction that has flushed is about to commit, typed.
LEMMA Flushed ==
    ASSUME Inv, NEW w \in Workers, req[w].phase = "flushed"
    PROVE  /\ req[w].c \in Conversations
           /\ req[w].conv \in ConversationRow
           /\ req[w].msg \in MessageRow
           /\ req[w].event \in EventKind \union {None}
           /\ "message" \in req[w].writes => req[w].m \in Messages
<1>1. req[w] \in Transaction /\ Loaded(w) /\ PendingMessage(w)
    BY TypedRows DEF Inv
<1>2. QED
    BY <1>1 DEF Loaded, PendingMessage, Transaction

\* The committed rows after the commit of w.
LEMMA CommittedRows ==
    ASSUME Inv, NEW w \in Workers, Commit(w)
    PROVE  /\ \A c \in Conversations :
                conv'[c] = IF "conversation" \in req[w].writes /\ c = req[w].c
                           THEN req[w].conv ELSE conv[c]
           /\ \A m \in Messages :
                msg'[m] = IF "message" \in req[w].writes /\ m = req[w].m
                          THEN req[w].msg ELSE msg[m]
           /\ \A c \in Conversations, k \in EventKind :
                events'[c][k] = IF c = req[w].c /\ k = req[w].event
                                THEN events[c][k] + 1 ELSE events[c][k]
           /\ req'[w] = Idle
           /\ \A v \in Workers \ {w} : req'[v] = req[v]
<1>1. TypeOK /\ req[w].phase = "flushed"
    BY DEF Inv, Commit
<1>2. req[w].c \in Conversations /\ req[w].event \in EventKind \union {None}
    BY <1>1, Flushed
<1>3. None \notin EventKind
    BY NoneAssumption
<1>4. \A c \in Conversations, k \in EventKind :
          events'[c][k] = IF c = req[w].c /\ k = req[w].event
                          THEN events[c][k] + 1 ELSE events[c][k]
    <2>1. CASE req[w].event = None
        BY <1>3, <2>1 DEF Commit
    <2>2. CASE req[w].event # None
        <3>1. req[w].event \in EventKind
            BY <1>2, <2>2
        <3>2. events' = [events EXCEPT ![req[w].c][req[w].event] = @ + 1]
            BY <2>2 DEF Commit
        <3>3. events \in [Conversations -> [EventKind -> Nat]]
            BY <1>1 DEF TypeOK
        <3>4. QED
            BY <1>2, <3>1, <3>2, <3>3
    <2>3. QED
        BY <2>1, <2>2
<1>5. QED
    BY <1>1, <1>4 DEF Commit, TypeOK

LEMMA CommitTyped ==
    ASSUME Inv, NEW w \in Workers, Commit(w)
    PROVE  TypeOK'
<1>1. TypeOK /\ req[w].phase = "flushed"
    BY DEF Inv, Commit
<1>2. /\ req[w].c \in Conversations /\ req[w].conv \in ConversationRow
      /\ req[w].msg \in MessageRow /\ req[w].event \in EventKind \union {None}
    BY <1>1, Flushed
<1>3. conv' \in [Conversations -> ConversationRow]
    BY <1>1, <1>2 DEF Commit, TypeOK
<1>4. msg' \in [Messages -> MessageRow]
    BY <1>1, <1>2 DEF Commit, TypeOK
<1>5. events' \in [Conversations -> [EventKind -> Nat]]
    <2>1. CASE req[w].event = None
        BY <1>1, <2>1 DEF Commit, TypeOK
    <2>2. CASE req[w].event # None
        <3>1. events' = [events EXCEPT ![req[w].c][req[w].event] = @ + 1]
            BY <2>2 DEF Commit
        <3>2. events \in [Conversations -> [EventKind -> Nat]]
            BY <1>1 DEF TypeOK
        <3>3. QED
            BY <1>2, <2>2, <3>1, <3>2
    <2>3. QED
        BY <2>1, <2>2
<1>6. req' \in [Workers -> Transaction]
    BY <1>1, IdleTransaction DEF Commit, TypeOK
<1>7. QED
    BY <1>3, <1>4, <1>5, <1>6 DEF TypeOK

\* Of a sent message, the commit of its send adds it to Sent and adds its event.
LEMMA CommitEvents ==
    ASSUME Inv, NEW w \in Workers, Commit(w)
    PROVE  OneEventPerSentMessage' /\ OneArchiveEvent'
<1> DEFINE t == req[w]
<1>1. /\ t.phase = "flushed" /\ TypeOK
      /\ Loaded(w) /\ PendingConversation(w) /\ PendingMessage(w) /\ MessageRows
    BY DEF Inv, Commit
<1>2. /\ t.c \in Conversations /\ t.event \in EventKind \union {None}
      /\ "message" \in t.writes => t.m \in Messages
    BY <1>1, Flushed
<1>3. /\ \A c \in Conversations :
            conv'[c] = IF "conversation" \in t.writes /\ c = t.c THEN t.conv ELSE conv[c]
      /\ \A m \in Messages :
            msg'[m] = IF "message" \in t.writes /\ m = t.m THEN t.msg ELSE msg[m]
      /\ \A c \in Conversations, k \in EventKind :
            events'[c][k] = IF c = t.c /\ k = t.event THEN events[c][k] + 1 ELSE events[c][k]
    BY CommittedRows
<1>4. \A c \in Conversations, k \in EventKind : events[c][k] \in Nat
    BY <1>1 DEF TypeOK
<1>5. "archived" \in EventKind /\ "message_sent" \in EventKind
    BY DEF EventKind
<1> HIDE DEF t
<1>6. OneArchiveEvent'
    <2>1. ASSUME NEW c \in Conversations
          PROVE  events'[c]["archived"] = IF conv'[c].status = "archived" THEN 1 ELSE 0
        <3>1. events[c]["archived"] = IF conv[c].status = "archived" THEN 1 ELSE 0
            BY DEF Inv, OneArchiveEvent
        <3>2. CASE "conversation" \in t.writes /\ c = t.c
            <4>1. /\ conv[c].status # "archived"
                  /\ t.event = "archived" <=> t.conv.status = "archived"
                BY <1>1, <3>2 DEF PendingConversation, t
            <4>2. QED
                BY <1>3, <1>5, <3>1, <3>2, <4>1
        <3>3. CASE ~("conversation" \in t.writes /\ c = t.c)
            <4>1. ~(c = t.c /\ t.event = "archived")
                BY <1>1, <3>3, NoneIsNoEvent DEF PendingConversation, t
            <4>2. QED
                BY <1>3, <1>5, <3>1, <3>3, <4>1
        <3>4. QED
            BY <3>2, <3>3
    <2>2. QED
        BY <2>1 DEF OneArchiveEvent
<1>7. ASSUME NEW c \in Conversations
      PROVE  events'[c]["message_sent"] = Cardinality(Sent(c)')
    <2>1. events[c]["message_sent"] = Cardinality(Sent(c))
        BY DEF Inv, OneEventPerSentMessage
    <2>2. CASE c = t.c /\ t.event = "message_sent"
        <3>1. /\ "message" \in t.writes /\ t.m \in Messages
              /\ PendingUpdate(w)
            BY <1>1, <1>2, <2>2, NoneIsNoEvent DEF PendingMessage, PendingInsert, t
        <3>2. /\ t.msg.status = "sent" /\ msg[t.m].conversation = c
              /\ EnforceMessageLifecycle(msg[t.m], t.msg)
            BY <2>2, <3>1 DEF PendingUpdate, t
        <3>3. msg[t.m] \in MessageRow
            BY <1>1, <3>1, TypedRows
        <3>4. msg[t.m].status = "queued" /\ t.msg.conversation = c
            BY <3>2, <3>3 DEF EnforceMessageLifecycle, MessageRow
        <3>5. t.m \notin Sent(c) /\ Sent(c)' = Sent(c) \union {t.m}
            BY <1>3, <3>1, <3>2, <3>4 DEF Sent
        <3>6. IsFiniteSet(Sent(c))
            BY FS_Subset, RowsAssumption DEF Sent
        <3>7. Cardinality(Sent(c)') = Cardinality(Sent(c)) + 1
            BY <3>5, <3>6, FS_AddElement
        <3>8. QED
            BY <1>3, <1>5, <2>1, <2>2, <3>7
    <2>3. CASE ~(c = t.c /\ t.event = "message_sent")
        <3>1. ASSUME NEW m \in Messages
              PROVE  m \in Sent(c)' <=> m \in Sent(c)
            <4>1. CASE "message" \in t.writes /\ m = t.m
                <5>1. PendingInsert(w) \/ PendingUpdate(w)
                    BY <1>1, <4>1 DEF PendingMessage, t
                <5>2. CASE PendingInsert(w)
                    BY <1>3, <4>1, <5>2 DEF Sent, PendingInsert, t
                <5>3. CASE PendingUpdate(w)
                    <6>1. /\ msg[m].conversation = t.c
                          /\ EnforceMessageLifecycle(msg[m], t.msg)
                          /\ t.msg.status \in {"draft", "queued", "sent"}
                          /\ t.event = "message_sent" <=> t.msg.status = "sent"
                        BY <4>1, <5>3 DEF PendingUpdate, t
                    <6>2. msg[m] \in MessageRow
                        BY <1>1, TypedRows
                    <6>3. t.msg.conversation = t.c /\ msg[m].status # "sent"
                        BY <6>1, <6>2 DEF EnforceMessageLifecycle, MessageRow
                    <6>4. QED
                        BY <1>3, <2>3, <4>1, <6>1, <6>3 DEF Sent
                <5>4. QED
                    BY <5>1, <5>2, <5>3
            <4>2. CASE ~("message" \in t.writes /\ m = t.m)
                BY <1>3, <4>2 DEF Sent
            <4>3. QED
                BY <4>1, <4>2
        <3>2. Sent(c)' = Sent(c)
            BY <3>1 DEF Sent
        <3>3. QED
            BY <1>3, <1>5, <2>1, <2>3, <3>2
    <2>4. QED
        BY <2>2, <2>3
<1>8. QED
    BY <1>6, <1>7 DEF OneEventPerSentMessage

\* The commit of a message: inserted into a conversation that exists, or
\* changed without moving to another one.
LEMMA CommitMessage ==
    ASSUME Inv, NEW w \in Workers, Commit(w), "message" \in req[w].writes
    PROVE  LET old == msg[req[w].m]
               new == req[w].msg
           IN  /\ new.status \in {"draft", "queued", "sent", "received"}
               /\ new.status # "received" => new.external = None
               /\ new.conversation = req[w].c
               /\ new.discarded_at => new.status = "draft"
               /\ old.status # "absent" =>
                     /\ new.conversation = old.conversation
                     /\ old.status # "received" => new.status # "received"
<1> DEFINE old == msg[req[w].m]
           new == req[w].msg
<1>1. /\ req[w].phase = "flushed" /\ TypeOK /\ MessageRows
      /\ PendingInsert(w) \/ PendingUpdate(w)
    BY DEF Inv, Commit, PendingMessage
<1>2. req[w].m \in Messages /\ old \in MessageRow /\ new \in MessageRow
    BY <1>1, Flushed, TypedRows
<1>3. CASE PendingInsert(w)
    BY <1>3 DEF PendingInsert
<1>4. CASE PendingUpdate(w)
    <2>1. /\ old.status # "absent" /\ old.conversation = req[w].c
          /\ EnforceMessageLifecycle(old, new)
          /\ new.status \in {"draft", "queued", "sent"}
        BY <1>4 DEF PendingUpdate
    <2>2. /\ old.status # "received"
          /\ new.conversation = old.conversation /\ new.external = old.external
          /\ new.discarded_at => new.status = "draft"
        BY <1>2, <2>1 DEF EnforceMessageLifecycle, MessageRow
    <2>3. old.external = None
        BY <1>1, <1>2, <2>2 DEF MessageRows
    <2>4. QED
        BY <2>1, <2>2, <2>3
<1>5. QED
    BY <1>1, <1>3, <1>4

LEMMA CommitRows ==
    ASSUME Inv, NEW w \in Workers, Commit(w)
    PROVE  TimestampsMatchStatus' /\ MessageRows'
<1> DEFINE t == req[w]
<1>1. /\ t.phase = "flushed" /\ TypeOK /\ MessageRows
      /\ Loaded(w) /\ PendingConversation(w)
    BY DEF Inv, Commit
<1>2. t.c \in Conversations /\ t.c # None /\ conv[t.c].status # "absent"
    BY <1>1, Flushed DEF Loaded
<1>3. /\ \A c \in Conversations :
            conv'[c] = IF "conversation" \in t.writes /\ c = t.c THEN t.conv ELSE conv[c]
      /\ \A m \in Messages :
            msg'[m] = IF "message" \in t.writes /\ m = t.m THEN t.msg ELSE msg[m]
    BY CommittedRows
<1>4. TimestampsMatchStatus'
    BY <1>1, <1>3 DEF Inv, TimestampsMatchStatus, TimestampsMatch, PendingConversation
<1>5. \A c \in Conversations : conv[c].status # "absent" => conv'[c].status # "absent"
    BY <1>1, <1>3 DEF PendingConversation
<1>6. ASSUME NEW m \in Messages
      PROVE  /\ msg'[m].status \in {"absent", "draft", "queued", "sent", "received"}
             /\ msg'[m].status = "absent" => msg'[m] = NoMessage
             /\ msg'[m].status # "absent" =>
                   /\ msg'[m].conversation # None
                   /\ conv'[msg'[m].conversation].status # "absent"
             /\ msg'[m].status # "received" => msg'[m].external = None
             /\ msg'[m].discarded_at => msg'[m].status = "draft"
    <2>1. CASE "message" \in t.writes /\ m = t.m
        <3>1. msg'[m] = t.msg
            BY <1>3, <2>1
        <3>2. /\ t.msg.status \in {"draft", "queued", "sent", "received"}
              /\ t.msg.status # "received" => t.msg.external = None
              /\ t.msg.conversation = t.c
              /\ t.msg.discarded_at => t.msg.status = "draft"
            BY <2>1, CommitMessage
        <3>3. conv'[t.c].status # "absent"
            BY <1>2, <1>5
        <3> HIDE DEF t
        <3>4. QED
            BY <1>2, <3>1, <3>2, <3>3
    <2>2. CASE ~("message" \in t.writes /\ m = t.m)
        <3>1. msg'[m] = msg[m]
            BY <1>3, <2>2
        <3>2. msg[m].status # "absent" => msg[m].conversation \in Conversations
            BY <1>1, TypedRows DEF MessageRows, MessageRow
        <3>3. QED
            BY <1>1, <1>5, <3>1, <3>2 DEF MessageRows
    <2>3. QED
        BY <2>1, <2>2
<1>7. MessageRows'
    BY <1>6 DEF MessageRows
<1>8. QED
    BY <1>4, <1>7

\* The commit of w leaves what every other transaction knows true.
LEMMA CommitOthers ==
    ASSUME Inv, NEW w \in Workers, Commit(w), NEW v \in Workers, v # w
    PROVE  (Loaded(v) /\ PendingConversation(v) /\ PendingMessage(v) /\ FreshExternal(v))'
<1> DEFINE t == req[w]
           u == req[v]
<1>1. /\ t.phase = "flushed" /\ TypeOK
      /\ PendingConversation(w) /\ PendingMessage(w)
      /\ Loaded(v) /\ PendingConversation(v) /\ PendingMessage(v) /\ FreshExternal(v)
    BY DEF Inv, Commit
<1>2. u \in Transaction /\ t \in Transaction
    BY <1>1, TypedRows
<1>3. /\ \A c \in Conversations :
            conv'[c] = IF "conversation" \in t.writes /\ c = t.c THEN t.conv ELSE conv[c]
      /\ \A m \in Messages :
            msg'[m] = IF "message" \in t.writes /\ m = t.m THEN t.msg ELSE msg[m]
    BY CommittedRows
<1>4. req'[v] = u
    BY CommittedRows
<1>5. /\ "conversation" \in t.writes /\ "conversation" \in u.writes => u.c # t.c
      /\ "message" \in t.writes /\ "message" \in u.writes =>
            /\ u.m # t.m
            /\ u.msg.external # None => u.msg.external # t.msg.external
    BY DEF Inv, Exclusive
<1>6. \A c \in Conversations : conv[c].status # "absent" => conv'[c].status # "absent"
    BY <1>1, <1>3 DEF PendingConversation
<1>7. u.writes # {} => u.phase = "flushed" /\ u.c \in Conversations
    BY <1>1, <1>2 DEF Loaded, Transaction
<1>8. "conversation" \in u.writes => conv'[u.c] = conv[u.c]
    BY <1>3, <1>5, <1>7
<1>9. "message" \in u.writes => u.m \in Messages /\ msg'[u.m] = msg[u.m]
    BY <1>1, <1>2, <1>3, <1>5 DEF PendingMessage, Transaction
<1>10. Loaded(v)'
    <2>1. u.phase \in {"loaded", "flushed"} => conv'[u.c].status # "absent"
        BY <1>1, <1>2, <1>6 DEF Loaded, Transaction
    <2>2. ASSUME u.phase \in {"message", "loaded"}, u.m # None
          PROVE  /\ msg'[u.m].status \notin {"absent", "received"}
                 /\ msg'[u.m].conversation = msg[u.m].conversation
        <3>1. u.m \in Messages /\ msg[u.m].status \notin {"absent", "received"}
            BY <1>1, <1>2, <2>2 DEF Loaded, Transaction
        <3>2. CASE "message" \in t.writes /\ u.m = t.m
            <4>1. msg'[u.m] = t.msg
                BY <1>3, <3>1, <3>2
            <4>2. /\ t.msg.status \in {"draft", "queued", "sent", "received"}
                  /\ t.msg.status # "received"
                  /\ t.msg.conversation = msg[u.m].conversation
                BY <3>1, <3>2, CommitMessage
            <4>3. QED
                BY <4>1, <4>2
        <3>3. CASE ~("message" \in t.writes /\ u.m = t.m)
            BY <1>3, <3>1, <3>3
        <3>4. QED
            BY <3>2, <3>3
    <2> HIDE DEF u
    <2>3. Loaded(v) /\ u = req[v]
        BY <1>1 DEF u
    <2>4. QED
        BY <1>4, <2>1, <2>2, <2>3 DEF Loaded
<1>11. PendingConversation(v)'
    <2>1. PendingConversation(v) /\ req'[v] = req[v]
        BY <1>1, <1>4
    <2>2. QED
        BY <1>8, <2>1 DEF PendingConversation
<1>12. PendingMessage(v)'
    <2>1. CASE "message" \in u.writes
        <3>1. req'[v] = req[v] /\ msg'[req[v].m] = msg[req[v].m] /\ req[v].m # None
            BY <1>1, <1>4, <1>9, <2>1 DEF PendingMessage
        <3>2. CASE PendingInsert(v)
            <4>1. conv'[req[v].c] = conv[req[v].c]
                BY <1>8, <3>2 DEF PendingInsert
            <4>2. PendingInsert(v)'
                BY <3>1, <3>2, <4>1 DEF PendingInsert, EnsureWritable
            <4>3. "message" \in req'[v].writes /\ req'[v].m # None
                BY <2>1, <3>1
            <4>4. QED
                BY <4>2, <4>3 DEF PendingMessage
        <3>3. CASE PendingUpdate(v)
            <4>1. EnforceMessageLifecycle(msg'[req'[v].m], req'[v].msg)
                BY <3>1, <3>3 DEF PendingUpdate
            <4>2. PendingUpdate(v)'
                BY <3>1, <3>3, <4>1 DEF PendingUpdate, EnforceMessageLifecycle
            <4>3. "message" \in req'[v].writes /\ req'[v].m # None
                BY <2>1, <3>1
            <4>4. QED
                BY <4>2, <4>3 DEF PendingMessage
        <3>4. QED
            BY <1>1, <2>1, <3>2, <3>3 DEF PendingMessage
    <2>2. CASE "message" \notin u.writes
        BY <1>1, <1>4, <2>2 DEF PendingMessage
    <2>3. QED
        BY <2>1, <2>2
<1>13. FreshExternal(v)'
    BY <1>1, <1>3, <1>4, <1>5 DEF FreshExternal
<1>14. QED
    BY <1>10, <1>11, <1>12, <1>13

LEMMA CommitStep ==
    ASSUME Inv, NEW w \in Workers, Commit(w)
    PROVE  Inv'
<1>1. TypeOK' /\ TimestampsMatchStatus' /\ MessageRows'
    BY CommitTyped, CommitRows
<1>2. OneEventPerSentMessage' /\ OneArchiveEvent'
    BY CommitEvents
<1>3. req'[w] = Idle /\ \A v \in Workers \ {w} : req'[v] = req[v]
    BY CommittedRows
<1>4. Exclusive'
    BY <1>3 DEF Inv, Exclusive, Idle
<1>5. (Loaded(w) /\ PendingConversation(w) /\ PendingMessage(w) /\ FreshExternal(w))'
    BY <1>3, NoneIsNoEvent
       DEF Loaded, PendingConversation, PendingMessage, FreshExternal, Idle
<1>6. \A v \in Workers :
          (Loaded(v) /\ PendingConversation(v) /\ PendingMessage(v) /\ FreshExternal(v))'
    BY <1>5, CommitOthers
<1>7. QED
    BY <1>1, <1>2, <1>4, <1>6 DEF Inv

-----------------------------------------------------------------------------
(* The invariant.                                                           *)

LEMMA InitInv == Init => Inv
<1> SUFFICES ASSUME Init PROVE Inv
    OBVIOUS
<1>1. TypeOK
    <2>1. NoConversation \in ConversationRow /\ NoMessage \in MessageRow
        BY IdleTransaction DEF Idle, Transaction
    <2>2. QED
        BY <2>1, IdleTransaction DEF Init, TypeOK
<1>2. TimestampsMatchStatus /\ MessageRows
    BY DEF Init, TimestampsMatchStatus, TimestampsMatch, MessageRows, NoConversation, NoMessage
<1>3. OneArchiveEvent
    BY DEF Init, OneArchiveEvent, NoConversation, EventKind
<1>4. OneEventPerSentMessage
    <2>1. \A c \in Conversations : Sent(c) = {}
        BY DEF Init, Sent, NoMessage
    <2>2. QED
        BY <2>1, FS_EmptySet DEF Init, OneEventPerSentMessage, EventKind
<1>5. Exclusive
    BY DEF Init, Exclusive, Idle
<1>6. \A w \in Workers :
          Loaded(w) /\ PendingConversation(w) /\ PendingMessage(w) /\ FreshExternal(w)
    BY NoneIsNoEvent
       DEF Init, Loaded, PendingConversation, PendingMessage, FreshExternal, Idle
<1>7. QED
    BY <1>1, <1>2, <1>3, <1>4, <1>5, <1>6 DEF Inv

LEMMA CreateConversationStep ==
    ASSUME Inv, NEW c \in Conversations, NEW s \in [Settings -> Values],
           CreateConversation(c, s)
    PROVE  Inv'
<1> DEFINE new == [NoConversation EXCEPT !.status = "open", !.settings = s]
<1>1. /\ TypeOK /\ conv[c].status = "absent"
      /\ conv' = [conv EXCEPT ![c] = new] /\ UNCHANGED <<msg, events, req>>
    BY DEF Inv, CreateConversation
<1>2. /\ new \in ConversationRow /\ new.status = "open" /\ TimestampsMatch(new)
    BY DEF NoConversation, ConversationRow, ConversationStatus, TimestampsMatch
<1> HIDE DEF new
<1>3. /\ conv'[c] = new
      /\ \A d \in Conversations \ {c} : conv'[d] = conv[d]
    BY <1>1 DEF TypeOK
<1>4. TypeOK'
    BY <1>1, <1>2 DEF TypeOK
<1>5. TimestampsMatchStatus'
    BY <1>2, <1>3 DEF Inv, TimestampsMatchStatus, TimestampsMatch
<1>6. OneArchiveEvent'
    BY <1>1, <1>2, <1>3 DEF Inv, OneArchiveEvent
<1>7. OneEventPerSentMessage'
    BY <1>1 DEF Inv, OneEventPerSentMessage, Sent
<1>8. MessageRows'
    <2>1. \A m \in Messages : msg[m].status # "absent" => msg[m].conversation \in Conversations
        BY <1>1, TypedRows DEF Inv, MessageRows, MessageRow
    <2>2. QED
        BY <1>1, <1>2, <1>3, <2>1 DEF Inv, MessageRows
<1>9. Exclusive'
    BY <1>1 DEF Inv, Exclusive
<1>10. ASSUME NEW w \in Workers
       PROVE  (Loaded(w) /\ PendingConversation(w) /\ PendingMessage(w) /\ FreshExternal(w))'
    <2>1. /\ req[w] \in Transaction
          /\ Loaded(w) /\ PendingConversation(w) /\ PendingMessage(w) /\ FreshExternal(w)
        BY TypedRows DEF Inv
    <2>2. req[w].phase \in {"loaded", "flushed"} =>
              req[w].c \in Conversations /\ conv'[req[w].c] = conv[req[w].c]
        BY <1>1, <1>3, <2>1 DEF Loaded, Transaction
    <2>3. req[w].writes # {} => conv'[req[w].c] = conv[req[w].c]
        BY <2>1, <2>2 DEF Loaded, Transaction
    <2>4. Loaded(w)'
        BY <1>1, <2>1, <2>2 DEF Loaded
    <2>5. PendingConversation(w)'
        BY <1>1, <2>1, <2>3 DEF PendingConversation
    <2>6. PendingInsert(w) => PendingInsert(w)'
        BY <1>1, <2>3 DEF PendingInsert, EnsureWritable
    <2>7. PendingUpdate(w) => PendingUpdate(w)'
        BY <1>1 DEF PendingUpdate, EnforceMessageLifecycle
    <2>8. PendingMessage(w)' /\ FreshExternal(w)'
        BY <1>1, <2>1, <2>6, <2>7 DEF PendingMessage, FreshExternal
    <2>9. QED
        BY <2>4, <2>5, <2>8
<1>11. QED
    BY <1>4, <1>5, <1>6, <1>7, <1>8, <1>9, <1>10 DEF Inv

LEMMA NextInv == Inv /\ [Next]_vars => Inv'
<1> SUFFICES ASSUME Inv, [Next]_vars PROVE Inv'
    OBVIOUS
<1>1. CASE UNCHANGED vars
    BY <1>1 DEF vars, Inv, TypeOK, TimestampsMatchStatus, OneArchiveEvent,
                OneEventPerSentMessage, Sent, MessageRows, Exclusive, Loaded,
                PendingConversation, PendingMessage, PendingInsert, PendingUpdate, FreshExternal
<1>2. ASSUME NEW c \in Conversations, NEW s \in [Settings -> Values], CreateConversation(c, s)
      PROVE  Inv'
    BY <1>2, CreateConversationStep
<1>3. ASSUME NEW w \in Workers, Step(w)
      PROVE  Inv'
    <2>1. ASSUME NEW c \in Conversations, LoadConversation(w, c)
          PROVE  Inv'
        BY <2>1, LoadConversationStep
    <2>2. ASSUME NEW m \in Messages, LoadMessage(w, m)
          PROVE  Inv'
        BY <2>2, LoadMessageStep
    <2>3. CASE LoadConversationOfMessage(w)
        BY <2>3, LoadConversationOfMessageStep
    <2>4. CASE ConversationRoute(w)
        <3>1. CASE MarkRead(w) \/ MarkUnread(w)
            BY <3>1, MarkStep DEF MarkRead, MarkUnread
        <3>2. QED
            BY <2>4, <3>1, ChangeStatusStep, ReopenStep, ArchiveStep, ChangeSettingStep
               DEF ConversationRoute
    <2>5. CASE InsertRoute(w)
        BY <2>5, CreateDraftStep, ReceiveInboundStep DEF InsertRoute
    <2>6. CASE MessageRoute(w)
        BY <2>6, UpdateDraftStep, DiscardDraftStep, QueueMessageStep, SendMessageStep
           DEF MessageRoute
    <2>7. CASE Commit(w)
        BY <2>7, CommitStep
    <2>8. CASE Rollback(w)
        BY <2>8, RollbackStep
    <2>9. QED
        BY <1>3, <2>1, <2>2, <2>3, <2>4, <2>5, <2>6, <2>7, <2>8 DEF Step
<1>4. QED
    BY <1>1, <1>2, <1>3 DEF Next

\* The inductive invariant of the Inbox.
THEOREM Invariance == Spec => []Inv
    BY InitInv, NextInv, PTL DEF Spec

\* Every variable keeps its type, whatever the requests interleave.
THEOREM TypeCorrectness == Spec => []TypeOK
<1>1. Inv => TypeOK
    BY DEF Inv
<1>2. QED
    BY <1>1, Invariance, PTL

\* Status and timestamps agree in every committed conversation.
THEOREM TimestampsAgree == Spec => []TimestampsMatchStatus
<1>1. Inv => TimestampsMatchStatus
    BY DEF Inv
<1>2. QED
    BY <1>1, Invariance, PTL

\* Sent messages and MESSAGE_SENT events are one to one.
THEOREM EventPerSentMessage == Spec => []OneEventPerSentMessage
<1>1. Inv => OneEventPerSentMessage
    BY DEF Inv
<1>2. QED
    BY <1>1, Invariance, PTL

\* An archived conversation has exactly one archive event.
THEOREM ArchiveEvent == Spec => []OneArchiveEvent
<1>1. Inv => OneArchiveEvent
    BY DEF Inv
<1>2. QED
    BY <1>1, Invariance, PTL

-----------------------------------------------------------------------------
(* What a step may never do.                                                *)

LEMMA CommittedRowsChange ==
    ASSUME [Next]_vars
    PROVE  \/ UNCHANGED <<conv, msg, events>>
           \/ \E c \in Conversations, s \in [Settings -> Values] : CreateConversation(c, s)
           \/ \E w \in Workers : Commit(w)
<1>1. CASE UNCHANGED vars
    BY <1>1 DEF vars
<1>2. ASSUME NEW w \in Workers, Step(w)
      PROVE  UNCHANGED <<conv, msg, events>> \/ Commit(w)
    <2>1. CASE ConversationRoute(w)
        BY <2>1 DEF ConversationRoute, ChangeStatus, Reopen, Archive, ChangeSetting, MarkRead,
                    MarkUnread, Mark, FlushConversation, Flush
    <2>2. CASE InsertRoute(w)
        BY <2>2 DEF InsertRoute, CreateDraft, ReceiveInbound, Flush
    <2>3. CASE MessageRoute(w)
        BY <2>3 DEF MessageRoute, UpdateDraft, DiscardDraft, QueueMessage, SendMessage,
                    FlushMessage, Flush
    <2>4. QED
        BY <1>2, <2>1, <2>2, <2>3
           DEF Step, LoadConversation, LoadMessage, LoadConversationOfMessage, Rollback
<1>3. QED
    BY <1>1, <1>2 DEF Next

\* How a step may change a conversation that exists.
LEMMA ConversationChange ==
    ASSUME Inv, [Next]_vars, NEW c \in Conversations,
           conv[c].status # "absent", conv'[c] # conv[c]
    PROVE  /\ conv[c].status # "archived"
           /\ conv[c].status = "closed" =>
                 /\ conv'[c].status = "open"
                 /\ conv'[c].unread_count = conv[c].unread_count
                 /\ conv'[c].settings = conv[c].settings
<1>1. CASE UNCHANGED <<conv, msg, events>>
    BY <1>1
<1>2. ASSUME NEW d \in Conversations, NEW s \in [Settings -> Values], CreateConversation(d, s)
      PROVE  FALSE
    BY <1>2 DEF CreateConversation, Inv, TypeOK
<1>3. ASSUME NEW w \in Workers, Commit(w)
      PROVE  /\ conv[c].status # "archived"
             /\ conv[c].status = "closed" =>
                   /\ conv'[c].status = "open"
                   /\ conv'[c].unread_count = conv[c].unread_count
                   /\ conv'[c].settings = conv[c].settings
    <2>1. "conversation" \in req[w].writes /\ c = req[w].c /\ conv'[c] = req[w].conv
        BY <1>3, CommittedRows
    <2>2. PendingConversation(w)
        BY DEF Inv
    <2>3. QED
        BY <2>1, <2>2 DEF PendingConversation
<1>4. QED
    BY <1>1, <1>2, <1>3, CommittedRowsChange

\* No interleaving changes the row of an archived conversation.
THEOREM ArchivedRowsStay == Spec => ArchivedStaysArchived
<1>1. Inv /\ [Next]_vars =>
          [\A c \in Conversations : conv[c].status = "archived" => conv'[c] = conv[c]]_vars
    BY ConversationChange
<1>2. QED
    BY <1>1, Invariance, PTL DEF Spec, ArchivedStaysArchived

\* No interleaving changes a closed conversation otherwise than by reopening it.
THEOREM ClosedRowsReopen == Spec => ClosedOnlyReopens
<1> DEFINE A == \A c \in Conversations :
                    conv[c].status = "closed" /\ conv'[c] # conv[c] =>
                        /\ conv'[c].status = "open"
                        /\ conv'[c].unread_count = conv[c].unread_count
                        /\ conv'[c].settings = conv[c].settings
<1>1. Inv /\ [Next]_vars => [A]_vars
    BY ConversationChange
<1>2. QED
    BY <1>1, Invariance, PTL DEF Spec, ClosedOnlyReopens

\* The conversation of a message that becomes visible is writable then.
THEOREM MessagesEnterWritable == Spec => NoMessageEntersReadOnly
<1> DEFINE A == \A m \in Messages :
                    msg[m].status = "absent" /\ msg'[m].status # "absent" =>
                        EnsureWritable(conv[msg'[m].conversation])
<1>1. Inv /\ [Next]_vars => [A]_vars
    <2> SUFFICES ASSUME Inv, [Next]_vars, NEW m \in Messages,
                        msg[m].status = "absent", msg'[m].status # "absent"
                 PROVE  EnsureWritable(conv[msg'[m].conversation])
        OBVIOUS
    <2>1. PICK w \in Workers : Commit(w)
        BY CommittedRowsChange DEF CreateConversation
    <2>2. "message" \in req[w].writes /\ m = req[w].m /\ msg'[m] = req[w].msg
        BY <2>1, CommittedRows
    <2>3. PendingInsert(w)
        BY <2>2 DEF Inv, PendingMessage, PendingUpdate
    <2>4. QED
        BY <2>2, <2>3 DEF PendingInsert
<1>2. QED
    BY <1>1, Invariance, PTL DEF Spec, NoMessageEntersReadOnly

-----------------------------------------------------------------------------
(* The Inbox implements MessageLifecycle.                                   *)

LEMMA InitLifecycle == Init => Lifecycle!Init
    BY DEF Init, Lifecycle!Init, visible, NoMessage

\* A commit of a new message is a Draft or a Receive.
LEMMA InsertLifecycle ==
    ASSUME Inv, NEW w \in Workers, Commit(w), "message" \in req[w].writes, PendingInsert(w)
    PROVE  Lifecycle!Next
<1> DEFINE m == req[w].m
           new == req[w].msg
<1>1. req[w].phase = "flushed" /\ FreshExternal(w)
    BY DEF Inv, Commit
<1>2. /\ m \in Messages /\ new \in MessageRow
      /\ new.conversation = req[w].c /\ req[w].c \in Conversations
      /\ new.status \in {"draft", "received"} /\ ~new.discarded_at
      /\ new.status = "draft" => new.external = None
      /\ msg[m].status = "absent"
    BY <1>1, Flushed DEF PendingInsert
<1>3. \A n \in Messages : msg'[n] = IF n = m THEN new ELSE msg[n]
    BY CommittedRows
<1>4. visible[m].state = "absent"
    BY <1>2 DEF Inv, MessageRows, visible
<1>5. visible' = [visible EXCEPT ![m] =
          [state |-> new.status, body |-> new.body, conversation |-> new.conversation,
           external |-> new.external]]
    BY <1>2, <1>3 DEF visible
<1>6. new.body \in Body /\ new.external \in ExternalIds \union {None}
    BY <1>2 DEF MessageRow
<1>7. CASE new.status = "draft"
    <2>1. Lifecycle!Draft(m, req[w].c, new.body)
        BY <1>2, <1>4, <1>5, <1>7 DEF Lifecycle!Draft
    <2>2. QED
        BY <1>2, <1>6, <2>1 DEF Lifecycle!Next
<1>8. CASE new.status = "received"
    <2>1. new.external # None => \A n \in Messages : visible[n].external # new.external
        BY <1>1 DEF FreshExternal, visible
    <2>2. Lifecycle!Receive(m, req[w].c, new.external, new.body)
        BY <1>2, <1>4, <1>5, <1>8, <2>1 DEF Lifecycle!Receive
    <2>3. QED
        BY <1>2, <1>6, <2>2 DEF Lifecycle!Next
<1>9. QED
    BY <1>2, <1>7, <1>8

\* A commit of a changed message is an Edit, a Discard, a Queue or a Send.
LEMMA UpdateLifecycle ==
    ASSUME Inv, NEW w \in Workers, Commit(w), "message" \in req[w].writes, PendingUpdate(w)
    PROVE  Lifecycle!Next
<1> DEFINE m == req[w].m
           old == msg[m]
           new == req[w].msg
           state == IF new.discarded_at THEN "discarded" ELSE new.status
<1>1. req[w].phase = "flushed" /\ TypeOK
    BY DEF Inv, Commit
<1>2. m \in Messages /\ old \in MessageRow /\ new \in MessageRow
    BY <1>1, Flushed, TypedRows
<1>3. /\ EnforceMessageLifecycle(old, new)
      /\ new.status \in {"draft", "queued", "sent"}
    BY DEF PendingUpdate
<1>4. /\ ~old.discarded_at
      /\ new.conversation = old.conversation /\ new.external = old.external
      /\ \/ old.status = "draft" /\ state = "draft"
         \/ /\ new.body = old.body
            /\ <<old.status, state>> \in
                  {<<"draft", "discarded">>, <<"draft", "queued">>, <<"queued", "sent">>}
    BY <1>2, <1>3 DEF EnforceMessageLifecycle, MessageRow
<1>5. \A n \in Messages : msg'[n] = IF n = m THEN new ELSE msg[n]
    BY CommittedRows
<1>6. /\ visible[m] = [state |-> old.status, body |-> old.body,
                       conversation |-> old.conversation, external |-> old.external]
      /\ visible' = [visible EXCEPT ![m] =
            [state |-> state, body |-> new.body, conversation |-> new.conversation,
             external |-> new.external]]
    BY <1>2, <1>4, <1>5 DEF visible
<1>7. new.body \in Body
    BY <1>2 DEF MessageRow
<1>8. visible[m] \in [state: {old.status}, body: {old.body},
                      conversation: {old.conversation}, external: {old.external}]
    BY <1>6
<1> HIDE DEF m, old, new, state
<1>9. CASE old.status = "draft" /\ state = "draft"
    <2>1. [visible[m] EXCEPT !.body = new.body] =
              [state |-> state, body |-> new.body, conversation |-> new.conversation,
               external |-> new.external]
        BY <1>4, <1>8, <1>9
    <2>2. visible' = [visible EXCEPT ![m].body = new.body]
        BY <1>6, <2>1
    <2>3. Lifecycle!Edit(m, new.body)
        <3>1. visible[m].state = old.status
            BY <1>6
        <3>2. QED
            BY <3>1, <1>9, <2>2 DEF Lifecycle!Edit
    <2>4. QED
        BY <1>2, <1>7, <2>3 DEF Lifecycle!Next
<1>10. ASSUME new.body = old.body,
             <<old.status, state>> \in
                 {<<"draft", "discarded">>, <<"draft", "queued">>, <<"queued", "sent">>}
      PROVE  Lifecycle!Next
    <2>1. [visible[m] EXCEPT !.state = state] =
              [state |-> state, body |-> new.body, conversation |-> new.conversation,
               external |-> new.external]
        BY <1>4, <1>8, <1>10
    <2>2. visible' = [visible EXCEPT ![m].state = state]
        BY <1>6, <2>1
    <2>3. Lifecycle!Become(m, old.status, state)
        <3>1. visible[m].state = old.status
            BY <1>6
        <3>2. QED
            BY <3>1, <2>2 DEF Lifecycle!Become
    <2>4. Lifecycle!Discard(m) \/ Lifecycle!Queue(m) \/ Lifecycle!Send(m)
        BY <1>10, <2>3 DEF Lifecycle!Discard, Lifecycle!Queue, Lifecycle!Send
    <2>5. QED
        BY <1>2, <2>4 DEF Lifecycle!Next
<1>11. QED
    BY <1>4, <1>9, <1>10

\* Every step of the Inbox is a step of MessageLifecycle or a stutter.
LEMMA NextLifecycle == Inv /\ [Next]_vars => [Lifecycle!Next]_visible
<1> SUFFICES ASSUME Inv, [Next]_vars PROVE [Lifecycle!Next]_visible
    OBVIOUS
<1>1. CASE msg' = msg
    BY <1>1 DEF visible
<1>2. ASSUME NEW w \in Workers, Commit(w)
      PROVE  msg' = msg \/ Lifecycle!Next
    <2>1. CASE "message" \in req[w].writes
        <3>1. PendingInsert(w) \/ PendingUpdate(w)
            BY <2>1 DEF Inv, PendingMessage
        <3>2. QED
            BY <1>2, <2>1, <3>1, InsertLifecycle, UpdateLifecycle
    <2>2. CASE "message" \notin req[w].writes
        BY <1>2, <2>2 DEF Commit
    <2>3. QED
        BY <2>1, <2>2
<1>3. QED
    BY <1>1, <1>2, CommittedRowsChange DEF CreateConversation

\* The concurrent requests implement the lifecycle of a message: no stale read
\* and no interleaving is visible in what is committed.
THEOREM LifecycleRefinement == Spec => ImplementsLifecycle
    BY InitLifecycle, NextLifecycle, Invariance, PTL DEF Spec, ImplementsLifecycle, Lifecycle!Spec

-----------------------------------------------------------------------------
(* The unread counter.  receive adds one to the counter that it loaded, not *)
(* to the one that is there.  Received messages are never taken back, so    *)
(* that the counter of a stale row is bounded by the messages received      *)
(* since as well; and the commit that writes the increment inserts a        *)
(* message that was not there.                                              *)

\* The transaction inserts an inbound message.
Delivers(row) == "message" \in row.writes /\ row.msg.status = "received"

\* The counter that a request has loaded, and the one that it is about to commit.
CountOK(row) ==
    /\ row.phase = "loaded" => row.conv.unread_count <= Cardinality(Received(row.c)) + 1
    /\ "conversation" \in row.writes =>
          row.conv.unread_count <= Cardinality(Received(row.c)) + (IF Delivers(row) THEN 2 ELSE 1)

\* The inductive invariant, with that of InboxProofs.
CountInv ==
    /\ Inv
    /\ RetriesAreNotCounted
    /\ \A w \in Workers : CountOK(req[w])

-----------------------------------------------------------------------------
(* Counting.                                                                *)

LEMMA ReceivedFinite ==
    ASSUME NEW c
    PROVE  /\ IsFiniteSet(Received(c)) /\ Cardinality(Received(c)) \in Nat
<1>1. Received(c) \subseteq Messages
  BY DEF Received
<1>2. IsFiniteSet(Received(c))
  BY <1>1, RowsAssumption, FS_Subset
<1> QED
  BY <1>2, FS_CardinalityType

LEMMA IdleCount == CountOK(Idle) /\ CountOK(Idle)'
  BY DEF CountOK, Idle

LEMMA InitCount == Init => CountInv
<1> SUFFICES ASSUME Init  PROVE CountInv
    OBVIOUS
<1>1. Inv
  BY InitInv
<1>2. RetriesAreNotCounted
  <2>1. ASSUME NEW c \in Conversations  PROVE conv[c].unread_count = 0
    BY DEF Init, NoConversation
  <2> QED
    BY <2>1, ReceivedFinite DEF RetriesAreNotCounted
<1>3. \A w \in Workers : CountOK(req[w])
  BY IdleCount DEF Init
<1> QED
  BY <1>1, <1>2, <1>3 DEF CountInv

-----------------------------------------------------------------------------
(* Steps that commit nothing.                                               *)

LEMMA LocalCount ==
    ASSUME CountInv, Inv', NEW w \in Workers, NEW t,
           UNCHANGED <<conv, msg>>, req' = [req EXCEPT ![w] = t], CountOK(t)
    PROVE  CountInv'
<1>1. \A c : Received(c)' = Received(c)
  BY DEF Received
<1>2. RetriesAreNotCounted'
  BY <1>1 DEF CountInv, RetriesAreNotCounted
<1>3. req'[w] = t /\ \A v \in Workers \ {w} : req'[v] = req[v]
  BY DEF CountInv, Inv, TypeOK
<1>4. ASSUME NEW v \in Workers  PROVE CountOK(req[v])'
  <2>1. PICK row : row = req'[v]
    OBVIOUS
  <2>2. CountOK(row)
    BY <1>3, <2>1 DEF CountInv
  <2> QED
    BY <1>1, <2>1, <2>2 DEF CountOK, Delivers
<1> QED
  BY <1>2, <1>4 DEF CountInv

LEMMA LoadConversationCount ==
    ASSUME CountInv, Inv', NEW w \in Workers, NEW c \in Conversations, LoadConversation(w, c)
    PROVE  CountInv'
<1>1. PICK t : t = [Idle EXCEPT !.phase = "loaded", !.c = c, !.conv = conv[c]]
  OBVIOUS
<1>2. t.phase = "loaded" /\ t.c = c /\ t.conv = conv[c] /\ t.writes = {}
  BY <1>1 DEF Idle
<1>3. CountOK(t)
  BY <1>2 DEF CountOK, CountInv, RetriesAreNotCounted
<1> QED
  BY <1>1, <1>3, LocalCount DEF LoadConversation

LEMMA LoadMessageCount ==
    ASSUME CountInv, Inv', NEW w \in Workers, NEW m \in Messages, LoadMessage(w, m)
    PROVE  CountInv'
<1>1. PICK t : t = [Idle EXCEPT !.phase = "message", !.m = m, !.msg = msg[m]]
  OBVIOUS
<1>2. CountOK(t)
  BY <1>1 DEF CountOK, Idle
<1> QED
  BY <1>1, <1>2, LocalCount DEF LoadMessage

LEMMA LoadConversationOfMessageCount ==
    ASSUME CountInv, Inv', NEW w \in Workers, LoadConversationOfMessage(w)
    PROVE  CountInv'
<1>1. PICK r : r = req[w] /\ r \in Transaction /\ r.phase = "message"
  BY TypedRows DEF CountInv, Inv, LoadConversationOfMessage
<1>2. PICK c : c = r.msg.conversation
  OBVIOUS
<1>3. PICK t : t = [r EXCEPT !.phase = "loaded", !.c = c, !.conv = conv[c]]
  OBVIOUS
<1>4. /\ req' = [req EXCEPT ![w] = t] /\ UNCHANGED <<conv, msg>>
  BY <1>1, <1>2, <1>3 DEF LoadConversationOfMessage
<1>5. r.writes = {}
  BY <1>1 DEF CountInv, Inv, Loaded
<1>6. t.phase = "loaded" /\ t.c = c /\ t.conv = conv[c] /\ t.writes = {}
  BY <1>1, <1>3, <1>5 DEF Transaction
<1>7. c \in Conversations
  <2>1. /\ Loaded(w) /\ MessageRows /\ r.m \in Messages \union {None}
        /\ msg \in [Messages -> MessageRow]
    BY <1>1 DEF CountInv, Inv, TypeOK, Transaction
  <2>2. r.m \in Messages /\ msg[r.m].status # "absent" /\ c = msg[r.m].conversation
    BY <1>1, <1>2, <2>1 DEF Loaded
  <2> QED
    BY <2>1, <2>2 DEF MessageRows, MessageRow
<1>8. CountOK(t)
  BY <1>6, <1>7 DEF CountOK, CountInv, RetriesAreNotCounted
<1> QED
  BY <1>4, <1>8, LocalCount

LEMMA RollbackCount ==
    ASSUME CountInv, Inv', NEW w \in Workers, Rollback(w)
    PROVE  CountInv'
  BY IdleCount, LocalCount DEF Rollback

\* A flush of a conversation whose counter is that of the committed row, or at most one.
LEMMA FlushCount ==
    ASSUME CountInv, Inv', NEW w \in Workers, NEW m, NEW row, NEW message, NEW writes, NEW event,
           Flush(w, m, row, message, writes, event),
           "conversation" \in writes =>
               row.unread_count <= Cardinality(Received(req[w].c))
                   + (IF "message" \in writes /\ message.status = "received" THEN 2 ELSE 1)
    PROVE  CountInv'
<1>1. PICK t : t = [phase |-> "flushed", c |-> req[w].c, m |-> m, conv |-> row,
                    msg |-> message, writes |-> writes, event |-> event]
  OBVIOUS
<1>2. /\ t.phase = "flushed" /\ t.c = req[w].c /\ t.conv = row /\ t.msg = message
      /\ t.writes = writes
  BY <1>1
<1>3. req' = [req EXCEPT ![w] = t] /\ UNCHANGED <<conv, msg>>
  BY <1>1 DEF Flush, CountInv, Inv, TypeOK
<1>4. CountOK(t)
  BY <1>2 DEF CountOK, Delivers
<1> QED
  BY <1>3, <1>4, LocalCount

\* A request that has loaded a conversation flushes it with the counter that is there.
LEMMA KeptCount ==
    ASSUME CountInv, Inv', NEW w \in Workers, req[w].phase = "loaded", NEW row, NEW event,
           FlushConversation(w, row, event),
           row.unread_count = conv[req[w].c].unread_count \/ row.unread_count \in {0, 1}
    PROVE  CountInv'
<1>1. req[w].c \in Conversations /\ Cardinality(Received(req[w].c)) \in Nat
  BY LoadedRow, ReceivedFinite DEF CountInv
<1>2. conv[req[w].c].unread_count <= Cardinality(Received(req[w].c)) + 1
  BY <1>1 DEF CountInv, RetriesAreNotCounted
<1>3. row.unread_count <= Cardinality(Received(req[w].c)) + 1
  BY <1>1, <1>2
<1> QED
  BY <1>3, FlushCount DEF FlushConversation

LEMMA ConversationRouteCount ==
    ASSUME CountInv, Inv', NEW w \in Workers, ConversationRoute(w)
    PROVE  CountInv'
<1>1. req[w].phase = "loaded"
  BY DEF ConversationRoute, ChangeStatus, Reopen, Archive, ChangeSetting, MarkRead, MarkUnread,
         Mark, OnConversation
<1>2. PICK row : row = conv[req[w].c] /\ row \in ConversationRow
  BY <1>1, LoadedRow DEF CountInv
<1>3. PICK seen : seen = req[w].conv
  OBVIOUS
<1>4. ASSUME NEW target \in ConversationStatus, ChangeStatus(w, target)  PROVE CountInv'
  <2>1. PICK new : new = WithStatus(seen, row, target)
    OBVIOUS
  <2>2. new.unread_count = row.unread_count
    BY <1>2, <2>1 DEF WithStatus, ConversationRow
  <2> QED
    BY <1>1, <1>2, <1>3, <1>4, <2>1, <2>2, KeptCount DEF ChangeStatus
<1>5. CASE Reopen(w)
  <2>1. PICK new : new = Reopened(seen, row)
    OBVIOUS
  <2>2. new.unread_count = row.unread_count
    BY <1>2, <2>1 DEF Reopened, ConversationRow
  <2> QED
    BY <1>1, <1>2, <1>3, <1>5, <2>1, <2>2, KeptCount DEF Reopen
<1>6. CASE Archive(w)
  <2>1. PICK new : new = [row EXCEPT !.status = "archived", !.archived_at = TRUE]
    OBVIOUS
  <2>2. new.unread_count = row.unread_count
    BY <1>2, <2>1 DEF ConversationRow
  <2> QED
    BY <1>1, <1>2, <1>6, <2>1, <2>2, KeptCount DEF Archive
<1>7. ASSUME NEW s \in Settings, NEW v \in Values, ChangeSetting(w, s, v)  PROVE CountInv'
  <2>1. PICK new : new = [row EXCEPT !.settings[s] = v]
    OBVIOUS
  <2>2. new.unread_count = row.unread_count
    BY <1>2, <2>1 DEF ConversationRow
  <2> QED
    BY <1>1, <1>2, <1>7, <2>1, <2>2, KeptCount DEF ChangeSetting
<1>8. ASSUME NEW route, NEW count \in {0, 1}, Mark(w, route, count)  PROVE CountInv'
  <2>1. PICK new : new = [row EXCEPT !.unread_count = count]
    OBVIOUS
  <2>2. new.unread_count = count
    BY <1>2, <2>1 DEF ConversationRow
  <2> QED
    BY <1>1, <1>2, <1>8, <2>1, <2>2, KeptCount DEF Mark
<1> QED
  BY <1>4, <1>5, <1>6, <1>7, <1>8 DEF ConversationRoute, MarkRead, MarkUnread

LEMMA CreateDraftCount ==
    ASSUME CountInv, Inv', NEW w \in Workers, NEW m \in Messages, NEW body \in Body,
           CreateDraft(w, m, body)
    PROVE  CountInv'
<1>1. req[w].phase = "loaded"
  BY DEF CreateDraft, OnConversation
<1>2. req[w].c \in Conversations /\ Cardinality(Received(req[w].c)) \in Nat
      /\ conv[req[w].c] \in ConversationRow
  BY <1>1, LoadedRow, ReceivedFinite DEF CountInv
<1>3. PICK message :
          message = [NoMessage EXCEPT !.status = "draft", !.conversation = req[w].c, !.body = body]
  OBVIOUS
<1>4. message.status = "draft"
  BY <1>3 DEF NoMessage
<1>5. conv[req[w].c].unread_count <= Cardinality(Received(req[w].c)) + 1
  BY <1>2 DEF CountInv, RetriesAreNotCounted
<1>6. Flush(w, m, conv[req[w].c], message, {"conversation", "message"}, None)
  BY <1>3 DEF CreateDraft
<1> QED
  BY <1>4, <1>5, <1>6, FlushCount

LEMMA ReceiveInboundCount ==
    ASSUME CountInv, Inv', NEW w \in Workers, NEW m \in Messages,
           NEW external \in ExternalIds \union {None}, NEW body \in Body,
           ReceiveInbound(w, m, external, body)
    PROVE  CountInv'
<1>1. req[w].phase = "loaded"
  BY DEF ReceiveInbound, OnConversation
<1>2. PICK seen : seen = req[w].conv /\ seen \in ConversationRow
  BY <1>1, LoadedRow DEF CountInv
<1>3. PICK row : row = conv[req[w].c] /\ row \in ConversationRow
  BY <1>1, LoadedRow DEF CountInv
<1>4. PICK reopened : reopened = IF seen.status = "resolved" THEN Reopened(seen, row) ELSE row
  OBVIOUS
<1>5. PICK new : new = [reopened EXCEPT !.unread_count = seen.unread_count + 1]
  OBVIOUS
<1>6. PICK message :
          message = [NoMessage EXCEPT !.status = "received", !.conversation = req[w].c,
                                      !.body = body, !.external = external]
  OBVIOUS
<1>7. reopened \in ConversationRow
  BY <1>2, <1>3, <1>4, RowReopened
<1>8. new.unread_count = seen.unread_count + 1
  BY <1>5, <1>7 DEF ConversationRow
<1>9. message.status = "received"
  BY <1>6 DEF NoMessage
<1>10. seen.unread_count <= Cardinality(Received(req[w].c)) + 1
  BY <1>1, <1>2 DEF CountInv, CountOK
<1>11. Flush(w, m, new, message, {"conversation", "message"}, None)
  BY <1>2, <1>3, <1>4, <1>5, <1>6 DEF ReceiveInbound
<1>12. Cardinality(Received(req[w].c)) \in Nat /\ seen.unread_count \in Nat
  BY <1>2, ReceivedFinite DEF ConversationRow
<1>13. new.unread_count <= Cardinality(Received(req[w].c)) + 2
  BY <1>8, <1>10, <1>12
<1> QED
  BY <1>9, <1>11, <1>13, FlushCount

LEMMA MessageRouteCount ==
    ASSUME CountInv, Inv', NEW w \in Workers, MessageRoute(w)
    PROVE  CountInv'
<1>1. ASSUME NEW new, FlushMessage(w, new)  PROVE CountInv'
  <2>1. Flush(w, req[w].m, req[w].conv, new, {"message"}, None)
    BY <1>1 DEF FlushMessage
  <2>2. "conversation" \notin {"message"}
    OBVIOUS
  <2> QED
    BY <2>1, <2>2, FlushCount
<1>2. CASE SendMessage(w)
  <2>1. req[w].phase = "loaded" /\ req[w].m # None
    BY <1>2 DEF SendMessage, OnMessage
  <2>2. req[w].c \in Conversations /\ Cardinality(Received(req[w].c)) \in Nat
        /\ conv[req[w].c] \in ConversationRow
    BY <2>1, LoadedRow, ReceivedFinite DEF CountInv
  <2>3. PICK new : new = [msg[req[w].m] EXCEPT !.status = "sent"]
    OBVIOUS
  <2>4. msg[req[w].m] \in MessageRow
    BY <2>1, LoadedMessage DEF CountInv
  <2>5. new.status = "sent"
    BY <2>3, <2>4 DEF MessageRow
  <2>6. conv[req[w].c].unread_count <= Cardinality(Received(req[w].c)) + 1
    BY <2>2 DEF CountInv, RetriesAreNotCounted
  <2>7. Flush(w, req[w].m, conv[req[w].c], new, {"conversation", "message"}, "message_sent")
    BY <1>2, <2>3 DEF SendMessage
  <2> QED
    BY <2>5, <2>6, <2>7, FlushCount
<1>3. CASE \E cleared, written \in Body : UpdateDraft(w, cleared, written)
  BY <1>1, <1>3 DEF UpdateDraft
<1>4. CASE DiscardDraft(w) \/ QueueMessage(w)
  BY <1>1, <1>4 DEF DiscardDraft, QueueMessage
<1> QED
  BY <1>2, <1>3, <1>4 DEF MessageRoute

-----------------------------------------------------------------------------
(* Commits.                                                                 *)

\* What a commit adds to the messages received.
LEMMA CommitReceives ==
    ASSUME Inv, NEW w \in Workers, Commit(w), NEW t, t = req[w], NEW c \in Conversations
    PROVE  /\ Delivers(t) /\ c = t.c =>
                 /\ "conversation" \in t.writes /\ t.m \notin Received(c)
                 /\ Received(c)' = Received(c) \union {t.m}
           /\ ~(Delivers(t) /\ c = t.c) => Received(c)' = Received(c)
<1>1. /\ t.phase = "flushed" /\ PendingMessage(w)
      /\ "message" \in t.writes => t.m \in Messages
  BY Flushed DEF Inv, Commit
<1>2. \A m \in Messages :
          msg'[m] = IF "message" \in t.writes /\ m = t.m THEN t.msg ELSE msg[m]
  BY CommittedRows
<1>3. CASE "message" \notin t.writes
  BY <1>2, <1>3 DEF Received, Delivers
<1>4. CASE "message" \in t.writes
  <2>1. t.m \in Messages /\ msg'[t.m] = t.msg /\ t.msg.conversation = t.c
    BY <1>1, <1>2, <1>4, CommitMessage
  <2>2. \A m \in Messages \ {t.m} : msg'[m] = msg[m]
    BY <1>2
  <2>3. msg[t.m].status # "received"
    <3>1. CASE PendingInsert(w)
      BY <3>1 DEF PendingInsert
    <3>2. CASE PendingUpdate(w)
      BY <3>2 DEF PendingUpdate, EnforceMessageLifecycle
    <3> QED
      BY <1>1, <1>4, <3>1, <3>2 DEF PendingMessage
  <2>4. t.msg.status = "received" => "conversation" \in t.writes
    BY <1>1, <1>4 DEF PendingMessage, PendingInsert, PendingUpdate
  <2>5. \A m \in Messages : m \in Received(c)' <=>
            IF m = t.m THEN t.msg.status = "received" /\ c = t.c ELSE m \in Received(c)
    BY <2>1, <2>2 DEF Received
  <2>6. t.m \notin Received(c)
    BY <2>3 DEF Received
  <2>7. Received(c) \subseteq Messages /\ Received(c)' \subseteq Messages
    BY DEF Received
  <2>8. CASE t.msg.status = "received" /\ c = t.c
    BY <1>4, <2>1, <2>4, <2>5, <2>6, <2>7, <2>8 DEF Delivers
  <2>9. CASE ~(t.msg.status = "received" /\ c = t.c)
    BY <1>4, <2>5, <2>6, <2>7, <2>9 DEF Delivers
  <2> QED
    BY <2>8, <2>9
<1> QED
  BY <1>3, <1>4

LEMMA CommitCount ==
    ASSUME CountInv, Inv', NEW w \in Workers, Commit(w)
    PROVE  CountInv'
<1>1. PICK t : t = req[w]
  OBVIOUS
<1>2. Inv /\ CountOK(t) /\ t.phase = "flushed" /\ t.c \in Conversations
      /\ t.conv \in ConversationRow
  BY <1>1, Flushed DEF CountInv, Commit
<1>3. /\ \A c \in Conversations :
             conv'[c] = IF "conversation" \in t.writes /\ c = t.c THEN t.conv ELSE conv[c]
      /\ req'[w] = Idle /\ \A v \in Workers \ {w} : req'[v] = req[v]
  BY <1>1, <1>2, CommittedRows
<1>4. ASSUME NEW c \in Conversations
      PROVE  /\ Cardinality(Received(c)) \in Nat /\ Cardinality(Received(c)') \in Nat
             /\ Cardinality(Received(c)') >= Cardinality(Received(c))
             /\ Delivers(t) /\ c = t.c =>
                   /\ "conversation" \in t.writes
                   /\ Cardinality(Received(c)') = Cardinality(Received(c)) + 1
  <2>1. IsFiniteSet(Received(c)) /\ Cardinality(Received(c)) \in Nat
    BY ReceivedFinite
  <2>2. CASE Delivers(t) /\ c = t.c
    <3>1. /\ "conversation" \in t.writes /\ t.m \notin Received(c)
          /\ Received(c)' = Received(c) \union {t.m}
      BY <1>1, <1>2, <2>2, CommitReceives
    <3>2. Cardinality(Received(c) \union {t.m}) = Cardinality(Received(c)) + 1
      BY <2>1, <3>1, FS_AddElement
    <3> QED
      BY <2>1, <3>1, <3>2
  <2>3. CASE ~(Delivers(t) /\ c = t.c)
    <3>1. Received(c)' = Received(c)
      BY <1>1, <1>2, <2>3, CommitReceives
    <3> QED
      BY <2>1, <2>3, <3>1
  <2> QED
    BY <2>2, <2>3
<1>5. RetriesAreNotCounted'
  <2>1. SUFFICES ASSUME NEW c \in Conversations
                 PROVE  conv'[c].unread_count <= Cardinality(Received(c)') + 1
    BY DEF RetriesAreNotCounted
  <2>2. CASE "conversation" \in t.writes /\ c = t.c
    <3>1. conv'[c] = t.conv /\ t.conv.unread_count \in Nat
      BY <1>2, <1>3, <2>2 DEF ConversationRow
    <3>2. t.conv.unread_count <=
              Cardinality(Received(c)) + (IF Delivers(t) THEN 2 ELSE 1)
      BY <1>2, <2>2 DEF CountOK
    <3> QED
      BY <1>4, <2>2, <3>1, <3>2
  <2>3. CASE ~("conversation" \in t.writes /\ c = t.c)
    <3>1. conv'[c] = conv[c] /\ conv[c].unread_count <= Cardinality(Received(c)) + 1
      BY <1>3, <2>3 DEF CountInv, RetriesAreNotCounted
    <3>2. conv[c].unread_count \in Nat
      BY <1>2, TypedRows DEF Inv, ConversationRow
    <3> QED
      BY <1>4, <3>1, <3>2
  <2> QED
    BY <2>2, <2>3
<1>6. ASSUME NEW v \in Workers  PROVE CountOK(req[v])'
  <2>1. CASE v = w
    BY <1>3, <2>1 DEF CountOK, Idle
  <2>2. CASE v # w
    <3>1. PICK row : row = req[v] /\ row = req'[v] /\ row \in Transaction
      BY <1>2, <1>3, <2>2, TypedRows DEF Inv
    <3>2. CountOK(row) /\ Loaded(v)
      BY <1>2, <3>1 DEF CountInv, Inv
    <3>3. row.phase = "loaded" \/ "conversation" \in row.writes => row.c \in Conversations
      BY <3>1, <3>2 DEF Loaded, Transaction
    <3>4. row.conv.unread_count \in Nat
      BY <3>1 DEF Transaction, ConversationRow
    <3>5. ASSUME row.phase = "loaded"
          PROVE  row.conv.unread_count <= Cardinality(Received(row.c)') + 1
      BY <1>4, <3>2, <3>3, <3>4, <3>5 DEF CountOK
    <3>6. ASSUME "conversation" \in row.writes
          PROVE  row.conv.unread_count <=
                     Cardinality(Received(row.c)') + (IF Delivers(row) THEN 2 ELSE 1)
      BY <1>4, <3>2, <3>3, <3>4, <3>6 DEF CountOK
    <3> QED
      BY <3>1, <3>5, <3>6 DEF CountOK, Delivers
  <2> QED
    BY <2>1, <2>2
<1> QED
  BY <1>5, <1>6 DEF CountInv

LEMMA CreateConversationCount ==
    ASSUME CountInv, Inv', NEW c \in Conversations, NEW s \in [Settings -> Values],
           CreateConversation(c, s)
    PROVE  CountInv'
<1>1. PICK new : new = [NoConversation EXCEPT !.status = "open", !.settings = s]
  OBVIOUS
<1>2. new.unread_count = 0
  BY <1>1 DEF NoConversation
<1>3. conv' = [conv EXCEPT ![c] = new] /\ UNCHANGED <<msg, req>>
  BY <1>1 DEF CreateConversation
<1>4. \A d : Received(d)' = Received(d)
  BY <1>3 DEF Received
<1>5. RetriesAreNotCounted'
  <2>1. SUFFICES ASSUME NEW d \in Conversations
                 PROVE  conv'[d].unread_count <= Cardinality(Received(d)) + 1
    BY <1>4 DEF RetriesAreNotCounted
  <2>2. Cardinality(Received(d)) \in Nat
    BY ReceivedFinite
  <2>3. conv'[d] = IF d = c THEN new ELSE conv[d]
    BY <1>3 DEF CountInv, Inv, TypeOK
  <2> QED
    BY <1>2, <2>2, <2>3 DEF CountInv, RetriesAreNotCounted
<1>6. \A w \in Workers : CountOK(req[w])'
  BY <1>3, <1>4 DEF CountInv, CountOK, Delivers
<1> QED
  BY <1>5, <1>6 DEF CountInv

-----------------------------------------------------------------------------
(* Every step.                                                              *)

LEMMA NextCount == CountInv /\ [Next]_vars => CountInv'
<1> SUFFICES ASSUME CountInv, [Next]_vars  PROVE CountInv'
    OBVIOUS
<1>1. Inv'
  BY NextInv DEF CountInv
<1>2. CASE UNCHANGED vars
  <2>1. UNCHANGED <<conv, msg, req>>
    BY <1>2 DEF vars
  <2>2. \A c : Received(c)' = Received(c)
    BY <2>1 DEF Received
  <2> QED
    BY <1>1, <2>1, <2>2 DEF CountInv, RetriesAreNotCounted, CountOK, Delivers
<1>3. ASSUME NEW c \in Conversations, NEW s \in [Settings -> Values], CreateConversation(c, s)
      PROVE  CountInv'
  BY <1>1, <1>3, CreateConversationCount
<1>4. ASSUME NEW w \in Workers, Step(w)  PROVE CountInv'
  <2>1. CASE \E c \in Conversations : LoadConversation(w, c)
    BY <1>1, <2>1, LoadConversationCount
  <2>2. CASE \E m \in Messages : LoadMessage(w, m)
    BY <1>1, <2>2, LoadMessageCount
  <2>3. CASE LoadConversationOfMessage(w)
    BY <1>1, <2>3, LoadConversationOfMessageCount
  <2>4. CASE ConversationRoute(w)
    BY <1>1, <2>4, ConversationRouteCount
  <2>5. CASE InsertRoute(w)
    BY <1>1, <2>5, CreateDraftCount, ReceiveInboundCount DEF InsertRoute
  <2>6. CASE MessageRoute(w)
    BY <1>1, <2>6, MessageRouteCount
  <2>7. CASE Commit(w)
    BY <1>1, <2>7, CommitCount
  <2>8. CASE Rollback(w)
    BY <1>1, <2>8, RollbackCount
  <2> QED
    BY <1>4, <2>1, <2>2, <2>3, <2>4, <2>5, <2>6, <2>7, <2>8 DEF Step
<1> QED
  BY <1>2, <1>3, <1>4 DEF Next

\* However deliveries are retried and raced, and whatever mark-read and mark-unread write
\* between them, a conversation never counts more messages than it received, but one.
THEOREM RetriesCountOnce == Spec => []RetriesAreNotCounted
<1>1. Spec => []CountInv
  BY InitCount, NextCount, PTL DEF Spec
<1>2. CountInv => RetriesAreNotCounted
  BY DEF CountInv
<1> QED
  BY <1>1, <1>2, PTL
=============================================================================
