------------------------------ MODULE Listings ------------------------------
(***************************************************************************)
(* Reading a list while others write it.                                   *)
(*                                                                         *)
(* A client walks through a list page by page, each page a request and a   *)
(* transaction of its own; a read of several statements sees, at READ      *)
(* COMMITTED, a different table in each.  The lists:                       *)
(*                                                                         *)
(*   messages       of a conversation, oldest first, after a cursor;       *)
(*   conversations  by a time, either way, after a cursor;                 *)
(*   records        contacts, leads, activities, tasks, companies, audit   *)
(*                  logs: a count, then the rows at an offset;             *)
(*   detail         of a conversation, and its summary: the number of its  *)
(*                  messages, then the latest.                             *)
(*                                                                         *)
(* A list is in the order of a key (a time; a name or a score is one more  *)
(* value of it) and, at the same key, of the identifiers; but tasks are in *)
(* the order of their key only, which is due_at and created_at.  A writer  *)
(* computes the key that it gives to a row, and commits later.             *)
(***************************************************************************)
EXTENDS Naturals, Sequences, FiniteSets

CONSTANTS Ids,         \* identifiers of rows: numbers, in the order of the identifiers
          Inbound,     \* those of inbound messages
          Writers,     \* requests that write, each once
          PageSize,    \* of each list, what the client asks for
          MaxPage,     \* the last page that can be asked for by its number
          FirstTick,   \* the keys there at the beginning are up to this one
          LastTick,    \* bound of the clock, and of every key
          NoWrite, Written,
          NoCursor

VARIABLES
    kind,       \* the list that is read
    ascending,  \* sort_direction
    now,
    row,        \* the committed rows: [key, state], "none", "there" or "out" of the list
    write,      \* what each writer has computed and not committed, [op, id, key]; Written
                \* when it is done
    phase,      \* where the reader is
    cursor,     \* next_cursor of the last page, [key, id]
    offset,     \* offset of the next page
    counted,    \* the rows that its last count(*) has counted
    seen,       \* the pages it was given, sets of rows
    tied,       \* history: rows that were at one key, with no order, when a page was read
    stable,     \* history: rows there since the walk began, unchanged
    moved,      \* history: rows whose key has changed since the walk began
    changes     \* history: what else happened since the walk began

readerVars == <<kind, ascending, phase, cursor, offset, counted, seen, tied>>
history    == <<stable, moved, changes>>
vars       == <<now, row, write, history, readerVars>>

Times    == 0..LastTick

\* The page size of this walk.
Size     == PageSize[kind]

Paged    == {"messages", "conversations"}
Records  == {"contacts", "leads", "activities", "tasks", "companies", "audit"}
Details  == {"detail", "summary"}
Kinds    == Paged \cup Records \cup Details

ASSUME ListingsAssumption ==
    /\ Ids \subseteq Nat /\ IsFiniteSet(Ids) /\ Inbound \subseteq Ids
    /\ PageSize \in [Kinds -> Nat \ {0}] /\ MaxPage \in Nat \ {0}
    /\ FirstTick \in Nat /\ LastTick \in Nat /\ FirstTick <= LastTick
    /\ NoCursor \notin [key: Nat, id: Nat]

\* The lists that have a query parameter page, of at most MaxPage.
Numbered == Records \ {"audit"}

\* The lists whose rows can be updated, and go out of a filter and come in again.
Editable == {"conversations", "contacts", "leads", "tasks", "companies"}

\* The lists whose key is a time of the server.
Dated    == {"messages", "conversations", "audit"} \cup Details

\* sort_direction, or the only one the list has.
Directions == CASE kind \in {"messages", "tasks"} -> {TRUE}
                [] kind \in {"activities", "audit"} \cup Details -> {FALSE}
                [] OTHER -> BOOLEAN

Visible == {i \in Ids : row[i].state = "there"}
-----------------------------------------------------------------------------
(* The order of a list *)

\* A cursor's list is in the direction of the list in both; records are in one order of
\* the identifiers whatever the direction.
Precedes(i, j) ==
    \/ IF ascending THEN row[i].key < row[j].key ELSE row[i].key > row[j].key
    \/ /\ row[i].key = row[j].key /\ kind # "tasks"
       /\ IF kind = "companies" \/ (kind \in Paged /\ ascending) THEN i < j ELSE i > j

\* How many of the rows come before i: its place in their list, from 0.
Place(i, ids) == Cardinality({j \in ids : Precedes(j, i)})

\* The rows from place n on, up to max of them: OFFSET n LIMIT max.
Limit(ids, n, max) == {i \in ids : Place(i, ids) \in n..(n + max - 1)}

\* The rows that are on a par with i, and i.
Ties(i, ids) == IF kind = "tasks" THEN {j \in ids : row[j].key = row[i].key} ELSE {i}

\* OFFSET n LIMIT max, in an order that is not total: of the rows on a par as many as have
\* their place in the page, and any of them.
Pages(ids, n, max) ==
    LET places == [i \in ids |-> (n..(n + max - 1)) \cap
                      (Place(i, ids)..(Place(i, ids) + Cardinality(Ties(i, ids)) - 1))]
    IN  {page \in SUBSET {i \in ids : places[i] # {}} : \A i \in ids :
            Cardinality(page \cap Ties(i, ids)) = Cardinality(places[i])}

\* items[-1]
Last(page) == CHOOSE i \in page : \A j \in page : j = i \/ Precedes(j, i)

\* Mutant: the row of the cursor again.
AfterOrAt(i) ==
    \/ IF ascending THEN row[i].key > cursor.key ELSE row[i].key < cursor.key
    \/ row[i].key = cursor.key /\ IF ascending THEN i >= cursor.id ELSE i <= cursor.id

\* Mutant: the cursor is a time only.
AfterKey(i) == IF ascending THEN row[i].key > cursor.key ELSE row[i].key < cursor.key

\* The clause that a cursor adds.
After(i) ==
    \/ IF ascending THEN row[i].key > cursor.key ELSE row[i].key < cursor.key
    \/ row[i].key = cursor.key /\ IF ascending THEN i > cursor.id ELSE i < cursor.id

\* _encode_cursor, of the last row of a page.
CursorOf(i) == [key |-> row[i].key, id |-> i]
-----------------------------------------------------------------------------
(* The reader *)

\* The first statement of a walk starts the history.
Begin ==
    /\ stable'  = IF phase = "start" THEN Visible ELSE stable
    /\ moved'   = IF phase = "start" THEN {} ELSE moved
    /\ changes' = IF phase = "start" THEN {} ELSE changes

\* page_size rows after the cursor, and whether there is one more.
ReadAfterCursor ==
    /\ phase \in {"start", "walking"}
    /\ Begin
    /\ LET rows == IF cursor = NoCursor THEN Visible ELSE {i \in Visible : After(i)}
           page == Limit(rows, 0, Size)
           more == Cardinality(rows) > Size
       IN  /\ seen' = Append(seen, page)
           /\ cursor' = IF more THEN CursorOf(Last(page)) ELSE NoCursor
           /\ phase' = IF more THEN "walking" ELSE "ended"
    /\ UNCHANGED <<kind, ascending, offset, counted, tied, now, row, write>>

ListMessages == kind = "messages" /\ ReadAfterCursor

ListConversations == kind = "conversations" /\ ReadAfterCursor

\* The page that comes next has no number.
BeyondMaxPage == kind \in Numbered /\ offset >= MaxPage * Size

\* The request for it is refused, 422, and the walk stops short.
RefusePage ==
    /\ phase = "walking"
    /\ BeyondMaxPage
    /\ phase' = "refused"
    /\ UNCHANGED <<kind, ascending, cursor, offset, counted, seen, tied, now, row, write, history>>

\* select count(*), of the rows of the list or of the messages of a conversation.
Count ==
    /\ phase \in {"start", "walking"}
    /\ ~BeyondMaxPage
    /\ Begin
    /\ counted' = Visible
    /\ phase' = "counted"
    /\ UNCHANGED <<kind, ascending, cursor, offset, seen, tied, now, row, write>>

\* The rows at the offset.  The client asks for as many pages as the count makes.
ReadAtOffset ==
    /\ phase = "counted"
    /\ \E page \in Pages(Visible, offset, Size) : seen' = Append(seen, page)
    /\ tied' = tied \cup {i \in Visible : Ties(i, Visible) # {i}}
    /\ offset' = offset + Size
    /\ phase' = IF offset + Size < Cardinality(counted) THEN "walking" ELSE "ended"
    /\ UNCHANGED <<kind, ascending, cursor, counted, now, row, write, history>>

ReadPage == Count \/ ReadAtOffset \/ RefusePage

ListContacts   == kind = "contacts"   /\ ReadPage
ListLeads      == kind = "leads"      /\ ReadPage
ListActivities == kind = "activities" /\ ReadPage
ListTasks      == kind = "tasks"      /\ ReadPage
ListCompanies  == kind = "companies"  /\ ReadPage
ListAuditLogs  == kind = "audit"      /\ (Count \/ ReadAtOffset)

\* The first in descending order, if there is one.
Latest(ids) == Limit(ids, 0, 1)

\* The statement after the count.
ReadLatest(next) ==
    /\ phase = "counted"
    /\ seen' = <<Latest(Visible)>>
    /\ phase' = next
    /\ UNCHANGED <<kind, ascending, cursor, offset, counted, tied, now, row, write, history>>

\* The last statement of a summary.
ReadLatestInbound ==
    /\ phase = "latest"
    /\ seen' = Append(seen, Latest(Visible \cap Inbound))
    /\ phase' = "ended"
    /\ UNCHANGED <<kind, ascending, cursor, offset, counted, tied, now, row, write, history>>

\* Mutant: the latest inbound message is read before the latest.
InboundThenLatest ==
    /\ kind = "summary"
    /\ \/ Count
       \/ /\ phase = "counted" /\ seen' = <<Latest(Visible \cap Inbound)>> /\ phase' = "latest"
          /\ UNCHANGED <<kind, ascending, cursor, offset, counted, tied, now, row, write, history>>
       \/ /\ phase = "latest" /\ seen' = <<Latest(Visible)>> \o seen /\ phase' = "ended"
          /\ UNCHANGED <<kind, ascending, cursor, offset, counted, tied, now, row, write, history>>

ReadConversation == kind = "detail" /\ (Count \/ ReadLatest("ended"))

Summary == kind = "summary" /\ (Count \/ ReadLatest("latest") \/ ReadLatestInbound)
-----------------------------------------------------------------------------
(* The writers *)

Tick ==
    /\ now < LastTick
    /\ now' = now + 1
    /\ UNCHANGED <<row, write, history, readerVars>>

Pending == {w \in Writers : write[w] \notin {NoWrite, Written}}

Done(w) == write' = [write EXCEPT ![w] = Written]

\* The key that a writer computes now.
Key(k) == kind \in Dated => k = now

\* A message, a conversation, a record is created.
StartInsert(w, i, k) ==
    /\ write[w] = NoWrite
    /\ row[i].state = "none"
    /\ \A v \in Pending : write[v].id # i
    /\ Key(k)
    /\ write' = [write EXCEPT ![w] = [op |-> "insert", id |-> i, key |-> k]]
    /\ UNCHANGED <<now, row, history, readerVars>>

\* A message is added to conversation i, or record i is updated.
StartUpdate(w, i, k) ==
    /\ kind \in Editable
    /\ write[w] = NoWrite
    /\ row[i].state # "none"
    /\ Key(k)
    /\ write' = [write EXCEPT ![w] = [op |-> "update", id |-> i, key |-> k]]
    /\ UNCHANGED <<now, row, history, readerVars>>

Came == changes \cup {"came"} \cup (IF phase = "counted" THEN {"torn"} ELSE {})

CommitInsert(w) ==
    /\ w \in Pending
    /\ write[w].op = "insert"
    /\ row' = [row EXCEPT ![write[w].id] = [key |-> write[w].key, state |-> "there"]]
    /\ changes' = Came
    /\ Done(w)
    /\ UNCHANGED <<now, stable, moved, readerVars>>

\* The key is that of the writer: a time can go back.
CommitUpdate(w) ==
    /\ w \in Pending
    /\ write[w].op = "update"
    /\ row' = [row EXCEPT ![write[w].id].key = write[w].key]
    /\ stable' = stable \ {write[w].id}
    /\ moved' = moved \cup {write[w].id}
    /\ Done(w)
    /\ UNCHANGED <<now, changes, readerVars>>

\* The request of the writer fails.
Abandon(w) ==
    /\ w \in Pending
    /\ Done(w)
    /\ UNCHANGED <<now, row, history, readerVars>>

\* A draft is discarded, a record archived, a filter no longer true of it.
Leave(w, i) ==
    /\ write[w] = NoWrite
    /\ kind \notin {"activities", "audit"}
    /\ i \in Visible
    /\ row' = [row EXCEPT ![i].state = "out"]
    /\ stable' = stable \ {i}
    /\ changes' = changes \cup {"left"}
    /\ Done(w)
    /\ UNCHANGED <<now, moved, readerVars>>

\* The filter is true of it again.
Return(w, i) ==
    /\ write[w] = NoWrite
    /\ kind \in Editable
    /\ row[i].state = "out"
    /\ row' = [row EXCEPT ![i].state = "there"]
    /\ changes' = Came
    /\ Done(w)
    /\ UNCHANGED <<now, stable, moved, readerVars>>
-----------------------------------------------------------------------------
Init ==
    /\ kind \in Kinds
    /\ ascending \in Directions
    /\ now = FirstTick
    /\ row \in [Ids -> [key: 0..FirstTick, state: {"there"}] \cup [key: {0}, state: {"none"}]]
    /\ write = [w \in Writers |-> NoWrite]
    /\ phase = "start"
    /\ cursor = NoCursor
    /\ offset = 0
    /\ counted = {}
    /\ seen = <<>>
    /\ tied = {}
    /\ stable = {}
    /\ moved = {}
    /\ changes = {}

Read ==
    \/ ListMessages \/ ListConversations
    \/ ListContacts \/ ListLeads \/ ListActivities \/ ListTasks
    \/ ListCompanies \/ ListAuditLogs
    \/ ReadConversation \/ Summary

Next ==
    \/ Read
    \/ Tick
    \/ \E w \in Writers :
          \/ \E i \in Ids, k \in Times : StartInsert(w, i, k) \/ StartUpdate(w, i, k)
          \/ \E i \in Ids : Leave(w, i) \/ Return(w, i)
          \/ CommitInsert(w) \/ CommitUpdate(w) \/ Abandon(w)

Spec == Init /\ [][Next]_vars
-----------------------------------------------------------------------------
(* Properties *)

\* The pages that show a row.
Showing(i) == {n \in DOMAIN seen : i \in seen[n]}

\* No walk shows a row twice, except: by a cursor, a row whose own key has changed; by
\* offsets, when rows came or changed their key in between; and a task that was due at
\* the time of another, even when nothing changes.
NoRowTwice ==
    \A i \in Ids : Cardinality(Showing(i)) > 1 =>
        \/ kind \in Paged /\ i \in moved
        \/ kind \in Records /\ ("came" \in changes \/ moved # {})
        \/ kind = "tasks" /\ i \in tied
        \/ kind = "summary"

\* A walk that has ended has shown every row that was there all along, unchanged: by a
\* cursor, whatever others did; by offsets, unless a row left the list or changed its
\* key, or came between the count of a page and its rows; and but for the tasks that were
\* due at the time of another.  (A walk that was refused a page has not ended.)
NoRowMissed ==
    phase = "ended" /\ kind \notin Details =>
        \/ \A i \in stable : Showing(i) # {} \/ (kind = "tasks" /\ i \in tied)
        \/ kind \in Records /\ (changes \cap {"left", "torn"} # {} \/ moved # {})

\* i is not a later message than j.
NotLater(i, j) == row[i].key < row[j].key \/ (row[i].key = row[j].key /\ i <= j)

\* The latest message that a conversation shows is not older than a message that its
\* number includes, unless that was discarded, and the latest inbound one not older than
\* the latest, if that is inbound: the statements are in this order.
LatestIsNotOlder ==
    kind \in Details /\ phase = "ended" =>
        /\ \A i \in counted \cap Visible : \E x \in seen[1] : NotLater(i, x)
        /\ kind = "summary" => \A i \in (counted \cup seen[1]) \cap Visible \cap Inbound :
               \E x \in seen[2] : NotLater(i, x)
=============================================================================
