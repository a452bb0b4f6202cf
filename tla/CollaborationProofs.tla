------------------------- MODULE CollaborationProofs -------------------------
(***************************************************************************)
(* What the routes on notes and tags guarantee, proved for any number of   *)
(* workers, conversations, notes and tags.                                 *)
(*                                                                         *)
(* A request decides on rows that it read without a lock, but what it      *)
(* writes it computes from the latest row, locked until the commit: the    *)
(* invariant relates what is written to what is committed.                 *)
(***************************************************************************)
EXTENDS Collaboration, TLAPS

\* A note that was never inserted is not archived.
NoteRows == \A n \in Notes : note[n].archived_at => note[n].conversation # None

\* A request on a note knows the conversation of the note, which never changes.
KnowsNote(row) ==
    row.route \in NoteRoutes /\ row.phase \in {"note", "loaded"} =>
        row.n # None /\ row.c # None /\ note[row.n].conversation = row.c

\* The note to commit stays where the committed one is, and archived if it is.
WritesNote(row) ==
    row.route \in NoteRoutes /\ row.phase = "flushed" =>
        /\ row.n # None /\ row.c # None
        /\ row.note.conversation = row.c
        /\ note[row.n].conversation \in {None, row.c}
        /\ note[row.n].archived_at => row.note.archived_at

\* The tag to commit has a name that no other committed tag has.
WritesNewName(row) ==
    row.route \in TagRoutes /\ row.phase = "flushed" =>
        /\ row.tag.name # None
        /\ \A u \in Tags \ {row.t} :
              tag[u].name # None => Normalized(tag[u].name) # Normalized(row.tag.name)

\* The identifiers that the phases of a request rely on.
KnowsRows(row) ==
    /\ row.phase = "note" => row.route \in NoteRoutes
    /\ row.phase = "conversation" => row.c # None
    /\ row.phase = "inserting" => row.route = "add_tag"
    /\ row.phase \in {"loaded", "inserting", "flushed"} /\ row.route \in LinkRoutes =>
          row.c # None /\ row.t # None
    /\ row.phase # "idle" /\ row.route \in TagRoutes => row.t # None
    /\ row.phase = "loaded" /\ row.route \in TagRoutes => tag[row.t].name # None

RowOK(row) == KnowsNote(row) /\ WritesNote(row) /\ WritesNewName(row) /\ KnowsRows(row)

\* Two requests in progress write different notes, tags and names.
Apart(a, b) ==
    a.phase = "flushed" /\ b.phase = "flushed" =>
        /\ a.route \in NoteRoutes /\ b.route \in NoteRoutes => a.n # b.n
        /\ a.route \in TagRoutes /\ b.route \in TagRoutes =>
              a.t # b.t /\ Normalized(a.tag.name) # Normalized(b.tag.name)

IInv ==
    /\ TypeOK
    /\ NoteRows
    /\ OneTagPerName
    /\ \A w \in Workers : RowOK(req[w])
    /\ \A v, w \in Workers : v # w => Apart(req[v], req[w])

-----------------------------------------------------------------------------
(* Typing.                                                                  *)

LEMMA TypedRows ==
    ASSUME TypeOK
    PROVE  /\ \A n \in Notes : note[n] \in NoteRow
           /\ \A t \in Tags : tag[t] \in TagRow
           /\ \A w \in Workers : req[w] \in Transaction
    BY DEF TypeOK

LEMMA EmptyRows == NoNote \in NoteRow /\ NoTag \in TagRow /\ Idle \in Transaction
<1>1. NoNote \in NoteRow /\ NoTag \in TagRow
    BY DEF NoNote, NoteRow, NoTag, TagRow
<1>2. Idle \in Transaction
    BY <1>1 DEF Idle, Transaction
<1>3. QED
    BY <1>1, <1>2

LEMMA IdleOK == RowOK(Idle) /\ \A row : Apart(Idle, row) /\ Apart(row, Idle)
    BY DEF Idle, RowOK, KnowsNote, WritesNote, WritesNewName, KnowsRows, Apart

LEMMA InitInv == Init => IInv
<1> SUFFICES ASSUME Init PROVE IInv
    OBVIOUS
<1>1. TypeOK
    BY EmptyRows DEF Init, TypeOK
<1>2. NoteRows
    BY DEF Init, NoteRows, NoNote
<1>3. OneTagPerName
    BY DEF Init, OneTagPerName, Exists, NoTag
<1>4. \A w \in Workers : req[w] = Idle
    BY DEF Init
<1>5. QED
    BY <1>1, <1>2, <1>3, <1>4, IdleOK DEF IInv

-----------------------------------------------------------------------------
(* Steps that commit nothing.                                               *)

LEMMA ChangePreserves ==
    ASSUME IInv, NEW w \in Workers, NEW row \in Transaction, Change(w, row), RowOK(row),
           \A v \in Workers \ {w} : Apart(row, req[v])
    PROVE  IInv'
<1>1. /\ req' = [req EXCEPT ![w] = row]
      /\ conversation' = conversation /\ note' = note /\ tag' = tag /\ link' = link
    BY DEF Change, committed
<1>2. TypeOK'
    BY <1>1 DEF IInv, TypeOK
<1>3. req'[w] = row /\ \A v \in Workers \ {w} : req'[v] = req[v]
    BY <1>1 DEF IInv, TypeOK
<1>4. NoteRows' /\ OneTagPerName'
    BY <1>1 DEF IInv, NoteRows, OneTagPerName, Exists
<1>5. ASSUME NEW v \in Workers PROVE RowOK(req[v])'
  <2>1. RowOK(req'[v])
      BY <1>3 DEF IInv
  <2>2. QED
      BY <2>1, <1>1 DEF RowOK, KnowsNote, WritesNote, WritesNewName, KnowsRows
<1>6. ASSUME NEW u \in Workers, NEW v \in Workers, u # v PROVE Apart(req'[u], req'[v])
  <2>1. CASE u = w
      BY <2>1, <1>3, <1>6
  <2>2. CASE v = w
    <3>1. Apart(row, req[u])
        BY <2>2, <1>6
    <3>2. Apart(req[u], row)
        BY <3>1 DEF Apart
    <3>3. QED
        BY <2>2, <3>2, <1>3, <1>6
  <2>3. CASE u # w /\ v # w
      BY <2>3, <1>3, <1>6 DEF IInv
  <2>4. QED
      BY <2>1, <2>2, <2>3
<1>7. \A u, v \in Workers : u # v => Apart(req[u], req[v])'
    BY <1>6 DEF Apart
<1>8. QED
    BY <1>2, <1>4, <1>5, <1>7 DEF IInv

\* A request that writes nothing yet.
LEMMA LoadPreserves ==
    ASSUME IInv, NEW w \in Workers, NEW row \in Transaction, Change(w, row), RowOK(row),
           row.phase # "flushed"
    PROVE  IInv'
    BY ChangePreserves DEF Apart

LEMMA LoadConversationPreserves ==
    ASSUME IInv, NEW w \in Workers, NEW route \in Routes, NEW c \in Conversations,
           LoadConversation(w, route, c)
    PROVE  IInv'
<1> DEFINE row == [Idle EXCEPT !.phase = "conversation", !.route = route, !.c = c]
<1>1. row \in Transaction
    BY EmptyRows DEF LoadConversation, Idle, Transaction, LinkRoutes, NoteRoutes
<1>2. row.phase = "conversation" /\ row.route = route /\ row.c = c
    BY DEF Idle
<1>3. Change(w, row) /\ route \in {"create_note"} \union LinkRoutes /\ c # None
    BY CollaborationAssumption DEF LoadConversation
<1> HIDE DEF row
<1>4. RowOK(row)
    BY <1>2, <1>3
       DEF RowOK, KnowsNote, WritesNote, WritesNewName, KnowsRows, LinkRoutes, TagRoutes
<1>5. QED
    BY <1>1, <1>2, <1>3, <1>4, LoadPreserves

LEMMA LoadNotePreserves ==
    ASSUME IInv, NEW w \in Workers, NEW route \in Routes, NEW n \in Notes,
           LoadNote(w, route, n)
    PROVE  IInv'
<1> DEFINE row == [Idle EXCEPT !.phase = "note", !.route = route, !.n = n,
                               !.c = note[n].conversation, !.note = note[n]]
<1>1. note[n] \in NoteRow /\ n # None
    BY TypedRows, CollaborationAssumption DEF IInv
<1>2. row \in Transaction
    BY <1>1, EmptyRows DEF LoadNote, Idle, Transaction, NoteRow, NoteRoutes
<1>3. row.phase = "note" /\ row.route = route /\ row.n = n /\ row.c = note[n].conversation
    BY DEF Idle
<1>4. /\ Change(w, row) /\ route \in {"update_note", "archive_note"}
      /\ note[n].conversation # None
    BY DEF LoadNote
<1> HIDE DEF row
<1>5. RowOK(row)
    BY <1>1, <1>3, <1>4
       DEF RowOK, KnowsNote, WritesNote, WritesNewName, KnowsRows, LinkRoutes, NoteRoutes,
           TagRoutes
<1>6. QED
    BY <1>2, <1>3, <1>4, <1>5, LoadPreserves

LEMMA LoadConversationOfNotePreserves ==
    ASSUME IInv, NEW w \in Workers, LoadConversationOfNote(w)
    PROVE  IInv'
<1> DEFINE row == [req[w] EXCEPT !.phase = "loaded"]
<1>1. RowOK(req[w]) /\ req[w] \in Transaction
    BY TypedRows DEF IInv
<1>2. row \in Transaction
    BY <1>1 DEF Transaction
<1>3. row.phase = "loaded" /\ row.route = req[w].route /\ row.n = req[w].n
      /\ row.c = req[w].c /\ row.t = req[w].t
    BY <1>1 DEF Transaction
<1>4. Change(w, row) /\ req[w].phase = "note"
    BY DEF LoadConversationOfNote
<1>5. req[w].route \in NoteRoutes
    BY <1>1, <1>4 DEF RowOK, KnowsRows
<1> HIDE DEF row
<1>6. RowOK(row)
    BY <1>1, <1>3, <1>4, <1>5
       DEF RowOK, KnowsNote, WritesNote, WritesNewName, KnowsRows, LinkRoutes, NoteRoutes,
           TagRoutes
<1>7. QED
    BY <1>2, <1>3, <1>4, <1>6, LoadPreserves

LEMMA LoadTagPreserves ==
    ASSUME IInv, NEW w \in Workers, NEW t \in Tags, LoadTag(w, t)
    PROVE  IInv'
<1> DEFINE row == [Idle EXCEPT !.phase = "loaded", !.route = "update_tag", !.t = t,
                               !.tag = tag[t]]
<1>1. tag[t] \in TagRow /\ t # None
    BY TypedRows, CollaborationAssumption DEF IInv
<1>2. row \in Transaction
    BY <1>1, EmptyRows DEF Idle, Transaction, TagRoutes
<1>3. row.phase = "loaded" /\ row.route = "update_tag" /\ row.t = t
    BY DEF Idle
<1>4. Change(w, row) /\ tag[t].name # None
    BY DEF LoadTag, Exists
<1> HIDE DEF row
<1>5. RowOK(row)
    BY <1>1, <1>3, <1>4
       DEF RowOK, KnowsNote, WritesNote, WritesNewName, KnowsRows, LinkRoutes, NoteRoutes
<1>6. QED
    BY <1>2, <1>3, <1>4, <1>5, LoadPreserves

LEMMA LoadLinkPreserves ==
    ASSUME IInv, NEW w \in Workers, NEW t \in Tags, LoadLink(w, t)
    PROVE  IInv'
<1> DEFINE row == [req[w] EXCEPT !.phase = "loaded", !.t = t]
<1>1. RowOK(req[w]) /\ req[w] \in Transaction /\ t # None
    BY TypedRows, CollaborationAssumption DEF IInv
<1>2. row \in Transaction
    BY <1>1 DEF Transaction
<1>3. row.phase = "loaded" /\ row.route = req[w].route /\ row.t = t /\ row.c = req[w].c
    BY <1>1 DEF Transaction
<1>4. Change(w, row) /\ req[w].phase = "conversation" /\ req[w].route \in LinkRoutes
    BY DEF LoadLink
<1> HIDE DEF row
<1>5. RowOK(row)
    BY <1>1, <1>3, <1>4
       DEF RowOK, KnowsNote, WritesNote, WritesNewName, KnowsRows, LinkRoutes, NoteRoutes,
           TagRoutes
<1>6. QED
    BY <1>2, <1>3, <1>4, <1>5, LoadPreserves

LEMMA InsertLinkPreserves ==
    ASSUME IInv, NEW w \in Workers, InsertLink(w)
    PROVE  IInv'
<1> DEFINE row == [req[w] EXCEPT !.phase = "inserting"]
<1>1. RowOK(req[w]) /\ req[w] \in Transaction
    BY TypedRows DEF IInv
<1>2. row \in Transaction
    BY <1>1 DEF Transaction
<1>3. row.phase = "inserting" /\ row.route = req[w].route /\ row.t = req[w].t
      /\ row.c = req[w].c
    BY <1>1 DEF Transaction
<1>4. Change(w, row) /\ req[w].phase = "loaded" /\ req[w].route = "add_tag"
    BY DEF InsertLink, Loaded
<1> HIDE DEF row
<1>5. RowOK(row)
    BY <1>1, <1>3, <1>4
       DEF RowOK, KnowsNote, WritesNote, WritesNewName, KnowsRows, LinkRoutes, TagRoutes
<1>6. QED
    BY <1>2, <1>3, <1>4, <1>5, LoadPreserves

LEMMA RollbackPreserves ==
    ASSUME IInv, NEW w \in Workers, Rollback(w)
    PROVE  IInv'
    BY EmptyRows, IdleOK, ChangePreserves DEF Rollback

-----------------------------------------------------------------------------
(* The flushes.                                                             *)

LEMMA LinkFlushPreserves ==
    ASSUME IInv, NEW w \in Workers, AddTag(w) \/ RemoveTag(w)
    PROVE  IInv'
<1> DEFINE row == [req[w] EXCEPT !.phase = "flushed"]
<1>1. RowOK(req[w]) /\ req[w] \in Transaction
    BY TypedRows DEF IInv
<1>2. row \in Transaction
    BY <1>1 DEF Transaction
<1>3. row.phase = "flushed" /\ row.route = req[w].route /\ row.t = req[w].t
      /\ row.c = req[w].c
    BY <1>1 DEF Transaction
<1>4. Change(w, row) /\ req[w].phase \in {"loaded", "inserting"} /\ req[w].route \in LinkRoutes
    BY <1>1 DEF AddTag, RemoveTag, Loaded, LinkRoutes, RowOK, KnowsRows
<1> HIDE DEF row
<1>5. row.route \notin NoteRoutes /\ row.route \notin TagRoutes
    BY <1>3, <1>4 DEF LinkRoutes, NoteRoutes, TagRoutes
<1>6. RowOK(row)
    BY <1>1, <1>3, <1>4, <1>5 DEF RowOK, KnowsNote, WritesNote, WritesNewName, KnowsRows
<1>7. \A v \in Workers \ {w} : Apart(row, req[v])
    BY <1>5 DEF Apart
<1>8. QED
    BY <1>2, <1>4, <1>6, <1>7, ChangePreserves

\* A note is written by a request that holds its lock.
LEMMA NoteFlushPreserves ==
    ASSUME IInv, NEW w \in Workers, NEW row \in Transaction, Change(w, row),
           row.phase = "flushed", row.route \in NoteRoutes,
           row.n # None, row.c # None, NoteFree(w, row.n),
           row.note.conversation = row.c,
           note[row.n].conversation \in {None, row.c},
           note[row.n].archived_at => row.note.archived_at
    PROVE  IInv'
<1>1. row.route \notin TagRoutes /\ row.route \notin LinkRoutes
    BY DEF NoteRoutes, TagRoutes, LinkRoutes
<1>2. RowOK(row)
    BY <1>1 DEF RowOK, KnowsNote, WritesNote, WritesNewName, KnowsRows
<1>3. \A v \in Workers \ {w} : Apart(row, req[v])
    BY <1>1 DEF Apart, NoteFree, Flushed
<1>4. QED
    BY <1>2, <1>3, ChangePreserves

LEMMA CreateNotePreserves ==
    ASSUME IInv, NEW w \in Workers, NEW n \in Notes, NEW body \in Texts,
           CreateNote(w, n, body)
    PROVE  IInv'
<1> DEFINE new == [NoNote EXCEPT !.conversation = req[w].c, !.body = body]
<1> DEFINE row == [req[w] EXCEPT !.phase = "flushed", !.n = n, !.note = new]
<1>1. RowOK(req[w]) /\ req[w] \in Transaction /\ n # None
    BY TypedRows, CollaborationAssumption DEF IInv
<1>2. new \in NoteRow /\ new.conversation = req[w].c
    BY <1>1, EmptyRows DEF NoNote, NoteRow, Transaction
<1> HIDE DEF new
<1>3. row \in Transaction
    BY <1>1, <1>2 DEF Transaction
<1>4. row.phase = "flushed" /\ row.route = req[w].route /\ row.n = n /\ row.note = new
      /\ row.c = req[w].c
    BY <1>1 DEF Transaction
<1>5. /\ Change(w, row) /\ req[w].phase = "conversation" /\ req[w].route = "create_note"
      /\ note[n].conversation = None /\ NoteFree(w, n)
    BY DEF CreateNote, new
<1> HIDE DEF row
<1>6. row.c # None /\ row.route \in NoteRoutes
    BY <1>1, <1>4, <1>5 DEF RowOK, KnowsRows, NoteRoutes
<1>7. ~note[n].archived_at
    BY <1>5 DEF IInv, NoteRows
<1>8. QED
    BY <1>1, <1>2, <1>3, <1>4, <1>5, <1>6, <1>7, NoteFlushPreserves

\* An UPDATE that keeps the conversation, and an archived note archived.
LEMMA FlushNotePreserves ==
    ASSUME IInv, NEW w \in Workers, NEW new \in NoteRow,
           req[w].phase = "loaded", req[w].route \in NoteRoutes, FlushNote(w, new),
           new.conversation = note[req[w].n].conversation,
           note[req[w].n].archived_at => new.archived_at
    PROVE  IInv'
<1> DEFINE row == [req[w] EXCEPT !.phase = "flushed", !.note = new]
<1>1. RowOK(req[w]) /\ req[w] \in Transaction
    BY TypedRows DEF IInv
<1>2. row \in Transaction
    BY <1>1 DEF Transaction
<1>3. row.phase = "flushed" /\ row.route = req[w].route /\ row.n = req[w].n
      /\ row.note = new /\ row.c = req[w].c
    BY <1>1 DEF Transaction
<1>4. Change(w, row) /\ NoteFree(w, req[w].n)
    BY DEF FlushNote
<1>5. req[w].n # None /\ req[w].c # None /\ note[req[w].n].conversation = req[w].c
    BY <1>1 DEF RowOK, KnowsNote
<1> HIDE DEF row
<1>6. QED
    BY <1>2, <1>3, <1>4, <1>5, NoteFlushPreserves

LEMMA LoadedNote ==
    ASSUME IInv, NEW w \in Workers, req[w].phase = "loaded", req[w].route \in NoteRoutes
    PROVE  req[w].n \in Notes /\ note[req[w].n] \in NoteRow
<1>1. RowOK(req[w]) /\ req[w] \in Transaction
    BY TypedRows DEF IInv
<1>2. req[w].n \in Notes
    BY <1>1 DEF RowOK, KnowsNote, Transaction
<1>3. QED
    BY <1>2, TypedRows DEF IInv

LEMMA UpdateNotePreserves ==
    ASSUME IInv, NEW w \in Workers, NEW body \in Texts, UpdateNote(w, body)
    PROVE  IInv'
<1> DEFINE old == note[req[w].n]
<1> DEFINE new == Edited(req[w].note, old, body)
<1>1. req[w].phase = "loaded" /\ req[w].route \in NoteRoutes /\ FlushNote(w, new)
    BY DEF UpdateNote, Loaded, NoteRoutes
<1>2. old \in NoteRow
    BY <1>1, LoadedNote
<1>3. new \in NoteRow /\ new.conversation = old.conversation
      /\ new.archived_at = old.archived_at
    BY <1>2 DEF Edited, NoteRow
<1>4. QED
    BY <1>1, <1>3, FlushNotePreserves

LEMMA ArchiveNotePreserves ==
    ASSUME IInv, NEW w \in Workers, ArchiveNote(w)
    PROVE  IInv'
<1> DEFINE old == note[req[w].n]
<1> DEFINE new == [old EXCEPT !.archived_at = TRUE, !.updated_at = TRUE]
<1>1. req[w].phase = "loaded" /\ req[w].route \in NoteRoutes /\ FlushNote(w, new)
    BY DEF ArchiveNote, Loaded, NoteRoutes
<1>2. old \in NoteRow
    BY <1>1, LoadedNote
<1>3. new \in NoteRow /\ new.conversation = old.conversation /\ new.archived_at
    BY <1>2 DEF NoteRow
<1>4. QED
    BY <1>1, <1>3, FlushNotePreserves

\* A tag is written by a request that holds its lock, under a name that nobody
\* else has or is about to have.
LEMMA TagFlushPreserves ==
    ASSUME IInv, NEW w \in Workers, NEW row \in Transaction, Change(w, row),
           row.phase = "flushed", row.route \in TagRoutes, row.t # None,
           TagFree(w, row.t), row.tag.name # None, NameFree(w, row.t, row.tag.name)
    PROVE  IInv'
<1>1. row.route \notin NoteRoutes /\ row.route \notin LinkRoutes
    BY DEF NoteRoutes, TagRoutes, LinkRoutes
<1>2. RowOK(row)
    BY <1>1 DEF RowOK, KnowsNote, WritesNote, WritesNewName, KnowsRows, NameFree, Exists
<1>3. \A v \in Workers \ {w} : Apart(row, req[v])
    BY <1>1 DEF Apart, TagFree, NameFree, WritesTag, Flushed
<1>4. QED
    BY <1>2, <1>3, ChangePreserves

LEMMA CreateTagPreserves ==
    ASSUME IInv, NEW w \in Workers, NEW t \in Tags, NEW new \in TagRow, CreateTag(w, t, new)
    PROVE  IInv'
<1> DEFINE row == [Idle EXCEPT !.phase = "flushed", !.route = "create_tag", !.t = t,
                               !.tag = new]
<1>1. row \in Transaction
    BY EmptyRows DEF Idle, Transaction, TagRoutes
<1>2. row.phase = "flushed" /\ row.route = "create_tag" /\ row.t = t /\ row.tag = new
    BY DEF Idle
<1>3. Change(w, row) /\ TagFree(w, t) /\ new.name # None /\ NameFree(w, t, new.name)
    BY DEF CreateTag
<1>4. t # None /\ "create_tag" \in TagRoutes
    BY CollaborationAssumption DEF TagRoutes
<1> HIDE DEF row
<1>5. QED
    BY <1>1, <1>2, <1>3, <1>4, TagFlushPreserves

\* A name that is not written is that of the committed tag, which no other has.
LEMMA UpdateTagPreserves ==
    ASSUME IInv, NEW w \in Workers, NEW new \in TagRow, UpdateTag(w, new)
    PROVE  IInv'
<1> DEFINE t == req[w].t
<1> DEFINE written ==
        [name |-> IF new.name = req[w].tag.name THEN tag[t].name ELSE new.name,
         description |-> IF new.description = req[w].tag.description
                         THEN tag[t].description ELSE new.description]
<1> DEFINE row == [req[w] EXCEPT !.phase = "flushed", !.tag = written]
<1>1. RowOK(req[w]) /\ req[w] \in Transaction
    BY TypedRows DEF IInv
<1>2. /\ req[w].phase = "loaded" /\ req[w].route = "update_tag" /\ Change(w, row)
      /\ new.name # None /\ TagFree(w, t)
      /\ new.name # req[w].tag.name => NameFree(w, t, new.name)
    BY DEF UpdateTag, Loaded
<1>3. t \in Tags /\ t # None
    BY <1>1, <1>2 DEF RowOK, KnowsRows, Transaction, TagRoutes
<1>4. tag[t] \in TagRow
    BY <1>3, TypedRows DEF IInv
<1>5. written \in TagRow
      /\ written.name = IF new.name = req[w].tag.name THEN tag[t].name ELSE new.name
    BY <1>4 DEF TagRow
<1> HIDE DEF written
<1>6. row \in Transaction
    BY <1>1, <1>5 DEF Transaction
<1>7. row.phase = "flushed" /\ row.route = "update_tag" /\ row.t = t /\ row.tag = written
    BY <1>1, <1>2 DEF Transaction
<1> HIDE DEF row
<1>8. tag[t].name # None
    BY <1>1, <1>2 DEF RowOK, KnowsRows, TagRoutes
<1>9. ASSUME written.name = tag[t].name PROVE NameFree(w, t, written.name)
  <2>1. \A u \in Tags \ {t} :
           tag[u].name # None => Normalized(tag[u].name) # Normalized(tag[t].name)
      BY <1>3, <1>8 DEF IInv, OneTagPerName, Exists
  <2>2. ASSUME NEW v \in Workers \ {w}, WritesTag(v), req[v].t # t
        PROVE  Normalized(req[v].tag.name) # Normalized(tag[t].name)
    <3>1. RowOK(req[v])
        BY DEF IInv
    <3>2. QED
        BY <2>2, <3>1, <1>3, <1>8 DEF RowOK, WritesNewName, WritesTag, Flushed
  <2>3. QED
      BY <1>9, <2>1, <2>2 DEF NameFree, Exists
<1>10. NameFree(w, t, written.name) /\ written.name # None
    BY <1>2, <1>5, <1>8, <1>9
<1>11. QED
    BY <1>2, <1>3, <1>6, <1>7, <1>10, TagFlushPreserves DEF TagRoutes

-----------------------------------------------------------------------------
(* The commit.                                                              *)

\* What a commit does to each row.
LEMMA CommittedRows ==
    ASSUME IInv, NEW w \in Workers, Commit(w)
    PROVE  /\ \A n \in Notes :
                note'[n] = IF req[w].route \in NoteRoutes /\ n = req[w].n
                           THEN req[w].note ELSE note[n]
           /\ \A t \in Tags :
                tag'[t] = IF req[w].route \in TagRoutes /\ t = req[w].t
                          THEN req[w].tag ELSE tag[t]
           /\ req'[w] = Idle
           /\ \A v \in Workers \ {w} : req'[v] = req[v]
    BY DEF Commit, IInv, TypeOK

LEMMA CommitTypeOK ==
    ASSUME IInv, NEW w \in Workers, Commit(w)
    PROVE  TypeOK'
<1>1. RowOK(req[w]) /\ req[w] \in Transaction /\ Idle \in Transaction
    BY TypedRows, EmptyRows DEF IInv
<1>2. req[w].note \in NoteRow /\ req[w].tag \in TagRow
    BY <1>1 DEF Transaction
<1>3. note' \in [Notes -> NoteRow]
    BY <1>2 DEF Commit, IInv, TypeOK
<1>4. tag' \in [Tags -> TagRow]
    BY <1>2 DEF Commit, IInv, TypeOK
<1>5. req' \in [Workers -> Transaction] /\ conversation' = conversation
    BY <1>1 DEF Commit, IInv, TypeOK
<1>6. link' \subseteq Conversations \X Tags
  <2>1. CASE req[w].route = "add_tag"
    <3>1. req[w].c \in Conversations /\ req[w].t \in Tags
        BY <1>1, <2>1 DEF RowOK, KnowsRows, Commit, Flushed, LinkRoutes, Transaction
    <3>2. link' = link \union {<<req[w].c, req[w].t>>}
        BY <2>1 DEF Commit
    <3>3. QED
        BY <3>1, <3>2 DEF IInv, TypeOK
  <2>2. CASE req[w].route # "add_tag"
    <3>1. link' \subseteq link
        BY <2>2 DEF Commit
    <3>2. QED
        BY <3>1 DEF IInv, TypeOK
  <2>3. QED
      BY <2>1, <2>2
<1>7. QED
    BY <1>3, <1>4, <1>5, <1>6 DEF IInv, TypeOK

\* What a request relies on survives the commit of one that writes other rows.
LEMMA CommitKeepsRowOK ==
    ASSUME NEW row \in Transaction, NEW done \in Transaction, done.phase = "flushed",
           RowOK(row), RowOK(done), Apart(row, done),
           \A n \in Notes :
               note'[n] = IF done.route \in NoteRoutes /\ n = done.n THEN done.note
                          ELSE note[n],
           \A t \in Tags :
               tag'[t] = IF done.route \in TagRoutes /\ t = done.t THEN done.tag
                         ELSE tag[t]
    PROVE  RowOK(row)'
<1>1. row.n \in Notes \union {None} /\ row.t \in Tags \union {None}
    BY DEF Transaction
<1>2. KnowsNote(row)'
    BY <1>1, CollaborationAssumption DEF RowOK, KnowsNote, WritesNote
<1>3. WritesNote(row)'
    BY <1>1 DEF RowOK, WritesNote, Apart
<1>4. WritesNewName(row)'
    BY <1>1 DEF RowOK, WritesNewName, Apart
<1>5. KnowsRows(row)'
    BY <1>1, CollaborationAssumption DEF RowOK, KnowsRows, WritesNewName
<1>6. QED
    BY <1>2, <1>3, <1>4, <1>5 DEF RowOK

LEMMA CommitPreserves ==
    ASSUME IInv, NEW w \in Workers, Commit(w)
    PROVE  IInv'
<1> DEFINE r == req[w]
<1>1. RowOK(r) /\ r \in Transaction /\ r.phase = "flushed"
    BY TypedRows DEF IInv, Commit, Flushed
<1>2. /\ \A n \in Notes :
            note'[n] = IF r.route \in NoteRoutes /\ n = r.n THEN r.note ELSE note[n]
      /\ \A t \in Tags :
            tag'[t] = IF r.route \in TagRoutes /\ t = r.t THEN r.tag ELSE tag[t]
      /\ req'[w] = Idle
      /\ \A v \in Workers \ {w} : req'[v] = req[v]
    BY CommittedRows
<1> HIDE DEF r
<1>3. NoteRows'
  <2>1. ASSUME NEW n \in Notes, note'[n].archived_at PROVE note'[n].conversation # None
      BY <1>1, <1>2, <2>1 DEF IInv, NoteRows, RowOK, WritesNote
  <2>2. QED
      BY <2>1 DEF NoteRows
<1>4. OneTagPerName'
  <2>1. ASSUME NEW t \in Tags, NEW u \in Tags, t # u,
               tag'[t].name # None, tag'[u].name # None
        PROVE  Normalized(tag'[t].name) # Normalized(tag'[u].name)
      BY <1>1, <1>2, <2>1 DEF IInv, OneTagPerName, Exists, RowOK, WritesNewName
  <2>2. QED
      BY <2>1 DEF OneTagPerName, Exists, Normalized
<1>5. ASSUME NEW v \in Workers PROVE RowOK(req[v])'
  <2>1. CASE v = w
      BY <2>1, <1>2, IdleOK DEF RowOK, KnowsNote, WritesNote, WritesNewName, KnowsRows, Idle
  <2>2. CASE v # w
    <3>1. RowOK(req[v]) /\ req[v] \in Transaction /\ Apart(req[v], r) /\ req'[v] = req[v]
        BY <2>2, <1>2, TypedRows DEF IInv, r
    <3>2. PICK row \in Transaction : row = req[v]
        BY <3>1
    <3>3. PICK done \in Transaction : done = r
        BY <1>1
    <3>4. RowOK(row)'
        BY <3>1, <3>2, <3>3, <1>1, <1>2, CommitKeepsRowOK
    <3>5. req'[v] = row
        BY <3>1, <3>2
    <3>6. QED
        BY <3>4, <3>5 DEF RowOK, KnowsNote, WritesNote, WritesNewName, KnowsRows
  <2>3. QED
      BY <2>1, <2>2
<1>6. ASSUME NEW u \in Workers, NEW v \in Workers, u # v PROVE Apart(req'[u], req'[v])
    BY <1>2, <1>6, IdleOK DEF IInv
<1>7. \A u, v \in Workers : u # v => Apart(req[u], req[v])'
    BY <1>6 DEF Apart
<1>8. QED
    BY CommitTypeOK, <1>3, <1>4, <1>5, <1>7 DEF IInv

-----------------------------------------------------------------------------
(* Every step preserves the invariant.                                      *)

LEMMA ChangeConversationPreserves ==
    ASSUME IInv, NEW c \in Conversations, NEW status \in {"open", "closed", "archived"},
           ChangeConversation(c, status)
    PROVE  IInv'
<1>1. note' = note /\ tag' = tag /\ link' = link /\ req' = req
    BY DEF ChangeConversation
<1>2. TypeOK'
    BY <1>1 DEF ChangeConversation, IInv, TypeOK
<1>3. QED
    BY <1>1, <1>2
       DEF IInv, NoteRows, OneTagPerName, Exists, RowOK, KnowsNote, WritesNote,
           WritesNewName, KnowsRows, Apart

LEMMA StepPreserves ==
    ASSUME IInv, NEW w \in Workers, Step(w)
    PROVE  IInv'
<1>1. CASE \E route \in Routes, c \in Conversations : LoadConversation(w, route, c)
    BY <1>1, LoadConversationPreserves
<1>2. CASE \E n \in Notes, body \in Texts : CreateNote(w, n, body)
    BY <1>2, CreateNotePreserves
<1>3. CASE \E route \in Routes, n \in Notes : LoadNote(w, route, n)
    BY <1>3, LoadNotePreserves
<1>4. CASE LoadConversationOfNote(w)
    BY <1>4, LoadConversationOfNotePreserves
<1>5. CASE \E body \in Texts : UpdateNote(w, body)
    BY <1>5, UpdateNotePreserves
<1>6. CASE ArchiveNote(w)
    BY <1>6, ArchiveNotePreserves
<1>7. CASE \E t \in Tags, row \in TagRow : CreateTag(w, t, row)
    BY <1>7, CreateTagPreserves
<1>8. CASE \E t \in Tags : LoadTag(w, t)
    BY <1>8, LoadTagPreserves
<1>9. CASE \E row \in TagRow : UpdateTag(w, row)
    BY <1>9, UpdateTagPreserves
<1>10. CASE \E t \in Tags : LoadLink(w, t)
    BY <1>10, LoadLinkPreserves
<1>11. CASE AddTag(w) \/ RemoveTag(w)
    BY <1>11, LinkFlushPreserves
<1>12. CASE Commit(w)
    BY <1>12, CommitPreserves
<1>13. CASE Rollback(w)
    BY <1>13, RollbackPreserves
<1>14. CASE InsertLink(w)
    BY <1>14, InsertLinkPreserves
<1>15. QED
    BY <1>1, <1>2, <1>3, <1>4, <1>5, <1>6, <1>7, <1>8, <1>9, <1>10, <1>11, <1>12, <1>13,
       <1>14 DEF Step

LEMMA NextPreserves == IInv /\ [Next]_vars => IInv'
<1> SUFFICES ASSUME IInv, [Next]_vars PROVE IInv'
    OBVIOUS
<1>1. CASE \E w \in Workers : Step(w)
    BY <1>1, StepPreserves
<1>2. CASE \E c \in Conversations, status \in {"open", "closed", "archived"} :
              ChangeConversation(c, status)
    BY <1>2, ChangeConversationPreserves
<1>3. CASE UNCHANGED vars
    BY <1>3
       DEF vars, IInv, TypeOK, NoteRows, OneTagPerName, Exists, RowOK, KnowsNote,
           WritesNote, WritesNewName, KnowsRows, Apart
<1>4. QED
    BY <1>1, <1>2, <1>3 DEF Next

\* The invariant holds of every execution of the routes on notes and tags
\* (api/routes/inbox_collaboration.py) over the locks, unique indexes and
\* triggers of conversation_notes, conversation_tags and conversation_tag_links.
THEOREM Invariance == Spec => []IInv
<1>1. QED
    BY InitInv, NextPreserves, PTL DEF Spec

\* The rows that the routes on notes and tags commit, and those that a request
\* keeps between its statements, have the columns of their tables.
THEOREM TypeCorrectness == Spec => []TypeOK
<1>1. IInv => TypeOK
    BY DEF IInv
<1>2. QED
    BY <1>1, Invariance, PTL

\* However create_tag and update_tag interleave, no two tags of a company have
\* the same normalized_name, letters of the other case included.
THEOREM NameCorrectness == Spec => []OneTagPerName
<1>1. IInv => OneTagPerName
    BY DEF IInv
<1>2. QED
    BY <1>1, Invariance, PTL

-----------------------------------------------------------------------------
(* What a step never does.                                                  *)

LEMMA OnlyCommitsChangeNotes ==
    ASSUME NEW w \in Workers, Step(w), ~Commit(w)
    PROVE  note' = note
    BY DEF Step, LoadConversation, CreateNote, LoadNote, LoadConversationOfNote, UpdateNote,
           ArchiveNote, FlushNote, CreateTag, LoadTag, UpdateTag, LoadLink, InsertLink, AddTag,
           RemoveTag, Rollback, Change, committed

\* An update_note that loaded the note before an archive_note committed never
\* undoes it: the UPDATE writes the columns it changed over the latest row.
THEOREM ArchiveCorrectness == Spec => ArchivedNoteStays
<1> DEFINE Stays(n) ==
        note[n].archived_at =>
            note'[n].archived_at /\ note'[n].conversation = note[n].conversation
<1>1. IInv /\ [Next]_vars => [\A n \in Notes : Stays(n)]_vars
  <2> SUFFICES ASSUME IInv, Next, NEW n \in Notes, note[n].archived_at
               PROVE  note'[n].archived_at /\ note'[n].conversation = note[n].conversation
      OBVIOUS
  <2>1. CASE note' = note
      BY <2>1
  <2>2. CASE \E w \in Workers : Commit(w)
    <3>1. PICK w \in Workers : Commit(w)
        BY <2>2
    <3>2. RowOK(req[w]) /\ req[w].phase = "flushed"
        BY <3>1 DEF IInv, Commit, Flushed
    <3>3. note'[n] = IF req[w].route \in NoteRoutes /\ n = req[w].n
                     THEN req[w].note ELSE note[n]
        BY <3>1, CommittedRows
    <3>4. note[n].conversation # None
        BY DEF IInv, NoteRows
    <3>5. QED
        BY <3>2, <3>3, <3>4 DEF RowOK, WritesNote
  <2>3. QED
      BY <2>1, <2>2, OnlyCommitsChangeNotes DEF Next, ChangeConversation
<1>2. QED
    BY <1>1, Invariance, PTL DEF Spec, ArchivedNoteStays

\* A request that flushes a note or comes to insert a link finds the conversation
\* writable at that moment, whatever it read before: the trigger has looked.
LEMMA FlushRequiresWritable ==
    ASSUME IInv, NEW w \in Workers, Step(w), ~PastTrigger(w), PastTrigger(w)',
           req'[w].route \in NoteRoutes \union {"add_tag"}
    PROVE  conversation[req'[w].c] = "open"
<1>1. req[w] \in Transaction /\ req \in [Workers -> Transaction]
    BY TypedRows DEF IInv, TypeOK
<1>2. CASE \E n \in Notes, body \in Texts : CreateNote(w, n, body)
    BY <1>1, <1>2 DEF CreateNote, Change, RequireWritable, Transaction
<1>3. CASE \E row : FlushNote(w, row)
    BY <1>1, <1>3 DEF FlushNote, Change, RequireWritable, Transaction
<1>4. CASE InsertLink(w) \/ AddTag(w)
    BY <1>1, <1>4 DEF InsertLink, AddTag, PastTrigger, Change, RequireWritable, Transaction
<1>5. CASE RemoveTag(w)
    BY <1>1, <1>5 DEF RemoveTag, Loaded, Change, Transaction, NoteRoutes
<1>6. CASE \E t \in Tags, row \in TagRow : CreateTag(w, t, row)
    BY <1>1, <1>6 DEF CreateTag, Change, Idle, Transaction, NoteRoutes
<1>7. CASE \E row \in TagRow : UpdateTag(w, row)
    BY <1>1, <1>7 DEF UpdateTag, Loaded, Change, Transaction, NoteRoutes
<1>8. CASE \/ \E route \in Routes, c \in Conversations : LoadConversation(w, route, c)
           \/ \E route \in Routes, n \in Notes : LoadNote(w, route, n)
           \/ LoadConversationOfNote(w)
           \/ \E t \in Tags : LoadTag(w, t)
           \/ \E t \in Tags : LoadLink(w, t)
           \/ Commit(w)
           \/ Rollback(w)
  <2>1. CASE LoadConversationOfNote(w) \/ \E t \in Tags : LoadLink(w, t)
    <3>1. \/ req' = [req EXCEPT ![w] = [req[w] EXCEPT !.phase = "loaded"]]
          \/ \E t \in Tags : req' = [req EXCEPT ![w] = [req[w] EXCEPT !.phase = "loaded", !.t = t]]
        BY <2>1 DEF LoadConversationOfNote, LoadLink, Change
    <3>2. req'[w].phase = "loaded"
        BY <1>1, <3>1 DEF Transaction
    <3>3. QED
        BY <3>2 DEF PastTrigger, Flushed
  <2>2. CASE Commit(w) \/ Rollback(w)
      BY <1>1, <2>2 DEF Commit, Rollback, Change, Idle, PastTrigger, Flushed
  <2>3. CASE \E route \in Routes, c \in Conversations : LoadConversation(w, route, c)
      BY <1>1, <2>3 DEF LoadConversation, Change, Idle, PastTrigger, Flushed
  <2>4. CASE \/ \E route \in Routes, n \in Notes : LoadNote(w, route, n)
             \/ \E t \in Tags : LoadTag(w, t)
      BY <1>1, <2>4 DEF LoadNote, LoadTag, Change, Idle, PastTrigger, Flushed
  <2>5. QED
      BY <1>8, <2>1, <2>2, <2>3, <2>4
<1>9. QED
    BY <1>2, <1>3, <1>4, <1>5, <1>6, <1>7, <1>8 DEF Step, UpdateNote, ArchiveNote

LEMMA StepOfOne ==
    ASSUME IInv, NEW w \in Workers, Step(w)
    PROVE  \A v \in Workers \ {w} : req'[v] = req[v]
    BY DEF IInv, TypeOK, Step, LoadConversation, CreateNote, LoadNote, LoadConversationOfNote,
           UpdateNote, ArchiveNote, FlushNote, CreateTag, LoadTag, UpdateTag, LoadLink, InsertLink,
           AddTag, RemoveTag, Commit, Rollback, Change

\* A request that the trigger let through goes on with the same row, until it ends.
LEMMA PastTriggerGoesOn ==
    ASSUME IInv, NEW w \in Workers, Step(w), PastTrigger(w), PastTrigger(w)'
    PROVE  req'[w].c = req[w].c /\ req'[w].route = req[w].route
<1>1. req \in [Workers -> Transaction] /\ req[w] \in Transaction
      /\ req[w].phase \in {"inserting", "flushed"}
    BY TypedRows DEF IInv, TypeOK, PastTrigger, Flushed
<1>2. AddTag(w) \/ Commit(w) \/ Rollback(w)
    BY <1>1
       DEF Step, LoadConversation, CreateNote, LoadNote, LoadConversationOfNote, UpdateNote,
           ArchiveNote, CreateTag, LoadTag, UpdateTag, LoadLink, InsertLink, RemoveTag, Loaded
<1>3. CASE AddTag(w)
    BY <1>1, <1>3 DEF AddTag, Change, Transaction
<1>4. CASE Commit(w) \/ Rollback(w)
  <2>1. req'[w] = Idle
      BY <1>1, <1>4 DEF Commit, Rollback, Change
  <2>2. QED
      BY <2>1 DEF PastTrigger, Flushed, Idle
<1>5. QED
    BY <1>2, <1>3, <1>4

\* After a conversation is closed or archived, no create_note, update_note,
\* archive_note or add_tag that the trigger had not let through gets to commit.
THEOREM StragglerCorrectness == Spec => OnlyStragglersCommit
<1> DEFINE NoneJoins ==
        \A c \in Conversations :
            conversation[c] # "open" => Stragglers(c)' \subseteq Stragglers(c)
<1>1. IInv /\ [Next]_vars => [NoneJoins]_vars
  <2> SUFFICES ASSUME IInv, Next, NEW c \in Conversations, conversation[c] # "open",
                      NEW v \in Workers, v \in Stragglers(c)'
               PROVE  v \in Stragglers(c)
      BY DEF Stragglers
  <2>1. PastTrigger(v)' /\ req'[v].c = c /\ req'[v].route \in NoteRoutes \union {"add_tag"}
      BY DEF Stragglers
  <2>2. CASE req'[v] = req[v]
      BY <2>1, <2>2 DEF Stragglers, PastTrigger, Flushed
  <2>3. CASE Step(v) /\ PastTrigger(v)
    <3>1. req'[v].c = req[v].c /\ req'[v].route = req[v].route
        BY <2>1, <2>3, PastTriggerGoesOn
    <3>2. QED
        BY <2>1, <2>3, <3>1 DEF Stragglers
  <2>4. CASE Step(v) /\ ~PastTrigger(v)
      BY <2>1, <2>4, FlushRequiresWritable
  <2>5. QED
      BY <2>2, <2>3, <2>4, StepOfOne DEF Next, ChangeConversation
<1>2. QED
    BY <1>1, Invariance, PTL DEF Spec, OnlyStragglersCommit
=============================================================================
