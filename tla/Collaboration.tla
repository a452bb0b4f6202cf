---------------------------- MODULE Collaboration ----------------------------
(***************************************************************************)
(* What the members of a company add to its conversations: internal notes, *)
(* tags, and the links of tags to conversations.                           *)
(*                                                                         *)
(* Requests are transactions as in Inbox.  A note or a link is inserted    *)
(* without writing its conversation, so that nothing makes the request     *)
(* wait for another one that closes or archives it: only the trigger looks *)
(* at the conversation again, at the flush.  The status of a conversation  *)
(* changes here in one step, the commit of a request of Inbox.             *)
(***************************************************************************)
EXTENDS Naturals

CONSTANTS
    Workers,        \* the threads that serve requests
    Conversations,  \* identifiers of conversations
    Notes,          \* identifiers of notes
    Tags,           \* identifiers of tags
    Words,          \* names of tags, up to the case of their letters
    Texts,          \* bodies of notes and descriptions of tags
    Routes,         \* the routes that clients call
    None            \* SQL NULL

ASSUME CollaborationAssumption == None \notin Conversations \union Notes \union Tags
ASSUME NamesAssumption == None \notin [word: Words, capital: BOOLEAN]

VARIABLES
    conversation,  \* committed conversations.status, every writable one "open"
    note,          \* committed rows of conversation_notes
    tag,           \* committed rows of conversation_tags
    link,          \* committed rows of conversation_tag_links
    req            \* what each worker's transaction has loaded and written

vars == <<conversation, note, tag, link, req>>

committed == <<conversation, note, tag, link>>

Names == [word: Words, capital: BOOLEAN]

\* The column normalized_name: lower(trim(name)).
Normalized(name) == name.word

\* A note belongs to its author: a request of another member is refused.
NoteRow ==
    [conversation: Conversations \union {None}, body: Texts \union {None},
     updated_at: BOOLEAN, archived_at: BOOLEAN]

TagRow == [name: Names \union {None}, description: Texts \union {None}]

NoNote ==
    [conversation |-> None, body |-> None, updated_at |-> FALSE, archived_at |-> FALSE]

NoTag == [name |-> None, description |-> None]

NoteRoutes == {"create_note", "update_note", "archive_note"}

TagRoutes == {"create_tag", "update_tag"}

LinkRoutes == {"add_tag", "remove_tag"}

\* note and tag: the row as it was loaded, and from the flush on as it will be.
Transaction ==
    [phase: {"idle", "conversation", "note", "loaded", "inserting", "flushed"},
     route: NoteRoutes \union TagRoutes \union LinkRoutes \union {None},
     c: Conversations \union {None}, n: Notes \union {None}, t: Tags \union {None},
     note: NoteRow, tag: TagRow]

Idle ==
    [phase |-> "idle", route |-> None, c |-> None, n |-> None, t |-> None,
     note |-> NoNote, tag |-> NoTag]

Init ==
    /\ conversation = [c \in Conversations |-> "open"]
    /\ note = [n \in Notes |-> NoNote]
    /\ tag = [t \in Tags |-> NoTag]
    /\ link = {}
    /\ req = [w \in Workers |-> Idle]

-----------------------------------------------------------------------------
(* Rows, locks and triggers.                                                *)

EnsureWritable(c) == conversation[c] = "open"

\* Mutant: the trigger is missing.
AlwaysWritable(c) == TRUE

\* The trigger require_writable_conversation.
RequireWritable(c) == conversation[c] = "open"

Flushed(w) == req[w].phase = "flushed"

NoteFree(w, n) == \A v \in Workers \ {w} : ~(Flushed(v) /\ req[v].n = n)

Exists(t) == tag[t].name # None

WritesTag(w) == Flushed(w) /\ req[w].route \in TagRoutes

TagFree(w, t) == \A v \in Workers \ {w} : ~(WritesTag(v) /\ req[v].t = t)

LinkFree(w, c, t) ==
    \A v \in Workers \ {w} :
        ~(Flushed(v) /\ req[v].route \in LinkRoutes /\ req[v].c = c /\ req[v].t = t)

\* Mutant: the unique constraint is on the name as it was typed.
NameUnused(w, t, name) ==
    /\ \A u \in Tags \ {t} : tag[u].name # name
    /\ \A v \in Workers \ {w} : WritesTag(v) /\ req[v].t # t => req[v].tag.name # name

\* The unique constraint on normalized_name: a request that writes the name of
\* a transaction in progress waits for its end.
NameFree(w, t, name) ==
    /\ \A u \in Tags \ {t} : Exists(u) => Normalized(tag[u].name) # Normalized(name)
    /\ \A v \in Workers \ {w} :
          WritesTag(v) /\ req[v].t # t => Normalized(req[v].tag.name) # Normalized(name)

Change(w, row) == req' = [req EXCEPT ![w] = row] /\ UNCHANGED committed

Loaded(w, route) == req[w].phase = "loaded" /\ req[w].route = route

-----------------------------------------------------------------------------
(* Notes.                                                                   *)

\* create_note, add_tag and remove_tag load the conversation first.
LoadConversation(w, route, c) ==
    /\ req[w].phase = "idle"
    /\ route \in Routes \intersect ({"create_note"} \union LinkRoutes)
    /\ EnsureWritable(c)
    /\ Change(w, [Idle EXCEPT !.phase = "conversation", !.route = route, !.c = c])

CreateNote(w, n, body) ==
    /\ req[w].phase = "conversation" /\ req[w].route = "create_note"
    /\ note[n].conversation = None /\ NoteFree(w, n)
    /\ RequireWritable(req[w].c)
    /\ Change(w, [req[w] EXCEPT !.phase = "flushed", !.n = n,
                      !.note = [NoNote EXCEPT !.conversation = req[w].c, !.body = body]])

\* update_note and archive_note load the note, then its conversation.  An
\* archived note is refused by the first and returned unchanged by the second.
LoadNote(w, route, n) ==
    /\ req[w].phase = "idle"
    /\ route \in Routes \intersect {"update_note", "archive_note"}
    /\ note[n].conversation # None /\ ~note[n].archived_at
    /\ Change(w, [Idle EXCEPT !.phase = "note", !.route = route, !.n = n,
                              !.c = note[n].conversation, !.note = note[n]])

LoadConversationOfNote(w) ==
    /\ req[w].phase = "note"
    /\ EnsureWritable(req[w].c)
    /\ Change(w, [req[w] EXCEPT !.phase = "loaded"])

\* The UPDATE of a note, which writes the columns that the request changed over
\* the latest row.
FlushNote(w, row) ==
    /\ NoteFree(w, req[w].n)
    /\ RequireWritable(req[w].c)
    /\ Change(w, [req[w] EXCEPT !.phase = "flushed", !.note = row])

\* Mutants: the UPDATE writes every column as it was loaded; the columns of
\* body and updated_at are exchanged.
EditedAsRead(seen, row, body) == [seen EXCEPT !.body = body, !.updated_at = TRUE]

EditedColumns(seen, row, body) == [row EXCEPT !.body = TRUE, !.updated_at = body]

Edited(seen, row, body) ==
    [row EXCEPT !.body = IF body = seen.body THEN @ ELSE body, !.updated_at = TRUE]

UpdateNote(w, body) ==
    /\ Loaded(w, "update_note")
    /\ FlushNote(w, Edited(req[w].note, note[req[w].n], body))

ArchiveNote(w) ==
    /\ Loaded(w, "archive_note")
    /\ FlushNote(w, [note[req[w].n] EXCEPT !.archived_at = TRUE, !.updated_at = TRUE])

-----------------------------------------------------------------------------
(* Tags.                                                                    *)

CreateTag(w, t, row) ==
    /\ req[w].phase = "idle" /\ "create_tag" \in Routes
    /\ ~Exists(t) /\ TagFree(w, t)
    /\ row.name # None /\ NameFree(w, t, row.name)
    /\ Change(w, [Idle EXCEPT !.phase = "flushed", !.route = "create_tag", !.t = t, !.tag = row])

LoadTag(w, t) ==
    /\ req[w].phase = "idle" /\ "update_tag" \in Routes
    /\ Exists(t)
    /\ Change(w, [Idle EXCEPT !.phase = "loaded", !.route = "update_tag", !.t = t,
                              !.tag = tag[t]])

\* A field that the request leaves out, or sets to its loaded value, is not
\* written; nothing is, and no lock taken, if that is so of both.
UpdateTag(w, new) ==
    LET seen == req[w].tag
        row == tag[req[w].t]
    IN  /\ Loaded(w, "update_tag")
        /\ new.name # None /\ new # seen
        /\ TagFree(w, req[w].t)
        /\ new.name # seen.name => NameFree(w, req[w].t, new.name)
        /\ Change(w, [req[w] EXCEPT
               !.phase = "flushed",
               !.tag = [name |-> IF new.name = seen.name THEN row.name ELSE new.name,
                        description |-> IF new.description = seen.description
                                        THEN row.description ELSE new.description]])

\* The link is looked up: add_tag goes on if it is missing, remove_tag if it is
\* there.
LoadLink(w, t) ==
    /\ req[w].phase = "conversation" /\ req[w].route \in LinkRoutes
    /\ Exists(t)
    /\ <<req[w].c, t>> \in link <=> req[w].route = "remove_tag"
    /\ Change(w, [req[w] EXCEPT !.phase = "loaded", !.t = t])

\* The INSERT of a link runs the trigger before it comes to the primary key,
InsertLink(w) ==
    /\ Loaded(w, "add_tag")
    /\ RequireWritable(req[w].c)
    /\ Change(w, [req[w] EXCEPT !.phase = "inserting"])

\* where it waits for the requests that write the same link, and fails, and the
\* request with it, if there is one then.
AddTag(w) ==
    /\ req[w].phase = "inserting"
    /\ <<req[w].c, req[w].t>> \notin link /\ LinkFree(w, req[w].c, req[w].t)
    /\ Change(w, [req[w] EXCEPT !.phase = "flushed"])

\* No trigger is run by a DELETE.  That of a link removed meanwhile finds no
\* row, and leaves nothing to commit.
RemoveTag(w) ==
    /\ Loaded(w, "remove_tag")
    /\ <<req[w].c, req[w].t>> \in link /\ LinkFree(w, req[w].c, req[w].t)
    /\ Change(w, [req[w] EXCEPT !.phase = "flushed"])

-----------------------------------------------------------------------------
(* The end of a request, and the requests of Inbox.                         *)

Commit(w) ==
    LET r == req[w]
    IN  /\ Flushed(w)
        /\ note' = IF r.route \in NoteRoutes THEN [note EXCEPT ![r.n] = r.note] ELSE note
        /\ tag' = IF r.route \in TagRoutes THEN [tag EXCEPT ![r.t] = r.tag]
                  ELSE tag
        /\ link' = CASE r.route = "add_tag" -> link \union {<<r.c, r.t>>}
                     [] r.route = "remove_tag" -> link \ {<<r.c, r.t>>}
                     [] OTHER -> link
        /\ req' = [req EXCEPT ![w] = Idle]
        /\ UNCHANGED conversation

Rollback(w) ==
    /\ req[w].phase # "idle"
    /\ Change(w, Idle)

\* The commit of a close, a reopen or an archive, as Inbox allows them.
ChangeConversation(c, status) ==
    /\ conversation[c] # "archived" /\ conversation[c] # status
    /\ conversation[c] = "closed" => status = "open"
    /\ conversation' = [conversation EXCEPT ![c] = status]
    /\ UNCHANGED <<note, tag, link, req>>

Step(w) ==
    \/ \E route \in Routes, c \in Conversations : LoadConversation(w, route, c)
    \/ \E n \in Notes, body \in Texts : CreateNote(w, n, body)
    \/ \E route \in Routes, n \in Notes : LoadNote(w, route, n)
    \/ LoadConversationOfNote(w)
    \/ \E body \in Texts : UpdateNote(w, body)
    \/ ArchiveNote(w)
    \/ \E t \in Tags, row \in TagRow : CreateTag(w, t, row)
    \/ \E t \in Tags : LoadTag(w, t)
    \/ \E row \in TagRow : UpdateTag(w, row)
    \/ \E t \in Tags : LoadLink(w, t)
    \/ InsertLink(w)
    \/ AddTag(w)
    \/ RemoveTag(w)
    \/ Commit(w)
    \/ Rollback(w)

Next ==
    \/ \E w \in Workers : Step(w)
    \/ \E c \in Conversations, status \in {"open", "closed", "archived"} :
          ChangeConversation(c, status)

Spec == Init /\ [][Next]_vars

-----------------------------------------------------------------------------
(* What the routes guarantee.                                               *)

TypeOK ==
    /\ conversation \in [Conversations -> {"open", "closed", "archived"}]
    /\ note \in [Notes -> NoteRow]
    /\ tag \in [Tags -> TagRow]
    /\ link \subseteq Conversations \X Tags
    /\ req \in [Workers -> Transaction]

\* "A tag with this normalized name already exists": of concurrent creations
\* and renamings, whatever each has read, no two leave the same name.
OneTagPerName ==
    \A t, u \in Tags :
        Exists(t) /\ Exists(u) /\ Normalized(tag[t].name) = Normalized(tag[u].name) =>
            t = u

\* An edit that loaded a note before it was archived may still change its body,
\* but never brings the note back or moves it.
ArchivedNoteStays ==
    [][\A n \in Notes :
          note[n].archived_at =>
              note'[n].archived_at /\ note'[n].conversation = note[n].conversation]_vars

\* Requests that write a child row of the conversation, or wait to write it, after
\* its trigger, and may commit.
PastTrigger(w) == Flushed(w) \/ req[w].phase = "inserting"

Stragglers(c) ==
    {w \in Workers :
        PastTrigger(w) /\ req[w].c = c /\ req[w].route \in NoteRoutes \union {"add_tag"}}

\* Once a conversation is closed or archived, the requests that can still change
\* its notes or add a tag are those that the trigger let through before: none joins
\* them, even one that has found the conversation writable.
OnlyStragglersCommit ==
    [][\A c \in Conversations :
          conversation[c] # "open" => Stragglers(c)' \subseteq Stragglers(c)]_vars
=============================================================================
