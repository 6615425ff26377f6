----------------------------- MODULE NotesRepo -----------------------------
(***************************************************************************)
(* The notes of one workspace in one SQLite database, and the HTTP         *)
(* requests that work on them at the same time (src/src/services/notes.rs, *)
(* src/src/repositories/notes, src/src/repositories/taxonomy.rs).          *)
(*                                                                         *)
(* A request that changes an existing note finds it with a query of its    *)
(* own and changes it in a transaction begun afterwards; other requests    *)
(* fall between the two.  A transaction is one step: SQLite serializes     *)
(* writers, and a transaction whose first read has been overtaken fails    *)
(* instead of writing.                                                     *)
(*                                                                         *)
(* Readers page through the recent notes.  Each page is a request, and     *)
(* each but the first makes two queries: the cursor's note, then the page. *)
(*                                                                         *)
(* An operator marked Variant is a wrong version of the one that follows   *)
(* it; the specification does not use it.                                  *)
(***************************************************************************)
EXTENDS Naturals, FiniteSets

CONSTANTS
    Task,          \* requests in flight that change a note
    Reader,        \* clients that page through the recent notes
    NoteId,        \* the ids new_id can give to a note
    IdOrder,       \* their order as strings, unrelated to their age
    Ref,           \* note references: full ids and prefixes
    Matches,       \* the ids that begin with a reference
    Name,          \* field names
    Inbox,         \* the name an explicit null stands for in an update
    Tag,           \* tag paths
    Prefixes,      \* a path and the paths above it
    Role,          \* roles of a note
    CreateInput,   \* inputs tried for a new note
    UpdateInput,   \* inputs tried for an update
    PageSize,      \* limit of a page
    Ticks,         \* seconds that may pass before a transaction
    MaxTx,         \* bound: transactions ever committed
    None,          \* no value
    Keep           \* an absent member of an update

ASSUME IdAssumption ==
    /\ IdOrder \in [NoteId -> Nat]
    /\ \A m, n \in NoteId : IdOrder[m] = IdOrder[n] => m = n
    /\ Matches \in [Ref -> SUBSET NoteId]
ASSUME TagAssumption ==
    /\ Prefixes \in [Tag -> SUBSET Tag]
    /\ \A t \in Tag : t \in Prefixes[t] /\ \A p \in Prefixes[t] : Prefixes[p] \subseteq Prefixes[t]
ASSUME InputAssumption ==
    /\ Inbox \in Name
    /\ CreateInput \subseteq [field : Name \cup {None}, tags : SUBSET Tag,
                              links : SUBSET Ref, role : Role]
    /\ UpdateInput \subseteq [field : Name \cup {None, Keep},
                              tags : {Keep} \cup SUBSET Tag,
                              links : {Keep} \cup SUBSET Ref]
ASSUME BoundsAssumption == 
    PageSize \in Nat \ {0} /\ MaxTx \in Nat /\ Ticks \subseteq {0, 1}
ASSUME NoneAssumption ==
    /\ None \notin Name \cup NoteId \cup Role \cup {Keep}
    /\ None \notin NoteId \X Nat
    /\ Keep \notin Name /\ \A s \in (SUBSET Tag) \cup (SUBSET Ref) : s # Keep

VARIABLES
    db,    \* the tables, the number of commits and the clock
    req,   \* what each task has looked up and is about to do
    walk   \* how far each reader has come

vars == <<db, req, walk>>

\* Ids made by new_id: unique, so the name, note or link and the transaction
\* they are made in stand for them.
FieldId == Name \X (1 .. MaxTx)
RevisionId == NoteId \X (1 .. MaxTx)

NoteRow == [text : RevisionId, field : FieldId \cup {None}, role : Role,
            created : Nat, updated : Nat, archived : BOOLEAN, deleted : BOOLEAN,
            revision : RevisionId]

RevisionRow == [note : NoteId, text : RevisionId, created : Nat]

LinkRow == NoteId \X NoteId \X Ref \X (1 .. MaxTx)

EmptyDb == [notes |-> [n \in {} |-> None], revisions |-> [r \in {} |-> None],
            fields |-> {}, tags |-> {}, noteTags |-> {}, links |-> {},
            facts |-> {}, tx |-> 0, now |-> 0]

-----------------------------------------------------------------------------
\* Look-ups.

NotesOf(d) == DOMAIN d.notes

Shown(row) == ~row.archived /\ ~row.deleted

Visible(d, n) == n \in NotesOf(d) /\ Shown(d.notes[n])

Found(d, ref) == {n \in Matches[ref] : Visible(d, n)}

\* Variant: hidden notes are found as well.
ResolvesToAny(d, ref, n) == {m \in Matches[ref] : m \in NotesOf(d)} = {n}

\* A reference must match exactly one visible note.
Resolves(d, ref, n) == Found(d, ref) = {n}

-----------------------------------------------------------------------------
\* The parts of a transaction.  Each maps the tables to the tables, recording
\* facts on the way.  At most one fact per entity comes from a transaction.

Fact(d, type, entity, op) ==
    [tx |-> d.tx, type |-> type, entity |-> entity, op |-> op,
     base |-> None, row |-> None]

Record(d, facts) == [d EXCEPT !.facts = @ \cup facts]

\* A transaction begins, in this second or a later one.
Begun(s) == [db EXCEPT !.tx = @ + 1, !.now = @ + s]

Named(d, name) == {f \in d.fields : f[1] = name}

\* get_or_create_field_in_transaction
WithField(d, name) ==
    IF name \in {None, Keep} \/ Named(d, name) # {}
    THEN d
    ELSE Record([d EXCEPT !.fields = @ \cup {<<name, d.tx>>}],
                {Fact(d, "field", <<name, d.tx>>, "insert")})

\* Variant: the name is stored for the id.
FieldByName(d, name) == name

FieldOf(d, name) == IF name = None THEN None ELSE CHOOSE f \in Named(d, name) : TRUE

\* get_or_create_tag_in_transaction, for every path in `ts`.
WithTags(d, ts) ==
    LET new == (UNION {Prefixes[t] : t \in ts}) \ d.tags
    IN  Record([d EXCEPT !.tags = @ \cup new],
               {Fact(d, "tag", t, "insert") : t \in new})

TagsOf(d, n) == {t \in d.tags : <<n, t>> \in d.noteTags}

\* attach_tag_to_note_in_transaction: a fact only where a row is inserted.
Attached(d, n, ts) ==
    LET e == WithTags(d, ts)
    IN  Record([e EXCEPT !.noteTags = @ \cup {<<n, t>> : t \in ts}],
               {Fact(d, "note_tag", <<n, t>>, "attach") : t \in ts \ TagsOf(d, n)})

\* Variant: the rows go, no fact tells.
DetachedSilently(d, n, ts) == [d EXCEPT !.noteTags = @ \ {<<n, t>> : t \in ts}]

\* detach_tag_from_note_in_transaction: a fact only where a row is deleted.
Detached(d, n, ts) ==
    Record([d EXCEPT !.noteTags = @ \ {<<n, t>> : t \in ts}],
           {Fact(d, "note_tag", <<n, t>>, "detach") : t \in ts \cap TagsOf(d, n)})

\* replace_note_tags_in_transaction
TagsReplaced(d, n, ts) ==
    IF ts = Keep THEN d ELSE Detached(Attached(d, n, ts), n, TagsOf(d, n) \ ts)

LinksFrom(d, n) == {l \in d.links : l[1] = n}

\* Every target is visible and none is the source; otherwise the transaction
\* is rolled back.
LinksValid(d, n, refs) ==
    IF refs = Keep THEN TRUE
    ELSE \A r \in refs : \E m \in NoteId \ {n} : Resolves(d, r, m)

\* insert_note_links_in_transaction
Linked(d, n, refs) ==
    LET new == {<<n, CHOOSE m \in NoteId : Resolves(d, r, m), r, d.tx>> : r \in refs}
    IN  Record([d EXCEPT !.links = @ \cup new],
               {Fact(d, "note_link", l, "attach") : l \in new})

\* replace_note_links_in_transaction: all old links go, even those kept.
LinksReplaced(d, n, refs) ==
    IF refs = Keep THEN d
    ELSE LET old == LinksFrom(d, n)
         IN  Linked(Record([d EXCEPT !.links = @ \ old],
                           {Fact(d, "note_link", l, "detach") : l \in old}),
                    n, refs)

\* The note's fact carries its row as the transaction leaves it.
NoteFact(d, n, op) ==
    Record(d, {[Fact(d, "note", n, op) EXCEPT !.row = d.notes[n]]})

\* insert_note_revision_in_transaction and its fact.
Revised(d, n, base) ==
    LET r == <<n, d.tx>>
        row == [note |-> n, text |-> r, created |-> d.now]
    IN  Record([d EXCEPT !.revisions = [x \in DOMAIN @ \cup {r} |->
                                          IF x = r THEN row ELSE @[x]]],
               {[Fact(d, "note_revision", r, "insert") EXCEPT !.base = base]})

Put(d, n, row) ==
    [d EXCEPT !.notes = [x \in DOMAIN @ \cup {n} |-> IF x = n THEN row ELSE @[x]]]

-----------------------------------------------------------------------------
\* Transactions.

\* create_note_in_transaction for a fresh id n.
Created(d, n, in) ==
    LET d1 == WithField(d, in.field)
        r == <<n, d.tx>>
        row == [text |-> r, field |-> FieldOf(d1, in.field), role |-> in.role,
                created |-> d.now, updated |-> d.now,
                archived |-> FALSE, deleted |-> FALSE, revision |-> r]
        d2 == Revised(Put(d1, n, row), n, None)
    IN  NoteFact(Linked(Attached(d2, n, in.tags), n, in.links), n, "insert")

\* Links are resolved when the new row is there: a prefix can match it.
Creatable(d, n, in) ==
    /\ n \notin NotesOf(d)
    /\ \A r \in in.links : n \notin Matches[r]
    /\ LinksValid(d, n, in.links)

NewField(in) == IF in.field = None THEN Inbox ELSE in.field

NewFieldOf(d, n, in) ==
    IF in.field = Keep THEN d.notes[n].field ELSE FieldOf(d, NewField(in))

\* Variant: the note keeps pointing at the revision it had.
RowKeepingRevision(d, n, found, in) ==
    [d.notes[n] EXCEPT !.text = <<n, d.tx>>, !.updated = d.now,
                       !.field = NewFieldOf(d, n, in)]

\* Variant: the row found before the transaction is written back.
RowFromFound(d, n, found, in) ==
    [found EXCEPT !.text = <<n, d.tx>>, !.revision = <<n, d.tx>>, !.updated = d.now,
                  !.field = NewFieldOf(d, n, in)]

\* update_note_row_in_transaction: the row as it is by now, hidden or not.
UpdatedRow(d, n, found, in) ==
    [d.notes[n] EXCEPT !.text = <<n, d.tx>>, !.revision = <<n, d.tx>>,
                       !.updated = d.now, !.field = NewFieldOf(d, n, in)]

\* Variant: the base is read after the row has been updated.
BaseAfterwards(d, n, found) == <<n, d.tx>>

\* The new revision's base is the revision found before the transaction.
BaseOf(d, n, found) == found.revision

\* The transaction of update_note.
Updated(d, n, found, in) ==
    LET d1 == WithField(d, NewField(in))
        d2 == Put(Revised(d1, n, BaseOf(d1, n, found)), n, UpdatedRow(d1, n, found, in))
    IN  NoteFact(LinksReplaced(TagsReplaced(d2, n, in.tags), n, in.links), n, "update")

\* Variant: the fact is recorded before the row is written.
ArchivedAfterFact(d, n) ==
    Put(NoteFact(d, n, "update"), n,
        [d.notes[n] EXCEPT !.archived = TRUE, !.updated = d.now])

\* The transactions of archive_note and delete_note.
Archived(d, n) ==
    NoteFact(Put(d, n, [d.notes[n] EXCEPT !.archived = TRUE, !.updated = d.now]),
             n, "update")

Deleted(d, n) ==
    NoteFact(Put(d, n, [d.notes[n] EXCEPT !.deleted = TRUE, !.updated = d.now]),
             n, "delete")

\* Variant: hidden notes keep the field.
WithoutFieldRow(d, f) ==
    Record([d EXCEPT !.fields = @ \ {f}], {Fact(d, "field", f, "delete")})

\* delete_unused_field: hidden notes lose the field, without facts of theirs.
WithoutField(d, f) ==
    Record([d EXCEPT !.fields = @ \ {f},
                     !.notes = [n \in DOMAIN @ |->
                                  IF @[n].field = f /\ ~Shown(@[n])
                                  THEN [@[n] EXCEPT !.field = None] ELSE @[n]]],
           {Fact(d, "field", f, "delete")})

-----------------------------------------------------------------------------
\* Requests that change notes.

NoReq == [kind |-> "none"]

Init ==
    /\ db = EmptyDb
    /\ req = [t \in Task |-> NoReq]
    /\ walk = [r \in Reader |-> [pc |-> "idle"]]

Changed(d, e) ==
    {n \in NotesOf(e) : n \notin NotesOf(d) \/ d.notes[n] # e.notes[n]}

\* Readers do not notice a commit; `touched` remembers it for the properties.
Commit(d) ==
    /\ db' = d
    /\ walk' = [r \in Reader |->
                  IF walk[r].pc = "idle" THEN walk[r]
                  ELSE [walk[r] EXCEPT !.touched = @ \cup Changed(db, d)]]

Room == db.tx < MaxTx

\* create_note
Create ==
    /\ Room
    /\ \E n \in NoteId, in \in CreateInput, s \in Ticks :
         /\ Creatable(Begun(s), n, in)
         /\ Commit(Created(Begun(s), n, in))
    /\ UNCHANGED req

\* create_notes_batch, of two: all or none.
CreateBatch ==
    /\ Room
    /\ \E m, n \in NoteId, i, j \in CreateInput, s \in Ticks :
         LET d == Created(Begun(s), m, i)
         IN  /\ Creatable(Begun(s), m, i)
             /\ Creatable(d, n, j)
             /\ Commit(Created(d, n, j))
    /\ UNCHANGED req

\* delete_unused_field
DeleteField ==
    /\ Room
    /\ \E f \in db.fields, s \in Ticks :
         /\ ~\E n \in NotesOf(db) : Visible(db, n) /\ db.notes[n].field = f
         /\ Commit(WithoutField(Begun(s), f))
    /\ UNCHANGED req

Kinds == {"update", "archive", "delete", "addTag", "removeTag"}

Inputs(kind) == CASE kind = "update" -> UpdateInput
                  [] kind \in {"addTag", "removeTag"} -> Tag
                  [] OTHER -> {None}

\* get_note_by_ref on the pool, the first query of every request below.
Lookup(t) ==
    /\ req[t] = NoReq
    /\ Room
    /\ \E kind \in Kinds, ref \in Ref, n \in NoteId :
         /\ Resolves(db, ref, n)
         /\ \E in \in Inputs(kind) :
              req' = [req EXCEPT ![t] = [kind |-> kind, note |-> n,
                                         row |-> db.notes[n], input |-> in]]
    /\ UNCHANGED <<db, walk>>

\* The transaction of request q.
Transacted(d, q) ==
    CASE q.kind = "update" -> Updated(d, q.note, q.row, q.input)
      [] q.kind = "archive" -> Archived(d, q.note)
      [] q.kind = "delete" -> Deleted(d, q.note)
      [] q.kind = "addTag" -> Attached(d, q.note, {q.input})
      [] q.kind = "removeTag" -> Detached(d, q.note, {q.input})

Transact(t) ==
    /\ req[t] # NoReq
    /\ Room
    /\ IF req[t].kind = "update"
       THEN LinksValid(db, req[t].note, req[t].input.links) ELSE TRUE
    /\ \E s \in Ticks : Commit(Transacted(Begun(s), req[t]))
    /\ req' = [req EXCEPT ![t] = NoReq]

\* A link that does not resolve, a busy database, a client that is gone: the
\* transaction is rolled back.
RollBack(t) ==
    /\ req[t] # NoReq
    /\ req' = [req EXCEPT ![t] = NoReq]
    /\ UNCHANGED <<db, walk>>

-----------------------------------------------------------------------------
\* Readers of the recent notes.

\* ORDER BY updated_at DESC, id DESC; a and b are notes with their rows.
Before(m, a, n, b) ==
    \/ a.updated > b.updated
    \/ a.updated = b.updated /\ IdOrder[m] > IdOrder[n]

Listable(d, role) ==
    {n \in NotesOf(d) : Visible(d, n) /\ role \in {None, d.notes[n].role}}

\* Variant: the order of ids within a second is forgotten after a cursor.
OlderInSeconds(d, role, n, row) ==
    {m \in Listable(d, role) : n = None \/ row.updated > d.notes[m].updated}

\* Variant: the cursor's own row is answered again.
OlderOrSame(d, role, n, row) ==
    {m \in Listable(d, role) : n = None \/ m = n \/ Before(n, row, m, d.notes[m])}

Older(d, role, n, row) ==
    {m \in Listable(d, role) : n = None \/ Before(n, row, m, d.notes[m])}

\* list_recent_notes, with the cursor's note and its row as found before.
Page(d, role, n, row) ==
    LET older == Older(d, role, n, row)
    IN  {m \in older :
           Cardinality({k \in older : Before(k, d.notes[k], m, d.notes[m])}) < PageSize}

Last(d, page) ==
    CHOOSE m \in page : \A k \in page \ {m} : Before(k, d.notes[k], m, d.notes[m])

\* The client goes on until a page is not full.
Turn(r, w, page) ==
    walk' = [walk EXCEPT ![r] =
               [w EXCEPT !.pc = IF Cardinality(page) < PageSize THEN "done" ELSE "reading",
                         !.cursor = IF page = {} THEN None ELSE Last(db, page),
                         !.page = page]]

\* The first page, without a cursor.
FirstPage(r) ==
    /\ walk[r].pc = "idle"
    /\ \E role \in Role \cup {None} :
         Turn(r, [pc |-> "", role |-> role, cursor |-> None, row |-> None,
                  page |-> {}, listed |-> {}, touched |-> {}],
              Page(db, role, None, None))
    /\ UNCHANGED <<db, req>>

\* get_visible_note_by_id for the cursor.
FindCursor(r) ==
    LET w == walk[r]
    IN  /\ w.pc = "reading"
        /\ walk' = [walk EXCEPT ![r] =
                      IF Visible(db, w.cursor)
                      THEN [w EXCEPT !.pc = "found", !.row = db.notes[w.cursor]]
                      ELSE [pc |-> "idle"]]
        /\ UNCHANGED <<db, req>>

NextPage(r) ==
    /\ walk[r].pc = "found"
    /\ Turn(r, [walk[r] EXCEPT !.row = None, !.listed = @ \cup walk[r].page],
            Page(db, walk[r].role, walk[r].cursor, walk[r].row))
    /\ UNCHANGED <<db, req>>

Leave(r) ==
    /\ walk[r].pc = "done"
    /\ walk' = [walk EXCEPT ![r] = [pc |-> "idle"]]
    /\ UNCHANGED <<db, req>>

Next ==
    \/ Create
    \/ CreateBatch
    \/ DeleteField
    \/ \E t \in Task : Lookup(t) \/ Transact(t) \/ RollBack(t)
    \/ \E r \in Reader : FirstPage(r) \/ FindCursor(r) \/ NextPage(r) \/ Leave(r)

Spec == Init /\ [][Next]_vars

-----------------------------------------------------------------------------
\* Properties.

FactRow == [tx : 1 .. MaxTx,
            type : {"note", "note_revision", "field", "tag", "note_tag", "note_link"},
            entity : NoteId \cup RevisionId \cup FieldId \cup Tag
                       \cup (NoteId \X Tag) \cup LinkRow,
            op : {"insert", "update", "delete", "attach", "detach"},
            base : RevisionId \cup {None}, row : NoteRow \cup {None}]

DbOK ==
    /\ NotesOf(db) \subseteq NoteId
    /\ \A n \in NotesOf(db) : db.notes[n] \in NoteRow
    /\ DOMAIN db.revisions \subseteq RevisionId
    /\ \A r \in DOMAIN db.revisions : db.revisions[r] \in RevisionRow
    /\ db.fields \subseteq FieldId
    /\ db.tags \subseteq Tag
    /\ db.noteTags \subseteq NoteId \X Tag
    /\ db.links \subseteq LinkRow
    /\ db.facts \subseteq FactRow
    /\ db.tx \in 0 .. MaxTx
    /\ db.now \in 0 .. db.tx

ReqOK ==
    \A t \in Task : req[t] = NoReq \/
        /\ req[t].kind \in Kinds
        /\ req[t].note \in NotesOf(db)
        /\ req[t].row \in NoteRow
        /\ req[t].input \in Inputs(req[t].kind)

WalkOK ==
    \A r \in Reader : walk[r].pc = "idle" \/
        /\ walk[r].pc \in {"reading", "found", "done"}
        /\ walk[r].role \in Role \cup {None}
        /\ walk[r].cursor \in NotesOf(db) \cup {None}
        /\ walk[r].row \in NoteRow \cup {None}
        /\ walk[r].page \cup walk[r].listed \cup walk[r].touched \subseteq NotesOf(db)

\* The types of the tables, the requests and the readers.
TypeOK == DbOK /\ ReqOK /\ WalkOK

\* ORDER BY created_at ASC, rowid ASC: p is listed before q.
EarlierRevision(p, q) ==
    \/ db.revisions[p].created < db.revisions[q].created
    \/ db.revisions[p].created = db.revisions[q].created /\ p[2] < q[2]

\* A note's current revision is stored, is a revision of this note with the
\* note's text, and is the last one list_note_revisions shows, however the
\* requests that wrote it overlapped.
CurrentRevision ==
    \A n \in NotesOf(db) :
        LET r == db.notes[n].revision
        IN  /\ r \in DOMAIN db.revisions
            /\ db.revisions[r].note = n
            /\ db.revisions[r].text = db.notes[n].text
            /\ \A q \in DOMAIN db.revisions \ {r} :
                 db.revisions[q].note = n => EarlierRevision(q, r)

\* The bases in the facts make each note's revisions a tree that grows from
\* its first one: a base is a stored, earlier revision of the same note, and
\* only the first revision has none.  (It need not be a chain: two requests
\* that overlap take the same base.)
RevisionTree ==
    \A q \in DOMAIN db.revisions :
        LET n == db.revisions[q].note
        IN  \E f \in db.facts :
              /\ f.type = "note_revision" /\ f.entity = q
              /\ \A g \in db.facts : g.type = "note_revision" /\ g.entity = q => g = f
              /\ IF f.base = None
                 THEN \A p \in DOMAIN db.revisions \ {q} :
                        db.revisions[p].note = n => EarlierRevision(q, p)
                 ELSE /\ f.base \in DOMAIN db.revisions
                      /\ db.revisions[f.base].note = n
                      /\ EarlierRevision(f.base, q)

FactsAbout(type, e) == {f \in db.facts : f.type = type /\ f.entity = e}

LastOp(type, e, op) ==
    \E f \in FactsAbout(type, e) :
        f.op = op /\ \A g \in FactsAbout(type, e) : g.tx <= f.tx

Told(type) == {f.entity : f \in {g \in db.facts : g.type = type}}

\* The facts tell which rows there are: a row exists exactly if the last fact
\* about it inserted or attached it, nothing is inserted twice, and a note is
\* deleted exactly if a fact says so.  (Synchronization restores a missing row
\* whose last fact is not a tombstone.)
FactsTellRows ==
    /\ db.fields \subseteq Told("field") /\ db.noteTags \subseteq Told("note_tag")
    /\ db.links \subseteq Told("note_link") /\ db.tags \subseteq Told("tag")
    /\ \A e \in Told("field") : e \in db.fields <=> LastOp("field", e, "insert")
    /\ \A e \in Told("note_tag") : e \in db.noteTags <=> LastOp("note_tag", e, "attach")
    /\ \A e \in Told("note_link") : e \in db.links <=> LastOp("note_link", e, "attach")
    /\ \A n \in NotesOf(db) :
         db.notes[n].deleted <=> \E f \in FactsAbout("note", n) : f.op = "delete"
    /\ \A f, g \in {h \in db.facts : h.op = "insert"} :
         f.type = g.type /\ f.entity = g.entity => f = g

\* The last fact about a note carries the row as it is, whatever order the
\* requests committed in; only a hidden note may have lost its field since.
FactCarriesRow ==
    \A n \in NotesOf(db) : \E f \in FactsAbout("note", n) :
        /\ \A g \in FactsAbout("note", n) : g.tx <= f.tx
        /\ \/ f.row = db.notes[n]
           \/ ~Shown(db.notes[n]) /\ db.notes[n] = [f.row EXCEPT !.field = None]

\* No row refers to a missing one: a note's field, a relation's note and tag,
\* a tag's parents; no note links to itself, and a field name is given once.
References ==
    /\ \A n \in NotesOf(db) : db.notes[n].field \in db.fields \cup {None}
    /\ db.noteTags \subseteq NotesOf(db) \X db.tags
    /\ \A t \in db.tags : Prefixes[t] \subseteq db.tags
    /\ \A l \in db.links : {l[1], l[2]} \subseteq NotesOf(db) /\ l[1] # l[2]
    /\ \A f, g \in db.fields : f[1] = g[1] => f = g

\* No request makes a hidden note visible again, even one that found the note
\* before it was hidden.
NotesStayHidden ==
    [][\A n \in NotesOf(db) :
         /\ db.notes[n].archived => db'.notes[n].archived
         /\ db.notes[n].deleted => db'.notes[n].deleted]_vars

\* r019:49: the target of a new link is visible when the link is made.  (Its
\* source need not be: update_note looks it up before the transaction.)
NewLinksTargetVisible ==
    [][\A l \in db'.links \ db.links : Visible(db', l[2])]_vars

\* A client that pages to the end has been shown every visible note that was
\* not written meanwhile, even if the notes its cursors name were, and between
\* the two queries of a page.
PagesAreComplete ==
    \A r \in Reader : walk[r].pc = "done" =>
        Listable(db, walk[r].role) \ walk[r].touched
            \subseteq walk[r].listed \cup walk[r].page

\* As long as no note it was shown has been written, it is shown none twice.
PagesDoNotRepeat ==
    \A r \in Reader : walk[r].pc \in {"reading", "done"} =>
        \/ walk[r].listed \cap walk[r].touched # {}
        \/ walk[r].listed \cap walk[r].page = {}
=============================================================================
