------------------------- MODULE NotesTablesProofs -------------------------
(***************************************************************************)
(* What the tables of NotesRepo and the facts about them keep telling each *)
(* other, for every set of tasks, notes, tags, references and inputs and   *)
(* every number of transactions.                                           *)
(*                                                                         *)
(* TablesOK has one part per table with the facts of its type.  Each link  *)
(* of the chain that makes a transaction changes one or two of them, and   *)
(* there is one lemma per link.  The last fact about a note is the one     *)
(* part that does not hold between the links: a transaction writes the     *)
(* note first and its fact last.                                           *)
(***************************************************************************)
EXTENDS NotesRepoProofs

Of(d, type) == {f \in d.facts : f.type = type}

\* The facts F tell which rows there are; `on` is the operation that makes one.
Tells(F, rows, on) ==
    /\ \A e \in rows : \E f \in F : f.entity = e
    /\ \A f \in F : f.entity \in rows <=>
         \E g \in F : /\ g.entity = f.entity /\ g.op = on
                      /\ \A h \in F : h.entity = f.entity => h.tx <= g.tx

OnceInserted(F) ==
    \A f, g \in F : f.op = "insert" /\ g.op = "insert" /\ f.entity = g.entity => f = g

TypesOK(d) ==
    /\ IsDb(d)
    /\ NotesOf(d) \subseteq NoteId
    /\ \A n \in NotesOf(d) : d.notes[n] \in NoteRow
    /\ DOMAIN d.revisions \subseteq RevisionId
    /\ \A r \in DOMAIN d.revisions : d.revisions[r] \in RevisionRow
    /\ d.fields \subseteq FieldId
    /\ d.tags \subseteq Tag
    /\ d.noteTags \subseteq NoteId \X Tag
    /\ d.links \subseteq LinkRow
    /\ d.facts \subseteq FactRow
    /\ \A f \in d.facts : f.tx <= d.tx
    /\ d.tx \in 0 .. MaxTx
    /\ d.now \in 0 .. d.tx

FieldsOK(d) ==
    /\ Tells(Of(d, "field"), d.fields, "insert")
    /\ OnceInserted(Of(d, "field"))
    /\ \A f \in Of(d, "field") : f.entity[2] <= f.tx
    /\ \A f, g \in d.fields : f[1] = g[1] => f = g

RowsOK(d) == \A n \in NotesOf(d) : d.notes[n].field \in d.fields \cup {None}

TagsOK(d) ==
    /\ d.tags = {f.entity : f \in Of(d, "tag")}
    /\ OnceInserted(Of(d, "tag"))
    /\ \A t \in d.tags : Prefixes[t] \subseteq d.tags

NoteTagsOK(d) ==
    /\ Tells(Of(d, "note_tag"), d.noteTags, "attach")
    /\ d.noteTags \subseteq NotesOf(d) \X d.tags
    /\ \A f \in Of(d, "note_tag") : f.entity[1] \in NotesOf(d) /\ f.op # "insert"

LinksOK(d) ==
    /\ Tells(Of(d, "note_link"), d.links, "attach")
    /\ \A l \in d.links : {l[1], l[2]} \subseteq NotesOf(d) /\ l[1] # l[2]
    /\ \A f \in Of(d, "note_link") :
         /\ f.entity[1] \in NotesOf(d)
         /\ f.entity[4] \in Nat /\ f.entity[4] <= f.tx
         /\ f.op # "insert"

EarlierIn(d, p, q) ==
    \/ d.revisions[p].created < d.revisions[q].created
    \/ d.revisions[p].created = d.revisions[q].created /\ p[2] < q[2]

\* Revision q of d grows from `base`.
GrowsFrom(d, q, base) ==
    IF base = None
    THEN \A p \in DOMAIN d.revisions \ {q} :
           d.revisions[p].note = d.revisions[q].note => EarlierIn(d, q, p)
    ELSE /\ base \in DOMAIN d.revisions
         /\ d.revisions[base].note = d.revisions[q].note
         /\ EarlierIn(d, base, q)

RevisionsOK(d) ==
    /\ \A q \in DOMAIN d.revisions : \E f \in Of(d, "note_revision") :
         f.entity = q /\ GrowsFrom(d, q, f.base)
    /\ \A f \in Of(d, "note_revision") : f.entity \in DOMAIN d.revisions
    /\ \A f, g \in Of(d, "note_revision") : f.entity = g.entity => f = g

NoteFactsOK(d) ==
    /\ \A f \in Of(d, "note") : f.entity \in NotesOf(d)
    /\ OnceInserted(Of(d, "note"))

TablesOK(d) ==
    /\ TypesOK(d)
    /\ FieldsOK(d)
    /\ RowsOK(d)
    /\ TagsOK(d)
    /\ NoteTagsOK(d)
    /\ LinksOK(d)
    /\ RevisionsOK(d)
    /\ NoteFactsOK(d)

\* A fact says so exactly if note n is deleted.
DeletionTold(d, n) ==
    d.notes[n].deleted <=> \E f \in Of(d, "note") : f.entity = n /\ f.op = "delete"

\* The last fact about note n carries its row.
Carried(d, n) ==
    \E f \in Of(d, "note") :
        /\ f.entity = n
        /\ \A g \in Of(d, "note") : g.entity = n => g.tx <= f.tx
        /\ \/ f.row = d.notes[n]
           \/ ~Shown(d.notes[n]) /\ d.notes[n] = [f.row EXCEPT !.field = None]

-----------------------------------------------------------------------------
\* What a link of a transaction makes of the tables.

\* e has the notes and revisions of d, the given tables, and N more facts.
Becomes(d, e, fields, tags, noteTags, links, N) ==
    /\ SameNotes(d, e)
    /\ e.fields = fields
    /\ e.tags = tags
    /\ e.noteTags = noteTags
    /\ e.links = links
    /\ e.facts = d.facts \cup N

LEMMA FactsWritten ==
    ASSUME NEW d, NEW c, IsDb(c), c.notes = d.notes, c.revisions = d.revisions,
           c.tx = d.tx, c.now = d.now, c.facts = d.facts, NEW N
    PROVE  Becomes(d, Record(c, N), c.fields, c.tags, c.noteTags, c.links, N)
<1> DEFINE M == d.facts \cup N
<1>1. Record(c, N) = [c EXCEPT !.facts = M]
  BY DEF Record
<1>2. M = d.facts \cup N
  OBVIOUS
<1> HIDE DEF M
<1> QED
  BY <1>1, <1>2 DEF IsDb, SameNotes, Becomes

LEMMA RecordBecomes ==
    ASSUME NEW d, IsDb(d), NEW x, NEW N
    PROVE  /\ Becomes(d, Record(d, N), d.fields, d.tags, d.noteTags, d.links, N)
           /\ Becomes(d, Record([d EXCEPT !.fields = x], N), x, d.tags, d.noteTags, d.links, N)
           /\ Becomes(d, Record([d EXCEPT !.tags = x], N), d.fields, x, d.noteTags, d.links, N)
           /\ Becomes(d, Record([d EXCEPT !.noteTags = x], N), d.fields, d.tags, x, d.links, N)
           /\ Becomes(d, Record([d EXCEPT !.links = x], N), d.fields, d.tags, d.noteTags, x, N)
<1>1. Becomes(d, Record(d, N), d.fields, d.tags, d.noteTags, d.links, N)
  BY FactsWritten
<1>2. Becomes(d, Record([d EXCEPT !.fields = x], N), x, d.tags, d.noteTags, d.links, N)
  <2>1. PICK c : c = [d EXCEPT !.fields = x]
    OBVIOUS
  <2>2. /\ IsDb(c) /\ c.notes = d.notes /\ c.revisions = d.revisions /\ c.tx = d.tx
        /\ c.now = d.now /\ c.facts = d.facts /\ c.fields = x /\ c.tags = d.tags
        /\ c.noteTags = d.noteTags /\ c.links = d.links
    BY <2>1 DEF IsDb
  <2> QED
    BY <2>1, <2>2, FactsWritten
<1>3. Becomes(d, Record([d EXCEPT !.tags = x], N), d.fields, x, d.noteTags, d.links, N)
  <2>1. PICK c : c = [d EXCEPT !.tags = x]
    OBVIOUS
  <2>2. /\ IsDb(c) /\ c.notes = d.notes /\ c.revisions = d.revisions /\ c.tx = d.tx
        /\ c.now = d.now /\ c.facts = d.facts /\ c.fields = d.fields /\ c.tags = x
        /\ c.noteTags = d.noteTags /\ c.links = d.links
    BY <2>1 DEF IsDb
  <2> QED
    BY <2>1, <2>2, FactsWritten
<1>4. Becomes(d, Record([d EXCEPT !.noteTags = x], N), d.fields, d.tags, x, d.links, N)
  <2>1. PICK c : c = [d EXCEPT !.noteTags = x]
    OBVIOUS
  <2>2. /\ IsDb(c) /\ c.notes = d.notes /\ c.revisions = d.revisions /\ c.tx = d.tx
        /\ c.now = d.now /\ c.facts = d.facts /\ c.fields = d.fields /\ c.tags = d.tags
        /\ c.noteTags = x /\ c.links = d.links
    BY <2>1 DEF IsDb
  <2> QED
    BY <2>1, <2>2, FactsWritten
<1>5. Becomes(d, Record([d EXCEPT !.links = x], N), d.fields, d.tags, d.noteTags, x, N)
  <2>1. PICK c : c = [d EXCEPT !.links = x]
    OBVIOUS
  <2>2. /\ IsDb(c) /\ c.notes = d.notes /\ c.revisions = d.revisions /\ c.tx = d.tx
        /\ c.now = d.now /\ c.facts = d.facts /\ c.fields = d.fields /\ c.tags = d.tags
        /\ c.noteTags = d.noteTags /\ c.links = x
    BY <2>1 DEF IsDb
  <2> QED
    BY <2>1, <2>2, FactsWritten
<1> QED
  BY <1>1, <1>2, <1>3, <1>4, <1>5

LEMMA FactTyped ==
    ASSUME NEW d, d.tx \in 1 .. MaxTx, NEW type, NEW entity, NEW op,
           type \in {"note", "note_revision", "field", "tag", "note_tag", "note_link"},
           entity \in NoteId \cup RevisionId \cup FieldId \cup Tag
                        \cup (NoteId \X Tag) \cup LinkRow,
           op \in {"insert", "update", "delete", "attach", "detach"}
    PROVE  /\ Fact(d, type, entity, op) \in FactRow
           /\ Fact(d, type, entity, op).tx <= d.tx
BY DEF Fact, FactRow

LEMMA FactIs ==
    ASSUME NEW d, NEW type, NEW entity, NEW op
    PROVE  /\ Fact(d, type, entity, op).tx = d.tx
           /\ Fact(d, type, entity, op).type = type
           /\ Fact(d, type, entity, op).entity = entity
           /\ Fact(d, type, entity, op).op = op
BY DEF Fact

LEMMA TypesBecome ==
    ASSUME NEW d, TypesOK(d), NEW e, NEW fs, NEW ts, NEW nts, NEW ls, NEW N,
           Becomes(d, e, fs, ts, nts, ls, N),
           fs \subseteq FieldId, ts \subseteq Tag, nts \subseteq NoteId \X Tag,
           ls \subseteq LinkRow, N \subseteq FactRow, \A f \in N : f.tx <= d.tx
    PROVE  TypesOK(e)
BY DEF TypesOK, Becomes, SameNotes, NotesOf

\* New facts of the present transaction about rows that no fact of this
\* transaction is about yet make rows, or take them away.
LEMMA TellsMore ==
    ASSUME NEW F, NEW rows, NEW on, Tells(F, rows, on),
           NEW N, NEW op, NEW tx \in Nat,
           \A f \in F : f.tx \in Nat /\ f.tx <= tx,
           \A g \in N : g.tx = tx /\ g.op = op,
           \A f \in F, g \in N : f.entity = g.entity => f.tx < tx
    PROVE  /\ op = on => Tells(F \cup N, rows \cup {g.entity : g \in N}, on)
           /\ op # on => Tells(F \cup N, rows \ {g.entity : g \in N}, on)
<1> DEFINE G == F \cup N
           E == {g.entity : g \in N}
           MadeLast(H, e) == \E g \in H : /\ g.entity = e /\ g.op = on
                                          /\ \A h \in H : h.entity = e => h.tx <= g.tx
<1>1. ASSUME NEW f \in G, f.entity \in E
      PROVE  MadeLast(G, f.entity) <=> op = on
  <2>1. PICK g \in N : g.entity = f.entity
    BY <1>1
  <2>2. \A h \in G : h.entity = f.entity => h.tx <= tx
    BY <2>1
  <2>3. \A h \in G : h.entity = f.entity /\ h.tx = tx => h \in N
    BY <2>1
  <2> QED
    BY <2>1, <2>2, <2>3
<1>2. ASSUME NEW f \in G, f.entity \notin E
      PROVE  f \in F /\ (MadeLast(G, f.entity) <=> f.entity \in rows)
  <2>1. f \in F
    BY <1>2
  <2>2. \A h \in G : h.entity = f.entity => h \in F
    BY <1>2
  <2>3. MadeLast(F, f.entity) <=> f.entity \in rows
    BY <2>1 DEF Tells
  <2> QED
    BY <2>1, <2>2, <2>3
<1>3. \A e \in rows \cup E : \E f \in G : f.entity = e
  BY DEF Tells
<1>4. \A e \in rows \ E : \E f \in G : f.entity = e
  BY DEF Tells
<1>5. op = on => \A f \in G : f.entity \in rows \cup E <=> MadeLast(G, f.entity)
  BY <1>1, <1>2
<1>6. op # on => \A f \in G : f.entity \in rows \ E <=> MadeLast(G, f.entity)
  BY <1>1, <1>2
<1> QED
  BY <1>3, <1>4, <1>5, <1>6 DEF Tells

-----------------------------------------------------------------------------
\* The links of a transaction that leave notes and revisions alone.

\* No field of this transaction has gone again.
FieldsFresh(d) == \A f \in Of(d, "field") : f.tx = d.tx => f.entity \in d.fields

\* The transaction has not touched the tags, or the links, of note n yet.
NoteTagsFresh(d, n) == \A f \in Of(d, "note_tag") : f.entity[1] = n => f.tx < d.tx

LinksFresh(d, n) == \A f \in Of(d, "note_link") : f.entity[1] = n => f.tx < d.tx

\* Which tables a link leaves alone, with the facts of their types.
FieldsStay(d, e) == e.fields = d.fields /\ Of(e, "field") = Of(d, "field")
TagsStay(d, e) == e.tags = d.tags /\ Of(e, "tag") = Of(d, "tag")
NoteTagsStay(d, e) == e.noteTags = d.noteTags /\ Of(e, "note_tag") = Of(d, "note_tag")
LinksStay(d, e) == e.links = d.links /\ Of(e, "note_link") = Of(d, "note_link")
NotesStay(d, e) ==
    /\ SameNotes(d, e)
    /\ Of(e, "note") = Of(d, "note")
    /\ Of(e, "note_revision") = Of(d, "note_revision")

LEMMA StayOK ==
    ASSUME NEW d, NEW e, TablesOK(d), SameNotes(d, e)
    PROVE  /\ FieldsStay(d, e) => FieldsOK(e) /\ RowsOK(e)
           /\ TagsStay(d, e) => TagsOK(e)
           /\ NoteTagsStay(d, e) /\ d.tags \subseteq e.tags => NoteTagsOK(e)
           /\ LinksStay(d, e) => LinksOK(e)
           /\ NotesStay(d, e) => RevisionsOK(e) /\ NoteFactsOK(e)
<1> USE DEF TablesOK, SameNotes, NotesOf
<1>1. FieldsStay(d, e) => FieldsOK(e) /\ RowsOK(e)
  BY DEF FieldsStay, FieldsOK, RowsOK
<1>2. TagsStay(d, e) => TagsOK(e)
  BY DEF TagsStay, TagsOK
<1>3. NoteTagsStay(d, e) /\ d.tags \subseteq e.tags => NoteTagsOK(e)
  BY DEF NoteTagsStay, NoteTagsOK
<1>4. LinksStay(d, e) => LinksOK(e)
  BY DEF LinksStay, LinksOK
<1>5. NotesStay(d, e) => RevisionsOK(e) /\ NoteFactsOK(e)
  BY DEF NotesStay, RevisionsOK, GrowsFrom, EarlierIn, NoteFactsOK
<1> QED
  BY <1>1, <1>2, <1>3, <1>4, <1>5

\* Facts of one type: their number in a transaction is a natural number.
LEMMA FactTimes ==
    ASSUME NEW d, TypesOK(d), NEW type
    PROVE  /\ d.tx \in Nat
           /\ \A f \in Of(d, type) : f.tx \in Nat /\ f.tx <= d.tx
BY BoundsAssumption DEF TypesOK, FactRow, Of

\* get_or_create_field_in_transaction: a name is given once.
LEMMA WithFieldOK ==
    ASSUME NEW d, TablesOK(d), d.tx \in 1 .. MaxTx, FieldsFresh(d),
           NEW name \in Name \cup {None, Keep}, NEW e, e = WithField(d, name)
    PROVE  /\ TablesOK(e)
           /\ FieldsFresh(e)
           /\ name \in Name => Named(e, name) # {}
           /\ TagsStay(d, e) /\ NoteTagsStay(d, e) /\ LinksStay(d, e) /\ NotesStay(d, e)
           /\ d.fields \subseteq e.fields
<1> DEFINE id == <<name, d.tx>>
           N == {Fact(d, "field", id, "insert")}
<1>1. CASE name \in {None, Keep} \/ Named(d, name) # {}
  <2>1. e = d
    BY <1>1 DEF WithField
  <2>2. name \in Name => Named(e, name) # {}
    BY <1>1, <2>1, NoneAssumption
  <2>3. SameNotes(d, e)
    BY <2>1 DEF SameNotes, TablesOK, TypesOK
  <2> QED
    BY <2>1, <2>2, <2>3 DEF TagsStay, NoteTagsStay, LinksStay, NotesStay
<1>2. CASE name \notin {None, Keep} /\ Named(d, name) = {}
  <2>1. IsDb(d) /\ TypesOK(d) /\ name \in Name
    BY <1>2 DEF TablesOK, TypesOK
  <2>2. Becomes(d, e, d.fields \cup {id}, d.tags, d.noteTags, d.links, N)
    BY <1>2, <2>1, RecordBecomes DEF WithField
  <2>3. /\ id \in FieldId
        /\ \A f \in N : /\ f \in FactRow /\ f.tx = d.tx /\ f.tx <= d.tx
                        /\ f.type = "field" /\ f.entity = id /\ f.op = "insert"
    BY <2>1, FactTyped, FactIs DEF FieldId
  <2>4. TypesOK(e)
    <3> HIDE DEF N, id
    <3>1. /\ d.fields \cup {id} \subseteq FieldId /\ d.tags \subseteq Tag
          /\ d.noteTags \subseteq NoteId \X Tag /\ d.links \subseteq LinkRow
          /\ N \subseteq FactRow
      BY <2>1, <2>3 DEF TypesOK
    <3> QED
      BY <2>1, <2>2, <2>3, <3>1, TypesBecome
  <2>5. /\ TagsStay(d, e) /\ NoteTagsStay(d, e) /\ LinksStay(d, e) /\ NotesStay(d, e)
    <3>1. \A type : type # "field" => Of(e, type) = Of(d, type)
      BY <2>2, <2>3 DEF Becomes, Of
    <3> QED
      BY <2>2, <3>1 DEF Becomes, TagsStay, NoteTagsStay, LinksStay, NotesStay
  <2>6. Of(e, "field") = Of(d, "field") \cup N
    BY <2>2, <2>3 DEF Becomes, Of
  <2>7. \A f \in Of(d, "field") : f.entity # id
    <3> SUFFICES ASSUME NEW f \in Of(d, "field"), f.entity = id PROVE FALSE
      OBVIOUS
    <3>1. d.tx \in Nat /\ f.tx \in Nat /\ f.tx <= d.tx
      BY <2>1, FactTimes
    <3>2. d.tx <= f.tx
      BY DEF TablesOK, FieldsOK
    <3>3. id \in d.fields
      BY <3>1, <3>2 DEF FieldsFresh
    <3> QED
      BY <1>2, <3>3 DEF Named
  <2>8. FieldsOK(e)
    <3>1. Tells(Of(d, "field") \cup N, d.fields \cup {g.entity : g \in N}, "insert")
      <4>1. Tells(Of(d, "field"), d.fields, "insert")
        BY DEF TablesOK, FieldsOK
      <4>2. /\ d.tx \in Nat
            /\ \A f \in Of(d, "field") : f.tx \in Nat /\ f.tx <= d.tx
        BY <2>1, FactTimes
      <4>3. \A f \in Of(d, "field"), g \in N : f.entity = g.entity => f.tx < d.tx
        BY <2>3, <2>7
      <4> HIDE DEF N
      <4> QED
        BY <2>3, <4>1, <4>2, <4>3, TellsMore
    <3>2. {g.entity : g \in N} = {id}
      BY <2>3
    <3>3. Tells(Of(e, "field"), e.fields, "insert")
      BY <2>2, <2>6, <3>1, <3>2 DEF Becomes
    <3>4. OnceInserted(Of(e, "field"))
      BY <2>3, <2>6, <2>7 DEF OnceInserted, TablesOK, FieldsOK
    <3>5. \A f \in Of(e, "field") : f.entity[2] <= f.tx
      BY <2>3, <2>6 DEF TablesOK, FieldsOK
    <3>6. \A f, g \in e.fields : f[1] = g[1] => f = g
      BY <1>2, <2>2 DEF TablesOK, FieldsOK, Becomes, Named
    <3> QED
      BY <3>3, <3>4, <3>5, <3>6 DEF FieldsOK
  <2>9. RowsOK(e)
    BY <2>2 DEF TablesOK, RowsOK, Becomes, SameNotes, NotesOf
  <2>10. FieldsFresh(e)
    BY <2>2, <2>3, <2>6 DEF FieldsFresh, Becomes, SameNotes
  <2>11. Named(e, name) # {}
    BY <2>2 DEF Becomes, Named
  <2>12. SameNotes(d, e) /\ d.tags \subseteq e.tags /\ d.fields \subseteq e.fields
    BY <2>2 DEF Becomes
  <2> QED
    BY <2>4, <2>5, <2>8, <2>9, <2>10, <2>11, <2>12, StayOK DEF TablesOK
<1> QED
  BY <1>1, <1>2

\* The facts that one link records about the entities X.
Facts(d, type, X, op) == {Fact(d, type, x, op) : x \in X}

LEMMA FactsAre ==
    ASSUME NEW d, d.tx \in 1 .. MaxTx, NEW type, NEW op, NEW X,
           type \in {"note", "note_revision", "field", "tag", "note_tag", "note_link"},
           X \subseteq NoteId \cup RevisionId \cup FieldId \cup Tag
                         \cup (NoteId \X Tag) \cup LinkRow,
           op \in {"insert", "update", "delete", "attach", "detach"}
    PROVE  /\ Facts(d, type, X, op) \subseteq FactRow
           /\ \A f \in Facts(d, type, X, op) :
                /\ f.tx = d.tx /\ f.tx <= d.tx
                /\ f.type = type /\ f.op = op
                /\ f = Fact(d, type, f.entity, op)
           /\ {f.entity : f \in Facts(d, type, X, op)} = X
<1>1. \A x \in X : LET f == Fact(d, type, x, op)
                   IN  /\ f \in FactRow /\ f.tx = d.tx /\ f.tx <= d.tx
                       /\ f.type = type /\ f.op = op /\ f.entity = x
  BY FactTyped, FactIs
<1> QED
  BY <1>1 DEF Facts

LEMMA TellsStep ==
    ASSUME NEW d, TypesOK(d), NEW type, NEW N, NEW op, NEW rows, NEW on,
           \A f \in N : f.tx = d.tx /\ f.op = op,
           Tells(Of(d, type), rows, on),
           \A f \in Of(d, type), g \in N : f.entity = g.entity => f.tx < d.tx
    PROVE  /\ op = on => Tells(Of(d, type) \cup N, rows \cup {g.entity : g \in N}, on)
           /\ op # on => Tells(Of(d, type) \cup N, rows \ {g.entity : g \in N}, on)
<1>1. /\ d.tx \in Nat
      /\ \A f \in Of(d, type) : f.tx \in Nat /\ f.tx <= d.tx
  BY FactTimes
<1> QED
  BY <1>1, TellsMore

\* get_or_create_tag_in_transaction: the missing paths with all paths above.
LEMMA WithTagsOK ==
    ASSUME NEW d, TablesOK(d), d.tx \in 1 .. MaxTx,
           NEW ts \in SUBSET Tag, NEW e, e = WithTags(d, ts)
    PROVE  /\ TablesOK(e)
           /\ ts \subseteq e.tags /\ d.tags \subseteq e.tags
           /\ FieldsStay(d, e) /\ NoteTagsStay(d, e) /\ LinksStay(d, e) /\ NotesStay(d, e)
<1> DEFINE new == (UNION {Prefixes[t] : t \in ts}) \ d.tags
           N == Facts(d, "tag", new, "insert")
<1>1. IsDb(d) /\ TypesOK(d)
  BY DEF TablesOK, TypesOK
<1>2. Becomes(d, e, d.fields, d.tags \cup new, d.noteTags, d.links, N)
  <2>1. e = Record([d EXCEPT !.tags = d.tags \cup new], N)
    BY DEF WithTags, Facts
  <2> HIDE DEF N, new
  <2> QED
    BY <1>1, <2>1, RecordBecomes
<1>3. new \subseteq Tag
  BY TagAssumption
<1>4. /\ N \subseteq FactRow
      /\ \A f \in N : /\ f.tx = d.tx /\ f.tx <= d.tx
                      /\ f.type = "tag" /\ f.op = "insert"
                      /\ f = Fact(d, "tag", f.entity, "insert")
      /\ {f.entity : f \in N} = new
  <2> HIDE DEF new
  <2> QED
    BY <1>3, FactsAre
<1>5. ts \subseteq d.tags \cup new
  BY TagAssumption
<1>6. \A t \in d.tags \cup new : Prefixes[t] \subseteq d.tags \cup new
  <2>1. \A t \in d.tags : Prefixes[t] \subseteq d.tags
    BY DEF TablesOK, TagsOK
  <2>2. ASSUME NEW t \in new
        PROVE  Prefixes[t] \subseteq d.tags \cup new
    <3>1. PICK u \in ts : t \in Prefixes[u]
      OBVIOUS
    <3>2. Prefixes[t] \subseteq Prefixes[u]
      BY <3>1, TagAssumption
    <3> QED
      BY <3>2
  <2> QED
    BY <2>1, <2>2
<1>7. new \cap d.tags = {}
  OBVIOUS
<1> HIDE DEF N, new
<1>8. /\ Of(e, "tag") = Of(d, "tag") \cup N
      /\ \A other : other # "tag" => Of(e, other) = Of(d, other)
  BY <1>2, <1>4 DEF Becomes, Of
<1>9. TypesOK(e)
  <2>1. /\ d.fields \subseteq FieldId /\ d.tags \cup new \subseteq Tag
        /\ d.noteTags \subseteq NoteId \X Tag /\ d.links \subseteq LinkRow
    BY <1>1, <1>3 DEF TypesOK
  <2> QED
    BY <1>1, <1>2, <1>4, <2>1, TypesBecome
<1>10. /\ FieldsStay(d, e) /\ NoteTagsStay(d, e) /\ LinksStay(d, e) /\ NotesStay(d, e)
       /\ SameNotes(d, e) /\ d.tags \subseteq e.tags
  BY <1>2, <1>8 DEF Becomes, FieldsStay, NoteTagsStay, LinksStay, NotesStay
<1>11. TagsOK(e)
  <2>1. e.tags = {f.entity : f \in Of(e, "tag")}
    <3>1. d.tags = {f.entity : f \in Of(d, "tag")}
      BY DEF TablesOK, TagsOK
    <3> QED
      BY <1>2, <1>4, <1>8, <3>1 DEF Becomes
  <2>2. OnceInserted(Of(e, "tag"))
    <3>1. \A f \in Of(d, "tag"), g \in N : f.entity # g.entity
      BY <1>4, <1>7 DEF TablesOK, TagsOK
    <3>2. \A f, g \in N : f.entity = g.entity => f = g
      BY <1>4
    <3>3. OnceInserted(Of(d, "tag"))
      BY DEF TablesOK, TagsOK
    <3> QED
      BY <1>8, <3>1, <3>2, <3>3 DEF OnceInserted
  <2> QED
    BY <1>2, <1>6, <2>1, <2>2 DEF Becomes, TagsOK
<1> QED
  BY <1>2, <1>5, <1>9, <1>10, <1>11, StayOK DEF TablesOK, Becomes

LEMMA TagsOfRows ==
    ASSUME NEW d, NoteTagsOK(d), NEW n, NEW t
    PROVE  t \in TagsOf(d, n) <=> <<n, t>> \in d.noteTags
BY DEF NoteTagsOK, TagsOf

\* attach_tag_to_note_in_transaction.
LEMMA AttachedOK ==
    ASSUME NEW d, TablesOK(d), d.tx \in 1 .. MaxTx, NEW n \in NotesOf(d),
           NEW ts \in SUBSET Tag, NoteTagsFresh(d, n), NEW e, e = Attached(d, n, ts)
    PROVE  /\ TablesOK(e)
           /\ FieldsStay(d, e) /\ LinksStay(d, e) /\ NotesStay(d, e)
           /\ TagsOf(d, n) \subseteq TagsOf(e, n)
           /\ \A f \in Of(e, "note_tag") : f.entity[1] = n /\ f.tx = d.tx =>
                f.entity \in {<<n, t>> : t \in ts}
<1> DEFINE X == {<<n, t>> : t \in ts \ TagsOf(d, n)}
           N == Facts(d, "note_tag", X, "attach")
           rows == d.noteTags \cup {<<n, t>> : t \in ts}
<1>1. PICK c : c = WithTags(d, ts)
  OBVIOUS
<1>2. /\ TablesOK(c) /\ ts \subseteq c.tags /\ d.tags \subseteq c.tags
      /\ FieldsStay(d, c) /\ NoteTagsStay(d, c) /\ LinksStay(d, c) /\ NotesStay(d, c)
  BY <1>1, WithTagsOK
<1>3. IsDb(c) /\ TypesOK(c) /\ c.tx = d.tx /\ NotesOf(c) = NotesOf(d) /\ n \in NoteId
  BY <1>2 DEF TablesOK, TypesOK, NotesStay, SameNotes, NotesOf
<1>4. Becomes(c, e, c.fields, c.tags, rows, c.links, N)
  <2>1. N = {Fact(d, "note_tag", <<n, t>>, "attach") : t \in ts \ TagsOf(d, n)}
    BY DEF Facts
  <2>2. c.noteTags \cup {<<n, t>> : t \in ts} = rows
    BY <1>2 DEF NoteTagsStay
  <2>3. e = Record([c EXCEPT !.noteTags = rows], N)
    BY <1>1, <2>1, <2>2 DEF Attached
  <2> HIDE DEF N, rows
  <2> QED
    BY <1>3, <2>3, RecordBecomes
<1>5. /\ N \subseteq FactRow
      /\ \A f \in N : /\ f.tx = d.tx /\ f.tx <= d.tx
                      /\ f.type = "note_tag" /\ f.op = "attach"
      /\ {f.entity : f \in N} = X
  <2>1. X \subseteq NoteId \X Tag
    BY <1>3
  <2> HIDE DEF X
  <2> QED
    BY <2>1, FactsAre
<1>6. /\ rows = d.noteTags \cup X
      /\ \A x \in X : x[1] = n /\ x \in {<<n, t>> : t \in ts}
      /\ rows \subseteq NoteId \X Tag /\ rows \subseteq NotesOf(c) \X c.tags
  <2>1. d.noteTags \subseteq NoteId \X Tag /\ d.noteTags \subseteq NotesOf(c) \X c.tags
    BY <1>2, <1>3 DEF TablesOK, TypesOK, NoteTagsOK, NoteTagsStay
  <2>2. \A t \in ts : <<n, t>> \in d.noteTags \cup X
    BY TagsOfRows DEF TablesOK
  <2> QED
    BY <1>2, <1>3, <2>1, <2>2
<1> HIDE DEF N, X, rows
<1>7. /\ Of(e, "note_tag") = Of(c, "note_tag") \cup N
      /\ \A other : other # "note_tag" => Of(e, other) = Of(c, other)
      /\ Tells(Of(e, "note_tag"), rows, "attach")
  <2>1. Tells(Of(c, "note_tag"), d.noteTags, "attach")
    BY <1>2 DEF TablesOK, NoteTagsOK, NoteTagsStay
  <2>2. \A f \in Of(c, "note_tag"), g \in N : f.entity = g.entity => f.tx < c.tx
    BY <1>2, <1>3, <1>5, <1>6 DEF NoteTagsStay, NoteTagsFresh
  <2>3. /\ Of(e, "note_tag") = Of(c, "note_tag") \cup N
        /\ \A other : other # "note_tag" => Of(e, other) = Of(c, other)
    BY <1>4, <1>5 DEF Becomes, Of
  <2>4. Tells(Of(c, "note_tag") \cup N, d.noteTags \cup {f.entity : f \in N}, "attach")
    BY <1>3, <1>5, <2>1, <2>2, TellsStep
  <2> QED
    BY <1>5, <1>6, <2>3, <2>4
<1>8. TypesOK(e)
  <2>1. /\ c.fields \subseteq FieldId /\ c.tags \subseteq Tag
        /\ rows \subseteq NoteId \X Tag /\ c.links \subseteq LinkRow
    BY <1>3, <1>6 DEF TypesOK
  <2> QED
    BY <1>3, <1>4, <1>5, <2>1, TypesBecome
<1>9. /\ FieldsStay(c, e) /\ TagsStay(c, e) /\ LinksStay(c, e) /\ NotesStay(c, e)
      /\ SameNotes(c, e)
  BY <1>4, <1>7 DEF Becomes, FieldsStay, TagsStay, LinksStay, NotesStay
<1>10. NoteTagsOK(e)
  <2>1. e.noteTags = rows /\ e.tags = c.tags /\ NotesOf(e) = NotesOf(c)
    BY <1>4 DEF Becomes, SameNotes, NotesOf
  <2>2. \A f \in Of(e, "note_tag") : f.entity[1] \in NotesOf(e) /\ f.op # "insert"
    BY <1>2, <1>3, <1>5, <1>6, <1>7, <2>1 DEF TablesOK, NoteTagsOK
  <2> QED
    BY <1>6, <1>7, <2>1, <2>2 DEF NoteTagsOK
<1>11. TablesOK(e)
  BY <1>2, <1>8, <1>9, <1>10, StayOK DEF TablesOK
<1>12. FieldsStay(d, e) /\ LinksStay(d, e) /\ NotesStay(d, e)
  BY <1>2, <1>9 DEF FieldsStay, LinksStay, NotesStay, SameNotes
<1>13. TagsOf(d, n) \subseteq TagsOf(e, n)
  BY <1>2, <1>4, <1>6 DEF TagsOf, Becomes
<1>14. \A f \in Of(e, "note_tag") : f.entity[1] = n /\ f.tx = d.tx =>
         f.entity \in {<<n, t>> : t \in ts}
  <2>1. \A f \in Of(d, "note_tag") : f.entity[1] = n /\ f.tx = d.tx => FALSE
    <3>1. d.tx \in Nat
      BY <1>3, FactTimes
    <3> QED
      BY <3>1 DEF NoteTagsFresh
  <2> QED
    BY <1>2, <1>5, <1>6, <1>7, <2>1 DEF NoteTagsStay
<1> QED
  BY <1>11, <1>12, <1>13, <1>14

\* detach_tag_from_note_in_transaction.
LEMMA DetachedOK ==
    ASSUME NEW d, TablesOK(d), d.tx \in 1 .. MaxTx, NEW n \in NotesOf(d),
           NEW ts, NEW e, e = Detached(d, n, ts),
           \A f \in Of(d, "note_tag") : f.entity \in {<<n, t>> : t \in ts} => f.tx < d.tx
    PROVE  /\ TablesOK(e)
           /\ FieldsStay(d, e) /\ TagsStay(d, e) /\ LinksStay(d, e) /\ NotesStay(d, e)
<1> DEFINE X == {<<n, t>> : t \in ts \cap TagsOf(d, n)}
           N == Facts(d, "note_tag", X, "detach")
           rows == d.noteTags \ X
<1>1. IsDb(d) /\ TypesOK(d) /\ NoteTagsOK(d) /\ n \in NoteId
  BY DEF TablesOK, TypesOK
<1>2. \A t \in ts : <<n, t>> \in d.noteTags => t \in TagsOf(d, n)
  BY <1>1, TagsOfRows
<1>3. Becomes(d, e, d.fields, d.tags, rows, d.links, N)
  <2>1. N = {Fact(d, "note_tag", <<n, t>>, "detach") : t \in ts \cap TagsOf(d, n)}
    BY DEF Facts
  <2>2. d.noteTags \ {<<n, t>> : t \in ts} = rows
    BY <1>2
  <2>3. e = Record([d EXCEPT !.noteTags = rows], N)
    BY <2>1, <2>2 DEF Detached
  <2> HIDE DEF N, rows
  <2> QED
    BY <1>1, <2>3, RecordBecomes
<1>4. X \subseteq d.noteTags /\ X \subseteq {<<n, t>> : t \in ts}
  BY DEF TagsOf
<1>5. /\ N \subseteq FactRow
      /\ \A f \in N : /\ f.tx = d.tx /\ f.tx <= d.tx
                      /\ f.type = "note_tag" /\ f.op = "detach"
      /\ {f.entity : f \in N} = X
  <2>1. X \subseteq NoteId \X Tag
    BY <1>1, <1>4 DEF TypesOK
  <2> HIDE DEF X
  <2> QED
    BY <2>1, FactsAre
<1>6. rows = d.noteTags \ X
  OBVIOUS
<1> HIDE DEF N, X, rows
<1>7. /\ Of(e, "note_tag") = Of(d, "note_tag") \cup N
      /\ \A other : other # "note_tag" => Of(e, other) = Of(d, other)
      /\ Tells(Of(e, "note_tag"), rows, "attach")
  <2>1. Tells(Of(d, "note_tag"), d.noteTags, "attach")
    BY <1>1 DEF NoteTagsOK
  <2>2. \A f \in Of(d, "note_tag"), g \in N : f.entity = g.entity => f.tx < d.tx
    BY <1>4, <1>5
  <2>3. /\ Of(e, "note_tag") = Of(d, "note_tag") \cup N
        /\ \A other : other # "note_tag" => Of(e, other) = Of(d, other)
    BY <1>3, <1>5 DEF Becomes, Of
  <2>4. Tells(Of(d, "note_tag") \cup N, d.noteTags \ {f.entity : f \in N}, "attach")
    BY <1>1, <1>5, <2>1, <2>2, TellsStep
  <2> QED
    BY <1>5, <1>6, <2>3, <2>4
<1>8. TypesOK(e)
  <2>1. /\ d.fields \subseteq FieldId /\ d.tags \subseteq Tag
        /\ rows \subseteq NoteId \X Tag /\ d.links \subseteq LinkRow
    BY <1>1, <1>6 DEF TypesOK
  <2> QED
    BY <1>1, <1>3, <1>5, <2>1, TypesBecome
<1>9. /\ FieldsStay(d, e) /\ TagsStay(d, e) /\ LinksStay(d, e) /\ NotesStay(d, e)
      /\ SameNotes(d, e)
  BY <1>3, <1>7 DEF Becomes, FieldsStay, TagsStay, LinksStay, NotesStay
<1>10. NoteTagsOK(e)
  <2>1. e.noteTags = rows /\ e.tags = d.tags /\ NotesOf(e) = NotesOf(d)
    BY <1>3 DEF Becomes, SameNotes, NotesOf
  <2>2. \A x \in X : x[1] = n
    BY <1>4
  <2>3. \A f \in Of(e, "note_tag") : f.entity[1] \in NotesOf(e) /\ f.op # "insert"
    BY <1>1, <1>5, <1>7, <2>1, <2>2 DEF NoteTagsOK
  <2> QED
    BY <1>1, <1>6, <1>7, <2>1, <2>3 DEF NoteTagsOK
<1> QED
  BY <1>8, <1>9, <1>10, StayOK DEF TablesOK

\* replace_note_tags_in_transaction: what it detaches it has not attached.
LEMMA TagsReplacedOK ==
    ASSUME NEW d, TablesOK(d), d.tx \in 1 .. MaxTx, NEW n \in NotesOf(d),
           NEW ts \in {Keep} \cup SUBSET Tag, NoteTagsFresh(d, n),
           NEW e, e = TagsReplaced(d, n, ts)
    PROVE  TablesOK(e) /\ FieldsStay(d, e) /\ LinksStay(d, e) /\ NotesStay(d, e)
<1>1. CASE ts = Keep
  <2>1. e = d
    BY <1>1 DEF TagsReplaced
  <2>2. SameNotes(d, e)
    BY <2>1 DEF SameNotes, TablesOK, TypesOK
  <2> QED
    BY <2>1, <2>2 DEF FieldsStay, LinksStay, NotesStay
<1>2. CASE ts # Keep
  <2> DEFINE D == TagsOf(d, n) \ ts
  <2>1. PICK c : c = Attached(d, n, ts)
    OBVIOUS
  <2>2. /\ TablesOK(c) /\ FieldsStay(d, c) /\ LinksStay(d, c) /\ NotesStay(d, c)
        /\ \A f \in Of(c, "note_tag") : f.entity[1] = n /\ f.tx = d.tx =>
             f.entity \in {<<n, t>> : t \in ts}
    BY <1>2, <2>1, AttachedOK
  <2>3. e = Detached(c, n, D)
    BY <1>2, <2>1 DEF TagsReplaced
  <2>4. c.tx = d.tx /\ n \in NotesOf(c)
    BY <2>2 DEF NotesStay, SameNotes, NotesOf
  <2>5. ASSUME NEW f \in Of(c, "note_tag"), f.entity \in {<<n, t>> : t \in D}
        PROVE  f.tx < c.tx
    <3>1. f.entity[1] = n /\ f.entity \notin {<<n, t>> : t \in ts}
      BY <2>5
    <3>2. c.tx \in Nat /\ f.tx \in Nat /\ f.tx <= c.tx
      BY <2>2, FactTimes DEF TablesOK
    <3> QED
      BY <2>2, <2>4, <3>1, <3>2
  <2>6. TablesOK(e) /\ FieldsStay(c, e) /\ LinksStay(c, e) /\ NotesStay(c, e)
    <3> HIDE DEF D
    <3> QED
      BY <2>2, <2>3, <2>4, <2>5, DetachedOK
  <2> QED
    BY <2>2, <2>6 DEF FieldsStay, LinksStay, NotesStay, SameNotes
<1> QED
  BY <1>1, <1>2

\* The links that e has and d has not lead to notes that are visible in e.
NewLinksVisible(d, e) == \A l \in e.links \ d.links : Visible(e, l[2])

LEMMA Chosen ==
    ASSUME NEW d, NEW r, NEW m \in NoteId, Resolves(d, r, m)
    PROVE  /\ (CHOOSE k \in NoteId : Resolves(d, r, k)) = m
           /\ Visible(d, m)
BY DEF Resolves, Found

\* insert_note_links_in_transaction, where every reference leads to another
\* note that is visible.
LEMMA LinkedOK ==
    ASSUME NEW d, TablesOK(d), d.tx \in 1 .. MaxTx, NEW n \in NotesOf(d),
           NEW refs \in SUBSET Ref, \A r \in refs : \E m \in NoteId \ {n} : Resolves(d, r, m),
           \A f \in Of(d, "note_link") : f.entity[1] = n => f.entity[4] < d.tx,
           NEW e, e = Linked(d, n, refs)
    PROVE  /\ TablesOK(e)
           /\ FieldsStay(d, e) /\ TagsStay(d, e) /\ NoteTagsStay(d, e) /\ NotesStay(d, e)
           /\ NewLinksVisible(d, e)
<1> DEFINE X == {<<n, CHOOSE m \in NoteId : Resolves(d, r, m), r, d.tx>> : r \in refs}
           N == Facts(d, "note_link", X, "attach")
           rows == d.links \cup X
<1>1. IsDb(d) /\ TypesOK(d) /\ LinksOK(d) /\ n \in NoteId /\ d.tx \in Nat
  BY FactTimes DEF TablesOK, TypesOK
<1>2. Becomes(d, e, d.fields, d.tags, d.noteTags, rows, N)
  <2>1. e = Record([d EXCEPT !.links = rows], N)
    BY DEF Linked, Facts
  <2> HIDE DEF N, rows
  <2> QED
    BY <1>1, <2>1, RecordBecomes
<1>3. \A x \in X : \E m \in NoteId \ {n}, r \in Ref : x = <<n, m, r, d.tx>> /\ Visible(d, m)
  <2> SUFFICES ASSUME NEW r \in refs
               PROVE  LET k == CHOOSE m \in NoteId : Resolves(d, r, m)
                      IN  k \in NoteId \ {n} /\ Visible(d, k)
    OBVIOUS
  <2>1. PICK m \in NoteId \ {n} : Resolves(d, r, m)
    OBVIOUS
  <2> QED
    BY <2>1, Chosen
<1>4. rows = d.links \cup X
  OBVIOUS
<1> HIDE DEF N, X, rows
<1>5. X \subseteq LinkRow
  BY <1>1, <1>3 DEF LinkRow
<1>6. /\ N \subseteq FactRow
      /\ \A f \in N : /\ f.tx = d.tx /\ f.tx <= d.tx
                      /\ f.type = "note_link" /\ f.op = "attach"
      /\ {f.entity : f \in N} = X
  BY <1>5, FactsAre DEF N
<1>7. \A x \in X : x[1] = n /\ x[4] = d.tx /\ x[2] # n /\ Visible(d, x[2])
  BY <1>3
<1>8. /\ Of(e, "note_link") = Of(d, "note_link") \cup N
      /\ \A other : other # "note_link" => Of(e, other) = Of(d, other)
      /\ Tells(Of(e, "note_link"), rows, "attach")
  <2>1. Tells(Of(d, "note_link"), d.links, "attach")
    BY <1>1 DEF LinksOK
  <2>2. \A f \in Of(d, "note_link"), g \in N : f.entity # g.entity
    BY <1>1, <1>6, <1>7
  <2>3. /\ Of(e, "note_link") = Of(d, "note_link") \cup N
        /\ \A other : other # "note_link" => Of(e, other) = Of(d, other)
    BY <1>2, <1>6 DEF Becomes, Of
  <2>4. Tells(Of(d, "note_link") \cup N, d.links \cup {f.entity : f \in N}, "attach")
    BY <1>1, <1>6, <2>1, <2>2, TellsStep
  <2> QED
    BY <1>4, <1>6, <2>3, <2>4
<1>9. TypesOK(e)
  <2>1. /\ d.fields \subseteq FieldId /\ d.tags \subseteq Tag
        /\ d.noteTags \subseteq NoteId \X Tag /\ rows \subseteq LinkRow
    BY <1>1, <1>4, <1>5 DEF TypesOK
  <2> QED
    BY <1>1, <1>2, <1>6, <2>1, TypesBecome
<1>10. /\ FieldsStay(d, e) /\ TagsStay(d, e) /\ NoteTagsStay(d, e) /\ NotesStay(d, e)
       /\ SameNotes(d, e) /\ d.tags \subseteq e.tags
  BY <1>2, <1>8 DEF Becomes, FieldsStay, TagsStay, NoteTagsStay, NotesStay
<1>11. e.links = rows /\ NotesOf(e) = NotesOf(d) /\ e.notes = d.notes
  BY <1>2 DEF Becomes, SameNotes, NotesOf
<1>12. LinksOK(e)
  <2>1. \A l \in rows : {l[1], l[2]} \subseteq NotesOf(e) /\ l[1] # l[2]
    BY <1>1, <1>4, <1>7, <1>11 DEF LinksOK, Visible
  <2>2. \A f \in Of(e, "note_link") :
          /\ f.entity[1] \in NotesOf(e)
          /\ f.entity[4] \in Nat /\ f.entity[4] <= f.tx
          /\ f.op # "insert"
    BY <1>1, <1>6, <1>7, <1>8, <1>11 DEF LinksOK
  <2> QED
    BY <1>8, <1>11, <2>1, <2>2 DEF LinksOK
<1>13. NewLinksVisible(d, e)
  BY <1>4, <1>7, <1>11 DEF NewLinksVisible, Visible, NotesOf
<1> QED
  BY <1>9, <1>10, <1>12, <1>13, StayOK DEF TablesOK

\* The first half of replace_note_links_in_transaction.
LEMMA UnlinkedOK ==
    ASSUME NEW d, TablesOK(d), d.tx \in 1 .. MaxTx, NEW n \in NotesOf(d), LinksFresh(d, n),
           NEW e, e = Record([d EXCEPT !.links = @ \ LinksFrom(d, n)],
                             Facts(d, "note_link", LinksFrom(d, n), "detach"))
    PROVE  /\ TablesOK(e)
           /\ FieldsStay(d, e) /\ TagsStay(d, e) /\ NoteTagsStay(d, e) /\ NotesStay(d, e)
           /\ e.links \subseteq d.links
           /\ \A f \in Of(e, "note_link") : f.entity[1] = n => f.entity[4] < d.tx
<1> DEFINE X == LinksFrom(d, n)
           N == Facts(d, "note_link", X, "detach")
           rows == d.links \ X
<1>1. IsDb(d) /\ TypesOK(d) /\ LinksOK(d) /\ n \in NoteId /\ d.tx \in Nat
  BY FactTimes DEF TablesOK, TypesOK
<1>2. e = Record([d EXCEPT !.links = rows], N)
  OBVIOUS
<1>3. X \subseteq d.links /\ \A x \in X : x[1] = n
  BY DEF LinksFrom
<1>4. rows = d.links \ X
  OBVIOUS
<1> HIDE DEF N, X, rows
<1>5. Becomes(d, e, d.fields, d.tags, d.noteTags, rows, N)
  BY <1>1, <1>2, RecordBecomes
<1>6. /\ N \subseteq FactRow
      /\ \A f \in N : /\ f.tx = d.tx /\ f.tx <= d.tx
                      /\ f.type = "note_link" /\ f.op = "detach"
      /\ {f.entity : f \in N} = X
  <2>1. X \subseteq LinkRow
    BY <1>1, <1>3 DEF TypesOK
  <2> QED
    BY <2>1, FactsAre DEF N
<1>7. \A f \in Of(d, "note_link") : f.entity[1] = n => f.entity[4] < d.tx
  <2> SUFFICES ASSUME NEW f \in Of(d, "note_link"), f.entity[1] = n
               PROVE  f.entity[4] < d.tx
    OBVIOUS
  <2>1. f.tx < d.tx /\ f.entity[4] <= f.tx /\ f.tx \in Nat /\ f.entity[4] \in Nat
    BY <1>1, FactTimes DEF LinksFresh, LinksOK
  <2> QED
    BY <1>1, <2>1
<1>8. \A x \in X : x[4] \in Nat /\ x[4] < d.tx /\ x[4] <= d.tx
  <2> SUFFICES ASSUME NEW x \in X PROVE x[4] \in Nat /\ x[4] < d.tx /\ x[4] <= d.tx
    OBVIOUS
  <2>1. PICK f \in Of(d, "note_link") : f.entity = x
    BY <1>1, <1>3 DEF LinksOK, Tells
  <2>2. x[4] \in Nat
    BY <1>1, <1>3 DEF TypesOK, LinkRow
  <2>3. x[1] = n
    BY <1>3
  <2>4. x[4] < d.tx
    BY <1>7, <2>1, <2>3
  <2> QED
    BY <1>1, <2>2, <2>4
<1>9. /\ Of(e, "note_link") = Of(d, "note_link") \cup N
      /\ \A other : other # "note_link" => Of(e, other) = Of(d, other)
      /\ Tells(Of(e, "note_link"), rows, "attach")
  <2>1. Tells(Of(d, "note_link"), d.links, "attach")
    BY <1>1 DEF LinksOK
  <2>2. \A f \in Of(d, "note_link"), g \in N : f.entity = g.entity => f.tx < d.tx
    BY <1>3, <1>6 DEF LinksFresh
  <2>3. /\ Of(e, "note_link") = Of(d, "note_link") \cup N
        /\ \A other : other # "note_link" => Of(e, other) = Of(d, other)
    BY <1>5, <1>6 DEF Becomes, Of
  <2>4. Tells(Of(d, "note_link") \cup N, d.links \ {f.entity : f \in N}, "attach")
    BY <1>1, <1>6, <2>1, <2>2, TellsStep
  <2> QED
    BY <1>4, <1>6, <2>3, <2>4
<1>10. TypesOK(e)
  <2>1. /\ d.fields \subseteq FieldId /\ d.tags \subseteq Tag
        /\ d.noteTags \subseteq NoteId \X Tag /\ rows \subseteq LinkRow
    BY <1>1, <1>4 DEF TypesOK
  <2> QED
    BY <1>1, <1>5, <1>6, <2>1, TypesBecome
<1>11. /\ FieldsStay(d, e) /\ TagsStay(d, e) /\ NoteTagsStay(d, e) /\ NotesStay(d, e)
       /\ SameNotes(d, e) /\ d.tags \subseteq e.tags
  BY <1>5, <1>9 DEF Becomes, FieldsStay, TagsStay, NoteTagsStay, NotesStay
<1>12. e.links = rows /\ NotesOf(e) = NotesOf(d)
  BY <1>5 DEF Becomes, SameNotes, NotesOf
<1>13. LinksOK(e)
  <2>1. \A f \in Of(e, "note_link") :
          /\ f.entity[1] \in NotesOf(e)
          /\ f.entity[4] \in Nat /\ f.entity[4] <= f.tx
          /\ f.op # "insert"
    BY <1>1, <1>3, <1>6, <1>8, <1>9, <1>12 DEF LinksOK
  <2> QED
    BY <1>1, <1>4, <1>9, <1>12, <2>1 DEF LinksOK
<1>14. \A f \in Of(e, "note_link") : f.entity[1] = n => f.entity[4] < d.tx
  BY <1>6, <1>7, <1>8, <1>9
<1> QED
  BY <1>4, <1>10, <1>11, <1>12, <1>13, <1>14, StayOK DEF TablesOK

\* replace_note_links_in_transaction.
LEMMA LinksReplacedOK ==
    ASSUME NEW d, TablesOK(d), d.tx \in 1 .. MaxTx, NEW n \in NotesOf(d),
           NEW refs \in {Keep} \cup SUBSET Ref, LinksValid(d, n, refs), LinksFresh(d, n),
           NEW e, e = LinksReplaced(d, n, refs)
    PROVE  /\ TablesOK(e)
           /\ FieldsStay(d, e) /\ TagsStay(d, e) /\ NoteTagsStay(d, e) /\ NotesStay(d, e)
           /\ NewLinksVisible(d, e)
<1>1. CASE refs = Keep
  <2>1. e = d
    BY <1>1 DEF LinksReplaced
  <2>2. SameNotes(d, e)
    BY <2>1 DEF SameNotes, TablesOK, TypesOK
  <2> QED
    BY <2>1, <2>2 DEF FieldsStay, TagsStay, NoteTagsStay, NotesStay, NewLinksVisible
<1>2. CASE refs # Keep
  <2>1. PICK c : c = Record([d EXCEPT !.links = @ \ LinksFrom(d, n)],
                            Facts(d, "note_link", LinksFrom(d, n), "detach"))
    OBVIOUS
  <2>2. /\ TablesOK(c)
        /\ FieldsStay(d, c) /\ TagsStay(d, c) /\ NoteTagsStay(d, c) /\ NotesStay(d, c)
        /\ c.links \subseteq d.links
        /\ \A f \in Of(c, "note_link") : f.entity[1] = n => f.entity[4] < d.tx
    BY <2>1, UnlinkedOK
  <2>3. e = Linked(c, n, refs)
    BY <1>2, <2>1 DEF LinksReplaced, Facts
  <2>4. c.tx = d.tx /\ c.notes = d.notes /\ n \in NotesOf(c)
    BY <2>2 DEF NotesStay, SameNotes, NotesOf
  <2>5. \A r \in refs : \E m \in NoteId \ {n} : Resolves(c, r, m)
    BY <1>2, <2>4 DEF LinksValid, Resolves, Found, Visible, NotesOf
  <2>6. /\ TablesOK(e)
        /\ FieldsStay(c, e) /\ TagsStay(c, e) /\ NoteTagsStay(c, e) /\ NotesStay(c, e)
        /\ NewLinksVisible(c, e)
    BY <1>2, <2>2, <2>3, <2>4, <2>5, LinkedOK
  <2> QED
    BY <2>2, <2>6 DEF FieldsStay, TagsStay, NoteTagsStay, NotesStay, SameNotes, NewLinksVisible
<1> QED
  BY <1>1, <1>2

-----------------------------------------------------------------------------
\* The links that write notes and revisions.

\* Which tables stay as they are when notes and revisions are written.
RestStays(d, e) ==
    /\ e.fields = d.fields
    /\ e.tags = d.tags
    /\ e.noteTags = d.noteTags
    /\ e.links = d.links

RevisionFact(d, n, base) ==
    [Fact(d, "note_revision", <<n, d.tx>>, "insert") EXCEPT !.base = base]

LEMMA PutRest ==
    ASSUME NEW d, IsDb(d), NEW n, NEW row, NEW e, e = Put(d, n, row)
    PROVE  RestStays(d, e) /\ e.facts = d.facts
<1> DEFINE notes == NotesWith(d, n, row)
<1>1. e = [d EXCEPT !.notes = notes]
  BY DEF Put, NotesOf, NotesWith
<1> HIDE DEF notes
<1> QED
  BY <1>1 DEF IsDb, RestStays

LEMMA RevisedRest ==
    ASSUME NEW d, IsDb(d), NEW n, NEW base, NEW e, e = Revised(d, n, base)
    PROVE  RestStays(d, e) /\ e.facts = d.facts \cup {RevisionFact(d, n, base)}
<1> DEFINE revs == RevisionsWith(d, n)
           N == {RevisionFact(d, n, base)}
<1>1. PICK c : c = [d EXCEPT !.revisions = revs]
  OBVIOUS
<1>2. e = Record(c, N)
  BY <1>1 DEF Revised, RevisionsWith, RevisionFact
<1>3. N = {RevisionFact(d, n, base)}
  OBVIOUS
<1> HIDE DEF revs, N
<1>4. RestStays(d, c) /\ c.facts = d.facts /\ IsDb(c)
  BY <1>1 DEF IsDb, RestStays
<1>5. Becomes(c, e, c.fields, c.tags, c.noteTags, c.links, N)
  BY <1>2, <1>4, RecordBecomes
<1> QED
  BY <1>3, <1>4, <1>5 DEF Becomes, RestStays

\* The tables with a row and a revision, in either order.
Written(d, n, row, base) ==
    {Revised(Put(d, n, row), n, base), Put(Revised(d, n, base), n, row)}

\* Row first or revision first, the tables are the same.
LEMMA WrittenRest ==
    ASSUME NEW d, IsDb(d), NEW n, NEW row, NEW base, NEW e \in Written(d, n, row, base)
    PROVE  /\ Writes(d, e, n, row)
           /\ RestStays(d, e)
           /\ e.facts = d.facts \cup {RevisionFact(d, n, base)}
<1>0. Writes(d, e, n, row)
  <2>1. /\ Writes(d, Revised(Put(d, n, row), n, base), n, row)
        /\ Writes(d, Put(Revised(d, n, base), n, row), n, row)
    BY RowAndRevision
  <2> QED
    BY <2>1 DEF Written
<1>1. CASE e = Revised(Put(d, n, row), n, base)
  <2>1. PICK c : c = Put(d, n, row)
    OBVIOUS
  <2>2. RestStays(d, c) /\ c.facts = d.facts /\ IsDb(c) /\ c.tx = d.tx
    BY <2>1, PutRest, PutRow
  <2>3. RestStays(c, e) /\ e.facts = c.facts \cup {RevisionFact(c, n, base)}
    BY <1>1, <2>1, <2>2, RevisedRest
  <2>4. RevisionFact(c, n, base) = RevisionFact(d, n, base)
    BY <2>2 DEF RevisionFact, Fact
  <2> QED
    BY <1>0, <2>2, <2>3, <2>4 DEF RestStays
<1>2. CASE e = Put(Revised(d, n, base), n, row)
  <2>1. PICK c : c = Revised(d, n, base)
    OBVIOUS
  <2>2. RestStays(d, c) /\ c.facts = d.facts \cup {RevisionFact(d, n, base)} /\ IsDb(c)
    BY <2>1, RevisedRest, RevisedRow
  <2>3. RestStays(c, e) /\ e.facts = c.facts
    BY <1>2, <2>1, <2>2, PutRest
  <2> QED
    BY <1>0, <2>2, <2>3 DEF RestStays
<1> QED
  BY <1>1, <1>2 DEF Written

\* More notes, and rows written to those that are there, leave the parts about
\* the other tables alone.
LEMMA GrowOK ==
    ASSUME NEW d, NEW e, TablesOK(d), NotesOf(d) \subseteq NotesOf(e)
    PROVE  /\ FieldsStay(d, e) => FieldsOK(e)
           /\ TagsStay(d, e) => TagsOK(e)
           /\ NoteTagsStay(d, e) /\ d.tags \subseteq e.tags => NoteTagsOK(e)
           /\ LinksStay(d, e) => LinksOK(e)
           /\ Of(e, "note") = Of(d, "note") => NoteFactsOK(e)
           /\ e.revisions = d.revisions /\ Of(e, "note_revision") = Of(d, "note_revision")
                => RevisionsOK(e)
<1> USE DEF TablesOK
<1>1. FieldsStay(d, e) => FieldsOK(e)
  BY DEF FieldsStay, FieldsOK
<1>2. TagsStay(d, e) => TagsOK(e)
  BY DEF TagsStay, TagsOK
<1>3. NoteTagsStay(d, e) /\ d.tags \subseteq e.tags => NoteTagsOK(e)
  BY DEF NoteTagsStay, NoteTagsOK
<1>4. LinksStay(d, e) => LinksOK(e)
  BY DEF LinksStay, LinksOK
<1>5. Of(e, "note") = Of(d, "note") => NoteFactsOK(e)
  BY DEF NoteFactsOK
<1>6. e.revisions = d.revisions /\ Of(e, "note_revision") = Of(d, "note_revision")
        => RevisionsOK(e)
  BY DEF RevisionsOK, GrowsFrom, EarlierIn
<1> QED
  BY <1>1, <1>2, <1>3, <1>4, <1>5, <1>6

\* The revision a new one may name as its base.
BaseOK(d, n, base) ==
    \/ base = None /\ \A q \in DOMAIN d.revisions : d.revisions[q].note # n
    \/ base \in DOMAIN d.revisions /\ d.revisions[base].note = n

\* A row and a new revision of note n, younger than its others.
LEMMA WrittenOK ==
    ASSUME NEW d, TablesOK(d), NotesOK(d), d.tx \in 1 .. MaxTx,
           NEW n \in NoteId, NEW row \in NoteRow, row.field \in d.fields \cup {None},
           \A q \in DOMAIN d.revisions : d.revisions[q].note = n => q[2] < d.tx,
           NEW base, BaseOK(d, n, base),
           NEW e \in Written(d, n, row, base)
    PROVE  /\ TablesOK(e)
           /\ Writes(d, e, n, row) /\ RestStays(d, e)
           /\ \A type : type # "note_revision" => Of(e, type) = Of(d, type)
<1> DEFINE r == <<n, d.tx>>
           F == RevisionFact(d, n, base)
<1>1. IsDb(d) /\ TypesOK(d) /\ d.tx \in Nat /\ d.now \in Nat
  BY DEF NotesOK, TablesOK
<1>2. Writes(d, e, n, row) /\ RestStays(d, e) /\ e.facts = d.facts \cup {F}
  BY <1>1, WrittenRest
<1>3. /\ IsDb(e) /\ e.tx = d.tx /\ e.now = d.now
      /\ NotesOf(e) = NotesOf(d) \cup {n}
      /\ \A x \in NotesOf(e) : e.notes[x] = IF x = n THEN row ELSE d.notes[x]
      /\ DOMAIN e.revisions = DOMAIN d.revisions \cup {r}
      /\ e.revisions[r] = [note |-> n, text |-> r, created |-> d.now]
      /\ \A q \in DOMAIN e.revisions \ {r} : e.revisions[q] = d.revisions[q]
  BY <1>2 DEF Writes, NotesOf, NotesWith, RevisionsWith
<1>4. r \in RevisionId
  BY DEF RevisionId
<1>5. r \notin DOMAIN d.revisions
  <2> SUFFICES ASSUME r \in DOMAIN d.revisions PROVE FALSE
    OBVIOUS
  <2>1. d.revisions[r].note = n
    BY DEF NotesOK, RevisionOK
  <2> QED
    BY <1>1, <2>1
<1>6. base \in RevisionId \cup {None}
  BY <1>1 DEF BaseOK, TypesOK
<1>7. /\ F \in FactRow /\ F.tx = d.tx
      /\ F.type = "note_revision" /\ F.entity = r /\ F.base = base
  BY <1>4, <1>6 DEF RevisionFact, Fact, FactRow
<1> HIDE DEF F, r
<1>8. /\ Of(e, "note_revision") = Of(d, "note_revision") \cup {F}
      /\ \A type : type # "note_revision" => Of(e, type) = Of(d, type)
  BY <1>2, <1>7 DEF Of
<1>9. TypesOK(e)
  <2>1. \A x \in NotesOf(e) : e.notes[x] \in NoteRow
    BY <1>1, <1>3 DEF TypesOK
  <2>2. \A q \in DOMAIN e.revisions : e.revisions[q] \in RevisionRow
    BY <1>1, <1>3, <1>4 DEF TypesOK, RevisionRow
  <2>3. DOMAIN e.revisions \subseteq RevisionId /\ NotesOf(e) \subseteq NoteId
    BY <1>1, <1>3, <1>4 DEF TypesOK
  <2>4. e.facts \subseteq FactRow /\ \A f \in e.facts : f.tx <= e.tx
    BY <1>1, <1>2, <1>3, <1>7 DEF TypesOK
  <2> QED
    BY <1>1, <1>2, <1>3, <2>1, <2>2, <2>3, <2>4 DEF TypesOK, RestStays
<1>10. RowsOK(e)
  BY <1>2, <1>3 DEF TablesOK, RowsOK, RestStays
<1>11. /\ FieldsStay(d, e) /\ TagsStay(d, e) /\ NoteTagsStay(d, e) /\ LinksStay(d, e)
       /\ Of(e, "note") = Of(d, "note")
  BY <1>2, <1>8 DEF RestStays, FieldsStay, TagsStay, NoteTagsStay, LinksStay
<1>12. FieldsOK(e) /\ TagsOK(e) /\ NoteTagsOK(e) /\ LinksOK(e) /\ NoteFactsOK(e)
  <2>1. d.tags \subseteq e.tags
    BY <1>2 DEF RestStays
  <2> QED
    BY <1>3, <1>11, <2>1, GrowOK
<1>13. r[2] = d.tx /\ e.revisions[r].note = n /\ e.revisions[r].created = d.now
  BY <1>3 DEF r
<1>14. \A q \in DOMAIN d.revisions :
         /\ e.revisions[q] = d.revisions[q] /\ q # r
         /\ d.revisions[q].note = n => EarlierIn(e, q, r)
  <2> SUFFICES ASSUME NEW q \in DOMAIN d.revisions
               PROVE  /\ e.revisions[q] = d.revisions[q] /\ q # r
                      /\ d.revisions[q].note = n => EarlierIn(e, q, r)
    OBVIOUS
  <2>1. q # r /\ e.revisions[q] = d.revisions[q]
    BY <1>3, <1>5
  <2>2. d.revisions[q].created \in Nat /\ d.revisions[q].created <= d.now
    BY DEF NotesOK, RevisionOK
  <2> QED
    BY <1>1, <1>13, <2>1, <2>2 DEF EarlierIn
<1>15. GrowsFrom(e, r, base)
  <2>1. CASE base = None /\ \A q \in DOMAIN d.revisions : d.revisions[q].note # n
    BY <1>3, <1>13, <1>14, <2>1 DEF GrowsFrom
  <2>2. CASE base \in DOMAIN d.revisions /\ d.revisions[base].note = n
    <3>1. base # None
      BY <1>1, <2>2, NoneAssumption DEF TypesOK, RevisionId
    <3> QED
      BY <1>3, <1>13, <1>14, <2>2, <3>1 DEF GrowsFrom
  <2> QED
    BY <2>1, <2>2 DEF BaseOK
<1>16. ASSUME NEW q \in DOMAIN d.revisions, NEW b, GrowsFrom(d, q, b)
       PROVE  GrowsFrom(e, q, b)
  <2>1. \A p \in DOMAIN d.revisions :
          /\ EarlierIn(d, p, q) => EarlierIn(e, p, q)
          /\ EarlierIn(d, q, p) => EarlierIn(e, q, p)
    BY <1>14 DEF EarlierIn
  <2>2. CASE b = None
    BY <1>3, <1>13, <1>14, <1>16, <2>1, <2>2 DEF GrowsFrom
  <2>3. CASE b # None
    BY <1>3, <1>14, <1>16, <2>1, <2>3 DEF GrowsFrom
  <2> QED
    BY <2>2, <2>3
<1>17. RevisionsOK(e)
  <2>1. \A q \in DOMAIN e.revisions : \E f \in Of(e, "note_revision") :
          f.entity = q /\ GrowsFrom(e, q, f.base)
    <3> SUFFICES ASSUME NEW q \in DOMAIN e.revisions
                 PROVE  \E f \in Of(e, "note_revision") : f.entity = q /\ GrowsFrom(e, q, f.base)
      OBVIOUS
    <3>1. CASE q = r
      BY <1>7, <1>8, <1>15, <3>1
    <3>2. CASE q # r
      <4>1. q \in DOMAIN d.revisions
        BY <1>3, <3>2
      <4>2. PICK f \in Of(d, "note_revision") : f.entity = q /\ GrowsFrom(d, q, f.base)
        BY <4>1 DEF TablesOK, RevisionsOK
      <4> QED
        BY <1>8, <1>16, <4>1, <4>2
    <3> QED
      BY <3>1, <3>2
  <2>2. \A f \in Of(d, "note_revision") : f.entity \in DOMAIN d.revisions
    BY DEF TablesOK, RevisionsOK
  <2>3. \A f \in Of(e, "note_revision") : f.entity \in DOMAIN e.revisions
    BY <1>3, <1>7, <1>8, <2>2
  <2>4. \A f, g \in Of(d, "note_revision") : f.entity = g.entity => f = g
    BY DEF TablesOK, RevisionsOK
  <2>5. \A f, g \in Of(e, "note_revision") : f.entity = g.entity => f = g
    BY <1>5, <1>7, <1>8, <2>2, <2>4
  <2> QED
    BY <2>1, <2>3, <2>5 DEF RevisionsOK
<1> QED
  BY <1>2, <1>8, <1>9, <1>10, <1>12, <1>17 DEF TablesOK

\* A row alone.
LEMMA RowOK ==
    ASSUME NEW d, TablesOK(d), NEW n \in NotesOf(d), NEW row \in NoteRow,
           row.field \in d.fields \cup {None}, NEW e, e = Put(d, n, row)
    PROVE  /\ TablesOK(e)
           /\ RestStays(d, e) /\ e.revisions = d.revisions
           /\ e.tx = d.tx /\ e.now = d.now /\ NotesOf(e) = NotesOf(d)
           /\ \A x \in NotesOf(d) : e.notes[x] = IF x = n THEN row ELSE d.notes[x]
           /\ \A type : Of(e, type) = Of(d, type)
<1>1. IsDb(d) /\ TypesOK(d)
  BY DEF TablesOK, TypesOK
<1>2. /\ IsDb(e) /\ RestStays(d, e) /\ e.facts = d.facts
      /\ e.tx = d.tx /\ e.now = d.now /\ e.revisions = d.revisions
      /\ e.notes = NotesWith(d, n, row)
  BY <1>1, PutRow, PutRest
<1>3. /\ NotesOf(e) = NotesOf(d)
      /\ \A x \in NotesOf(d) : e.notes[x] = IF x = n THEN row ELSE d.notes[x]
  BY <1>2 DEF NotesOf, NotesWith
<1>4. \A type : Of(e, type) = Of(d, type)
  BY <1>2 DEF Of
<1>5. TypesOK(e)
  BY <1>1, <1>2, <1>3 DEF TypesOK, RestStays
<1>6. RowsOK(e)
  BY <1>2, <1>3 DEF TablesOK, RowsOK, RestStays
<1>7. /\ FieldsOK(e) /\ TagsOK(e) /\ NoteTagsOK(e) /\ LinksOK(e) /\ NoteFactsOK(e)
      /\ RevisionsOK(e)
  <2>1. FieldsStay(d, e) /\ TagsStay(d, e) /\ NoteTagsStay(d, e) /\ LinksStay(d, e)
    BY <1>2, <1>4 DEF RestStays, FieldsStay, TagsStay, NoteTagsStay, LinksStay
  <2>2. d.tags \subseteq e.tags /\ NotesOf(d) \subseteq NotesOf(e)
    BY <1>2, <1>3 DEF RestStays
  <2> QED
    BY <1>2, <1>4, <2>1, <2>2, GrowOK
<1> QED
  BY <1>2, <1>3, <1>4, <1>5, <1>6, <1>7 DEF TablesOK

\* The note's fact: the last about the note, with its row.
LEMMA NoteFactOK ==
    ASSUME NEW d, TablesOK(d), d.tx \in 1 .. MaxTx, NEW n \in NotesOf(d),
           NEW op \in {"insert", "update", "delete"},
           op = "insert" => \A f \in Of(d, "note") : f.entity # n,
           NEW e, e = NoteFact(d, n, op)
    PROVE  /\ TablesOK(e)
           /\ FieldsStay(d, e) /\ SameNotes(d, e) /\ RestStays(d, e)
           /\ Carried(e, n)
           /\ \A m \in NotesOf(d) \ {n} : /\ Carried(d, m) => Carried(e, m)
                                          /\ DeletionTold(d, m) => DeletionTold(e, m)
           /\ op = "delete" /\ d.notes[n].deleted => DeletionTold(e, n)
           /\ op # "delete" /\ DeletionTold(d, n) => DeletionTold(e, n)
<1> DEFINE F == [Fact(d, "note", n, op) EXCEPT !.row = d.notes[n]]
           N == {F}
<1>1. IsDb(d) /\ TypesOK(d) /\ n \in NoteId /\ d.notes[n] \in NoteRow
  BY DEF TablesOK, TypesOK
<1>2. /\ F \in FactRow /\ F.tx = d.tx /\ F.tx <= d.tx /\ F.tx \in Nat
      /\ F.type = "note" /\ F.entity = n /\ F.op = op /\ F.row = d.notes[n]
  BY <1>1 DEF Fact, FactRow
<1>3. N = {F} /\ e = Record(d, N)
  BY DEF NoteFact
<1> HIDE DEF N, F
<1>4. Becomes(d, e, d.fields, d.tags, d.noteTags, d.links, N)
  BY <1>1, <1>3, RecordBecomes
<1>5. /\ Of(e, "note") = Of(d, "note") \cup {F}
      /\ \A type : type # "note" => Of(e, type) = Of(d, type)
  BY <1>2, <1>3, <1>4 DEF Becomes, Of
<1>6. SameNotes(d, e) /\ RestStays(d, e)
  BY <1>4 DEF Becomes, RestStays
<1>7. e.notes = d.notes /\ NotesOf(e) = NotesOf(d)
  BY <1>6 DEF SameNotes, NotesOf
<1>8. TypesOK(e)
  <2>1. /\ d.fields \subseteq FieldId /\ d.tags \subseteq Tag
        /\ d.noteTags \subseteq NoteId \X Tag /\ d.links \subseteq LinkRow
        /\ N \subseteq FactRow /\ \A f \in N : f.tx <= d.tx
    BY <1>1, <1>2, <1>3 DEF TypesOK
  <2> QED
    BY <1>1, <1>4, <2>1, TypesBecome
<1>9. NoteFactsOK(e)
  <2>1. \A f \in Of(e, "note") : f.entity \in NotesOf(e)
    BY <1>2, <1>5, <1>7 DEF TablesOK, NoteFactsOK
  <2>2. OnceInserted(Of(e, "note"))
    BY <1>2, <1>5 DEF TablesOK, NoteFactsOK, OnceInserted
  <2> QED
    BY <2>1, <2>2 DEF NoteFactsOK
<1>10. /\ FieldsStay(d, e)
       /\ FieldsOK(e) /\ RowsOK(e) /\ TagsOK(e) /\ NoteTagsOK(e) /\ LinksOK(e)
  <2>1. FieldsStay(d, e) /\ TagsStay(d, e) /\ NoteTagsStay(d, e) /\ LinksStay(d, e)
    BY <1>5, <1>6 DEF RestStays, FieldsStay, TagsStay, NoteTagsStay, LinksStay
  <2>2. d.tags \subseteq e.tags
    BY <1>6 DEF RestStays
  <2> QED
    BY <1>6, <2>1, <2>2, StayOK
<1>11. RevisionsOK(e)
  <2>1. /\ NotesOf(d) \subseteq NotesOf(e) /\ e.revisions = d.revisions
        /\ Of(e, "note_revision") = Of(d, "note_revision")
    BY <1>5, <1>6, <1>7 DEF SameNotes
  <2> QED
    BY <2>1, GrowOK
<1>12. Carried(e, n)
  <2>1. \A g \in Of(e, "note") : g.tx <= F.tx
    BY <1>1, <1>2, <1>5, FactTimes
  <2> QED
    BY <1>2, <1>5, <1>7, <2>1 DEF Carried
<1>13. ASSUME NEW m \in NotesOf(d) \ {n}
       PROVE  /\ Carried(d, m) => Carried(e, m)
              /\ DeletionTold(d, m) => DeletionTold(e, m)
  <2>1. \A f : f \in Of(e, "note") /\ f.entity = m <=> f \in Of(d, "note") /\ f.entity = m
    BY <1>2, <1>5
  <2>2. Carried(d, m) => Carried(e, m)
    BY <1>7, <2>1 DEF Carried
  <2>3. DeletionTold(d, m) => DeletionTold(e, m)
    BY <1>7, <2>1 DEF DeletionTold
  <2> QED
    BY <2>2, <2>3
<1>14. op = "delete" /\ d.notes[n].deleted => DeletionTold(e, n)
  BY <1>2, <1>5, <1>7 DEF DeletionTold
<1>15. op # "delete" /\ DeletionTold(d, n) => DeletionTold(e, n)
  BY <1>2, <1>5, <1>7 DEF DeletionTold
<1>16. TablesOK(e)
  BY <1>8, <1>9, <1>10, <1>11 DEF TablesOK
<1> QED
  BY <1>6, <1>10, <1>12, <1>13, <1>14, <1>15, <1>16

-----------------------------------------------------------------------------
\* The transactions.

NotesTold(d) == \A n \in NotesOf(d) : DeletionTold(d, n) /\ Carried(d, n)

\* Tables a transaction may work on.
Ready(d) ==
    /\ TablesOK(d)
    /\ NotesOK(d)
    /\ NotesTold(d)
    /\ d.tx \in 1 .. MaxTx

\* The transaction has not written anything yet.
Fresh(d) ==
    /\ \A f \in d.facts : f.tx < d.tx
    /\ \A q \in DOMAIN d.revisions : q[2] < d.tx

RevisionsGrow(d, e) ==
    /\ DOMAIN d.revisions \subseteq DOMAIN e.revisions
    /\ \A q \in DOMAIN d.revisions : e.revisions[q].note = d.revisions[q].note

\* What a transaction makes of d.
Leads(d, e) ==
    /\ TablesOK(e)
    /\ NotesTold(e)
    /\ NewLinksVisible(d, e)
    /\ RevisionsGrow(d, e)

\* The field a name stands for is there.
LEMMA FieldOfIn ==
    ASSUME NEW d, NEW name \in Name \cup {None}, name \in Name => Named(d, name) # {}
    PROVE  FieldOf(d, name) \in d.fields \cup {None}
<1>1. CASE name = None
  BY <1>1 DEF FieldOf
<1>2. CASE name # None
  <2>1. PICK f : f \in Named(d, name)
    BY <1>2
  <2>2. (CHOOSE g \in Named(d, name) : TRUE) \in Named(d, name)
    BY <2>1
  <2> QED
    BY <1>2, <2>2 DEF FieldOf, Named
<1> QED
  BY <1>1, <1>2

LEMMA WritesRevisions ==
    ASSUME NEW d, NEW e, NEW n, NEW row, Writes(d, e, n, row), <<n, d.tx>> \notin DOMAIN d.revisions
    PROVE  RevisionsGrow(d, e)
BY DEF Writes, RevisionsWith, RevisionsGrow

\* The facts about a note, and its row, are as they were.
LEMMA NoteTold ==
    ASSUME NEW d, NEW e, NEW n, Of(e, "note") = Of(d, "note"), e.notes[n] = d.notes[n]
    PROVE  /\ Carried(d, n) => Carried(e, n)
           /\ DeletionTold(d, n) => DeletionTold(e, n)
BY DEF Carried, DeletionTold

\* create_note_in_transaction, alone or second in a batch.
LEMMA CreatedTables ==
    ASSUME NEW d, Ready(d), FieldsFresh(d), NEW n \in NoteId, NEW in \in CreateInput,
           Creatable(d, n, in), NEW e, e = Created(d, n, in)
    PROVE  /\ Leads(d, e) /\ FieldsFresh(e) /\ e.tx = d.tx
           /\ \A m \in NotesOf(d) : m \in NotesOf(e) /\ e.notes[m] = d.notes[m]
<1>1. PICK d1 : d1 = WithField(d, in.field)
  OBVIOUS
<1>2. PICK row : row = [text |-> <<n, d.tx>>, field |-> FieldOf(d1, in.field),
                        role |-> in.role, created |-> d.now, updated |-> d.now,
                        archived |-> FALSE, deleted |-> FALSE, revision |-> <<n, d.tx>>]
  OBVIOUS
<1>3. PICK d2 : d2 = Revised(Put(d1, n, row), n, None)
  OBVIOUS
<1>4. PICK d3 : d3 = Attached(d2, n, in.tags)
  OBVIOUS
<1>5. PICK d4 : d4 = Linked(d3, n, in.links)
  OBVIOUS
<1>6. e = NoteFact(d4, n, "insert")
  BY <1>1, <1>2, <1>3, <1>4, <1>5 DEF Created
<1>7. /\ TablesOK(d) /\ TypesOK(d) /\ NotesOK(d) /\ NotesTold(d) /\ d.tx \in 1 .. MaxTx
      /\ d.now \in Nat /\ n \notin NotesOf(d)
  BY DEF Ready, TablesOK, NotesOK, Creatable
<1>8. /\ in.field \in Name \cup {None} /\ in.tags \in SUBSET Tag
      /\ in.links \in SUBSET Ref /\ in.role \in Role
  BY InputAssumption
<1>9. /\ TablesOK(d1) /\ FieldsFresh(d1)
      /\ in.field \in Name => Named(d1, in.field) # {}
      /\ TagsStay(d, d1) /\ NoteTagsStay(d, d1) /\ LinksStay(d, d1) /\ NotesStay(d, d1)
  BY <1>1, <1>7, <1>8, WithFieldOK
<1>10. /\ d1.tx = d.tx /\ d1.now = d.now /\ NotesOf(d1) = NotesOf(d)
       /\ d1.notes = d.notes /\ d1.revisions = d.revisions /\ NotesOK(d1)
  BY <1>7, <1>9, SameNotesOK DEF NotesStay, SameNotes, NotesOf
<1>11. row \in NoteRow /\ row.field \in d1.fields \cup {None} /\ ~row.deleted
  <2>1. row.field \in d1.fields \cup {None}
    BY <1>2, <1>8, <1>9, FieldOfIn
  <2>2. d1.fields \subseteq FieldId
    BY <1>9 DEF TablesOK, TypesOK
  <2>3. <<n, d.tx>> \in RevisionId
    BY <1>7 DEF RevisionId
  <2> QED
    BY <1>2, <1>7, <1>8, <2>1, <2>2, <2>3 DEF NoteRow
<1>12. \A q \in DOMAIN d1.revisions : d1.revisions[q].note # n
  BY <1>7, <1>10 DEF NotesOK, RevisionOK
<1>13. d2 \in Written(d1, n, row, None) /\ BaseOK(d1, n, None)
  BY <1>3, <1>12 DEF Written, BaseOK
<1>14. /\ TablesOK(d2) /\ Writes(d1, d2, n, row) /\ RestStays(d1, d2)
       /\ \A type : type # "note_revision" => Of(d2, type) = Of(d1, type)
  BY <1>7, <1>9, <1>10, <1>11, <1>12, <1>13, WrittenOK
<1>15. /\ d2.tx = d.tx
       /\ NotesOf(d2) = NotesOf(d) \cup {n}
       /\ d2.notes[n] = row
       /\ \A m \in NotesOf(d) : d2.notes[m] = d.notes[m]
  BY <1>7, <1>10, <1>14 DEF Writes, NotesWith, NotesOf
<1>16. RevisionsGrow(d, d2)
  <2>1. <<n, d1.tx>> \notin DOMAIN d1.revisions
    BY <1>7, <1>10, <1>12 DEF NotesOK, RevisionOK
  <2>2. RevisionsGrow(d1, d2)
    BY <1>14, <2>1, WritesRevisions
  <2> QED
    BY <1>10, <2>2 DEF RevisionsGrow
<1>17. NoteTagsFresh(d2, n)
  <2>1. Of(d2, "note_tag") = Of(d, "note_tag")
    BY <1>9, <1>14 DEF NoteTagsStay
  <2> QED
    BY <1>7, <2>1 DEF NoteTagsFresh, TablesOK, NoteTagsOK
<1>18. /\ TablesOK(d3)
       /\ FieldsStay(d2, d3) /\ LinksStay(d2, d3) /\ NotesStay(d2, d3)
  BY <1>4, <1>7, <1>8, <1>14, <1>15, <1>17, AttachedOK
<1>19. d3.tx = d.tx /\ d3.notes = d2.notes /\ NotesOf(d3) = NotesOf(d) \cup {n}
  BY <1>15, <1>18 DEF NotesStay, SameNotes, NotesOf
<1>20. \A r \in in.links : \E m \in NoteId \ {n} : Resolves(d3, r, m)
  <2> SUFFICES ASSUME NEW r \in in.links
               PROVE  \E m \in NoteId \ {n} : Resolves(d3, r, m)
    OBVIOUS
  <2>1. n \notin Matches[r] /\ in.links # Keep
    BY <1>8, NoneAssumption DEF Creatable
  <2>2. PICK m \in NoteId \ {n} : Resolves(d, r, m)
    BY <2>1 DEF Creatable, LinksValid
  <2>3. Found(d3, r) = Found(d, r)
    BY <1>15, <1>19, <2>1 DEF Found, Visible
  <2> QED
    BY <2>2, <2>3 DEF Resolves
<1>21. \A f \in Of(d3, "note_link") : f.entity[1] = n => f.entity[4] < d3.tx
  <2>1. Of(d3, "note_link") = Of(d, "note_link")
    BY <1>9, <1>14, <1>18 DEF LinksStay
  <2> QED
    BY <1>7, <2>1 DEF TablesOK, LinksOK
<1>22. /\ TablesOK(d4)
       /\ FieldsStay(d3, d4) /\ TagsStay(d3, d4) /\ NoteTagsStay(d3, d4) /\ NotesStay(d3, d4)
       /\ NewLinksVisible(d3, d4)
  BY <1>5, <1>7, <1>8, <1>18, <1>19, <1>20, <1>21, LinkedOK
<1>23. /\ d4.tx = d.tx /\ NotesOf(d4) = NotesOf(d) \cup {n}
       /\ d4.notes[n] = row /\ \A m \in NotesOf(d) : d4.notes[m] = d.notes[m]
       /\ d4.revisions = d2.revisions
       /\ Of(d4, "note") = Of(d, "note")
  BY <1>9, <1>14, <1>15, <1>18, <1>19, <1>22 DEF NotesStay, SameNotes, NotesOf
<1>24. \A f \in Of(d4, "note") : f.entity # n
  BY <1>7, <1>23 DEF TablesOK, NoteFactsOK
<1>25. /\ TablesOK(e)
       /\ FieldsStay(d4, e) /\ SameNotes(d4, e) /\ RestStays(d4, e)
       /\ Carried(e, n)
       /\ \A m \in NotesOf(d4) \ {n} : /\ Carried(d4, m) => Carried(e, m)
                                       /\ DeletionTold(d4, m) => DeletionTold(e, m)
       /\ DeletionTold(d4, n) => DeletionTold(e, n)
  BY <1>6, <1>7, <1>22, <1>23, <1>24, NoteFactOK
<1>26. /\ NotesOf(e) = NotesOf(d) \cup {n} /\ e.notes = d4.notes /\ e.tx = d.tx
  BY <1>23, <1>25 DEF SameNotes, NotesOf
<1>27. NotesTold(e)
  <2>1. DeletionTold(d4, n)
    BY <1>11, <1>23, <1>24 DEF DeletionTold
  <2>2. ASSUME NEW m \in NotesOf(d)
        PROVE  Carried(e, m) /\ DeletionTold(e, m)
    <3>1. Carried(d, m) /\ DeletionTold(d, m) /\ m \in NotesOf(d4) \ {n}
      BY <1>7, <1>23 DEF NotesTold
    <3>2. Carried(d4, m) /\ DeletionTold(d4, m)
      BY <1>23, <3>1, NoteTold
    <3> QED
      BY <1>25, <3>1, <3>2
  <2> QED
    BY <1>25, <1>26, <2>1, <2>2 DEF NotesTold
<1>28. NewLinksVisible(d, e)
  <2>1. d3.links = d.links
    BY <1>9, <1>14, <1>18 DEF LinksStay, RestStays
  <2> QED
    BY <1>22, <1>25, <2>1 DEF NewLinksVisible, RestStays, SameNotes, Visible, NotesOf
<1>29. RevisionsGrow(d, e)
  BY <1>16, <1>23, <1>25 DEF RevisionsGrow, SameNotes
<1>30. FieldsFresh(e)
  <2>1. e.fields = d1.fields /\ Of(e, "field") = Of(d1, "field")
    BY <1>14, <1>18, <1>22, <1>25 DEF FieldsStay, RestStays
  <2> QED
    BY <1>9, <1>10, <1>26, <2>1 DEF FieldsFresh
<1> QED
  BY <1>23, <1>25, <1>26, <1>27, <1>28, <1>29, <1>30 DEF Leads

\* Nothing of a fresh transaction is there already.
LEMMA FreshParts ==
    ASSUME NEW d, Ready(d), Fresh(d)
    PROVE  /\ FieldsFresh(d)
           /\ \A n : NoteTagsFresh(d, n) /\ LinksFresh(d, n)
           /\ \A n : <<n, d.tx>> \notin DOMAIN d.revisions
<1>1. \A type : \A f \in Of(d, type) : f.tx < d.tx
  BY DEF Fresh, Of
<1>2. d.tx \in Nat
  BY DEF Ready
<1>3. FieldsFresh(d)
  BY <1>1, <1>2 DEF FieldsFresh
<1>4. \A n : NoteTagsFresh(d, n) /\ LinksFresh(d, n)
  BY <1>1 DEF NoteTagsFresh, LinksFresh
<1>5. \A n : <<n, d.tx>> \notin DOMAIN d.revisions
  BY <1>2 DEF Fresh
<1> QED
  BY <1>3, <1>4, <1>5

\* update_note, by a request whose look-up found a revision of the note.
LEMMA UpdatedTables ==
    ASSUME NEW d, Ready(d), Fresh(d), NEW n \in NotesOf(d), NEW in \in UpdateInput,
           NEW found, BaseOK(d, n, found.revision), LinksValid(d, n, in.links),
           NEW e, e = Updated(d, n, found, in)
    PROVE  Leads(d, e)
<1>1. PICK d1 : d1 = WithField(d, NewField(in))
  OBVIOUS
<1>2. PICK row : row = UpdatedRow(d1, n, found, in)
  OBVIOUS
<1>3. PICK d2 : d2 = Put(Revised(d1, n, found.revision), n, row)
  OBVIOUS
<1>4. PICK d3 : d3 = TagsReplaced(d2, n, in.tags)
  OBVIOUS
<1>5. PICK d4 : d4 = LinksReplaced(d3, n, in.links)
  OBVIOUS
<1>6. e = NoteFact(d4, n, "update")
  BY <1>1, <1>2, <1>3, <1>4, <1>5 DEF Updated, BaseOf
<1>7. /\ TablesOK(d) /\ TypesOK(d) /\ NotesOK(d) /\ NotesTold(d) /\ d.tx \in 1 .. MaxTx
      /\ d.now \in Nat /\ n \in NoteId
      /\ FieldsFresh(d) /\ NoteTagsFresh(d, n) /\ LinksFresh(d, n)
      /\ <<n, d.tx>> \notin DOMAIN d.revisions
  BY FreshParts DEF Ready, TablesOK, TypesOK, NotesOK
<1>8. /\ in.field \in Name \cup {None, Keep} /\ in.tags \in {Keep} \cup SUBSET Tag
      /\ in.links \in {Keep} \cup SUBSET Ref
  BY InputAssumption
<1>9. NewField(in) \in Name \cup {Keep} /\ (in.field # Keep => NewField(in) \in Name)
  BY <1>8, InputAssumption DEF NewField
<1>10. /\ TablesOK(d1)
       /\ NewField(in) \in Name => Named(d1, NewField(in)) # {}
       /\ TagsStay(d, d1) /\ NoteTagsStay(d, d1) /\ LinksStay(d, d1) /\ NotesStay(d, d1)
  BY <1>1, <1>7, <1>9, WithFieldOK
<1>11. /\ d1.tx = d.tx /\ d1.now = d.now /\ NotesOf(d1) = NotesOf(d)
       /\ d1.notes = d.notes /\ d1.revisions = d.revisions /\ NotesOK(d1)
  BY <1>7, <1>10, SameNotesOK DEF NotesStay, SameNotes, NotesOf
<1>12. /\ row \in NoteRow /\ row.field \in d1.fields \cup {None}
       /\ row.deleted = d.notes[n].deleted /\ row.archived = d.notes[n].archived
  <2>1. NewFieldOf(d1, n, in) \in d1.fields \cup {None}
    <3>1. CASE in.field = Keep
      BY <1>10, <1>11, <3>1 DEF NewFieldOf, TablesOK, RowsOK
    <3>2. CASE in.field # Keep
      BY <1>9, <1>10, <3>2, FieldOfIn DEF NewFieldOf
    <3> QED
      BY <3>1, <3>2
  <2>2. d1.fields \subseteq FieldId
    BY <1>10 DEF TablesOK, TypesOK
  <2>3. <<n, d.tx>> \in RevisionId
    BY <1>7 DEF RevisionId
  <2>4. d.notes[n] \in NoteRow
    BY <1>7 DEF TypesOK
  <2> DEFINE fld == NewFieldOf(d1, n, in)
  <2>5. row = [d.notes[n] EXCEPT !.text = <<n, d.tx>>, !.revision = <<n, d.tx>>,
                                 !.updated = d.now, !.field = fld]
    BY <1>2, <1>11 DEF UpdatedRow
  <2>6. fld \in d1.fields \cup {None}
    BY <2>1
  <2> HIDE DEF fld
  <2> QED
    BY <1>7, <2>2, <2>3, <2>4, <2>5, <2>6 DEF NoteRow
<1>13. /\ d2 \in Written(d1, n, row, found.revision)
       /\ BaseOK(d1, n, found.revision)
       /\ \A q \in DOMAIN d1.revisions : d1.revisions[q].note = n => q[2] < d1.tx
  BY <1>3, <1>11 DEF Written, BaseOK, Fresh
<1>14. /\ TablesOK(d2) /\ Writes(d1, d2, n, row) /\ RestStays(d1, d2)
       /\ \A type : type # "note_revision" => Of(d2, type) = Of(d1, type)
  BY <1>7, <1>10, <1>11, <1>12, <1>13, WrittenOK
<1>15. /\ d2.tx = d.tx
       /\ NotesOf(d2) = NotesOf(d)
       /\ d2.notes[n] = row
       /\ \A m \in NotesOf(d) \ {n} : d2.notes[m] = d.notes[m]
  BY <1>7, <1>11, <1>14 DEF Writes, NotesWith, NotesOf
<1>16. RevisionsGrow(d, d2)
  <2>1. RevisionsGrow(d1, d2)
    BY <1>7, <1>11, <1>14, WritesRevisions
  <2> QED
    BY <1>11, <2>1 DEF RevisionsGrow
<1>17. NoteTagsFresh(d2, n)
  BY <1>7, <1>10, <1>14, <1>15 DEF NoteTagsStay, NoteTagsFresh
<1>18. /\ TablesOK(d3)
       /\ FieldsStay(d2, d3) /\ LinksStay(d2, d3) /\ NotesStay(d2, d3)
  BY <1>4, <1>7, <1>8, <1>14, <1>15, <1>17, TagsReplacedOK
<1>19. d3.tx = d.tx /\ d3.notes = d2.notes /\ NotesOf(d3) = NotesOf(d)
  BY <1>15, <1>18 DEF NotesStay, SameNotes, NotesOf
<1>20. LinksValid(d3, n, in.links)
  <2>1. \A m : Visible(d3, m) <=> Visible(d, m)
    BY <1>12, <1>15, <1>19 DEF Visible, Shown
  <2>2. \A r, m : Resolves(d3, r, m) <=> Resolves(d, r, m)
    BY <2>1 DEF Resolves, Found
  <2> QED
    BY <2>2 DEF LinksValid
<1>21. LinksFresh(d3, n)
  BY <1>7, <1>10, <1>14, <1>18, <1>19 DEF LinksStay, LinksFresh
<1>22. /\ TablesOK(d4) /\ NotesStay(d3, d4) /\ NewLinksVisible(d3, d4)
  BY <1>5, <1>7, <1>8, <1>18, <1>19, <1>20, <1>21, LinksReplacedOK
<1>23. /\ d4.tx = d.tx /\ NotesOf(d4) = NotesOf(d)
       /\ d4.notes[n] = row /\ \A m \in NotesOf(d) \ {n} : d4.notes[m] = d.notes[m]
       /\ d4.revisions = d2.revisions
       /\ Of(d4, "note") = Of(d, "note")
  BY <1>10, <1>14, <1>15, <1>18, <1>19, <1>22 DEF NotesStay, SameNotes, NotesOf
<1>24. /\ TablesOK(e) /\ SameNotes(d4, e) /\ RestStays(d4, e)
       /\ Carried(e, n)
       /\ \A m \in NotesOf(d4) \ {n} : /\ Carried(d4, m) => Carried(e, m)
                                       /\ DeletionTold(d4, m) => DeletionTold(e, m)
       /\ DeletionTold(d4, n) => DeletionTold(e, n)
  BY <1>6, <1>7, <1>22, <1>23, NoteFactOK
<1>25. NotesOf(e) = NotesOf(d)
  BY <1>23, <1>24 DEF SameNotes, NotesOf
<1>26. NotesTold(e)
  <2>1. DeletionTold(d4, n)
    BY <1>7, <1>12, <1>23 DEF DeletionTold, NotesTold
  <2>2. ASSUME NEW m \in NotesOf(d) \ {n}
        PROVE  Carried(e, m) /\ DeletionTold(e, m)
    <3>1. Carried(d, m) /\ DeletionTold(d, m) /\ m \in NotesOf(d4) \ {n}
      BY <1>7, <1>23 DEF NotesTold
    <3>2. Carried(d4, m) /\ DeletionTold(d4, m)
      BY <1>23, <3>1, NoteTold
    <3> QED
      BY <1>24, <3>1, <3>2
  <2> QED
    BY <1>24, <1>25, <2>1, <2>2 DEF NotesTold
<1>27. NewLinksVisible(d, e)
  <2>1. d3.links = d.links
    BY <1>10, <1>14, <1>18 DEF LinksStay, RestStays
  <2> QED
    BY <1>22, <1>24, <2>1 DEF NewLinksVisible, RestStays, SameNotes, Visible, NotesOf
<1>28. RevisionsGrow(d, e)
  BY <1>16, <1>23, <1>24 DEF RevisionsGrow, SameNotes
<1> QED
  BY <1>24, <1>26, <1>27, <1>28 DEF Leads

\* archive_note and delete_note.
LEMMA HiddenTables ==
    ASSUME NEW d, Ready(d), NEW n \in NotesOf(d), NEW e,
           e \in {Archived(d, n), Deleted(d, n)}
    PROVE  Leads(d, e)
<1>1. TablesOK(d) /\ NotesTold(d) /\ d.tx \in 1 .. MaxTx /\ d.now \in Nat
  BY DEF Ready, NotesOK
<1>2. d.notes[n] \in NoteRow /\ d.notes[n].field \in d.fields \cup {None}
  BY <1>1 DEF TablesOK, TypesOK, RowsOK
<1>3. ASSUME NEW row \in NoteRow, row.field = d.notes[n].field,
             NEW op \in {"update", "delete"},
             op = "update" => row.deleted = d.notes[n].deleted,
             op = "delete" => row.deleted,
             NEW g, g = NoteFact(Put(d, n, row), n, op)
      PROVE  Leads(d, g)
  <2>1. PICK c : c = Put(d, n, row)
    OBVIOUS
  <2>2. /\ TablesOK(c)
        /\ RestStays(d, c) /\ c.revisions = d.revisions
        /\ c.tx = d.tx /\ c.now = d.now /\ NotesOf(c) = NotesOf(d)
        /\ \A x \in NotesOf(d) : c.notes[x] = IF x = n THEN row ELSE d.notes[x]
        /\ \A type : Of(c, type) = Of(d, type)
    BY <1>1, <1>2, <1>3, <2>1, RowOK
  <2>3. /\ TablesOK(g) /\ SameNotes(c, g) /\ RestStays(c, g)
        /\ Carried(g, n)
        /\ \A m \in NotesOf(c) \ {n} : /\ Carried(c, m) => Carried(g, m)
                                       /\ DeletionTold(c, m) => DeletionTold(g, m)
        /\ op = "delete" /\ c.notes[n].deleted => DeletionTold(g, n)
        /\ op # "delete" /\ DeletionTold(c, n) => DeletionTold(g, n)
    BY <1>1, <1>3, <2>1, <2>2, NoteFactOK
  <2>4. NotesOf(g) = NotesOf(d)
    BY <2>2, <2>3 DEF SameNotes, NotesOf
  <2>5. DeletionTold(g, n)
    <3>1. CASE op = "update"
      <4>1. DeletionTold(d, n) /\ c.notes[n] = row
        BY <1>1, <2>2 DEF NotesTold
      <4>2. DeletionTold(c, n)
        BY <1>3, <2>2, <3>1, <4>1 DEF DeletionTold
      <4> QED
        BY <2>3, <3>1, <4>2
    <3>2. CASE op = "delete"
      BY <1>3, <2>2, <2>3, <3>2
    <3> QED
      BY <3>1, <3>2
  <2>6. ASSUME NEW m \in NotesOf(d) \ {n}
        PROVE  Carried(g, m) /\ DeletionTold(g, m)
    <3>1. Carried(d, m) /\ DeletionTold(d, m) /\ m \in NotesOf(c) \ {n}
      BY <1>1, <2>2 DEF NotesTold
    <3>2. Carried(c, m) /\ DeletionTold(c, m)
      BY <2>2, <3>1, NoteTold
    <3> QED
      BY <2>3, <3>1, <3>2
  <2>7. NotesTold(g)
    BY <2>3, <2>4, <2>5, <2>6 DEF NotesTold
  <2>8. NewLinksVisible(d, g)
    BY <2>2, <2>3 DEF NewLinksVisible, RestStays
  <2>9. RevisionsGrow(d, g)
    BY <2>2, <2>3 DEF RevisionsGrow, SameNotes
  <2> QED
    BY <2>3, <2>7, <2>8, <2>9 DEF Leads
<1>4. CASE e = Archived(d, n)
  <2>1. PICK row : row = [d.notes[n] EXCEPT !.archived = TRUE, !.updated = d.now]
    OBVIOUS
  <2>2. /\ row \in NoteRow /\ row.field = d.notes[n].field
        /\ row.deleted = d.notes[n].deleted
    BY <1>1, <1>2, <2>1 DEF NoteRow
  <2>3. e = NoteFact(Put(d, n, row), n, "update")
    BY <1>4, <2>1 DEF Archived
  <2> QED
    BY <1>3, <2>2, <2>3
<1>5. CASE e = Deleted(d, n)
  <2>1. PICK row : row = [d.notes[n] EXCEPT !.deleted = TRUE, !.updated = d.now]
    OBVIOUS
  <2>2. row \in NoteRow /\ row.field = d.notes[n].field /\ row.deleted
    BY <1>1, <1>2, <2>1 DEF NoteRow
  <2>3. e = NoteFact(Put(d, n, row), n, "delete")
    BY <1>5, <2>1 DEF Deleted
  <2> QED
    BY <1>3, <2>2, <2>3
<1> QED
  BY <1>4, <1>5

\* A transaction that leaves notes and revisions alone and adds no link.
LEMMA AsideTables ==
    ASSUME NEW d, Ready(d), NEW e, TablesOK(e), LinksStay(d, e), NotesStay(d, e)
    PROVE  Leads(d, e)
<1>1. NotesOf(e) = NotesOf(d) /\ e.notes = d.notes /\ Of(e, "note") = Of(d, "note")
  BY DEF NotesStay, SameNotes, NotesOf
<1>2. NotesTold(e)
  BY <1>1 DEF Ready, NotesTold, Carried, DeletionTold
<1> QED
  BY <1>2 DEF Leads, NotesStay, SameNotes, LinksStay, NewLinksVisible, RevisionsGrow

\* delete_unused_field: no visible note has the field, hidden notes lose it.
LEMMA WithoutFieldTables ==
    ASSUME NEW d, Ready(d), Fresh(d), NEW f \in d.fields,
           ~\E n \in NotesOf(d) : Visible(d, n) /\ d.notes[n].field = f,
           NEW e, e = WithoutField(d, f)
    PROVE  Leads(d, e)
<1> DEFINE Bare(row) == [row EXCEPT !.field = None]
           notes == [n \in NotesOf(d) |->
                       IF d.notes[n].field = f /\ ~Shown(d.notes[n])
                       THEN Bare(d.notes[n]) ELSE d.notes[n]]
           rows == d.fields \ {f}
           X == {f}
           N == Facts(d, "field", X, "delete")
<1>1. /\ TablesOK(d) /\ TypesOK(d) /\ IsDb(d) /\ NotesOK(d) /\ NotesTold(d)
      /\ d.tx \in 1 .. MaxTx /\ f \in FieldId
  BY DEF Ready, TablesOK, TypesOK
<1>2. PICK c : c = [d EXCEPT !.fields = rows, !.notes = notes]
  OBVIOUS
<1>3. e = Record(c, N)
  BY <1>2 DEF WithoutField, NotesOf, Facts
<1>4. \A n \in NotesOf(d) :
        /\ notes[n] \in NoteRow
        /\ notes[n].deleted = d.notes[n].deleted
        /\ notes[n].field \in rows \cup {None}
        /\ \/ notes[n] = d.notes[n]
           \/ ~Shown(d.notes[n]) /\ ~Shown(notes[n]) /\ notes[n] = Bare(d.notes[n])
  <2> SUFFICES ASSUME NEW n \in NotesOf(d)
               PROVE  /\ notes[n] \in NoteRow
                      /\ notes[n].deleted = d.notes[n].deleted
                      /\ notes[n].field \in rows \cup {None}
                      /\ \/ notes[n] = d.notes[n]
                         \/ /\ ~Shown(d.notes[n]) /\ ~Shown(notes[n])
                            /\ notes[n] = Bare(d.notes[n])
    OBVIOUS
  <2>1. d.notes[n] \in NoteRow /\ d.notes[n].field \in d.fields \cup {None}
    BY <1>1 DEF TypesOK, TablesOK, RowsOK
  <2>2. /\ Bare(d.notes[n]) \in NoteRow /\ Bare(d.notes[n]).field = None
        /\ Bare(d.notes[n]).deleted = d.notes[n].deleted
        /\ Bare(d.notes[n]).archived = d.notes[n].archived
    BY <2>1 DEF NoteRow
  <2>3. CASE d.notes[n].field = f /\ ~Shown(d.notes[n])
    <3>1. notes[n] = Bare(d.notes[n])
      BY <2>3
    <3> HIDE DEF notes, Bare
    <3> QED
      BY <2>2, <2>3, <3>1 DEF Shown
  <2>4. CASE ~(d.notes[n].field = f /\ ~Shown(d.notes[n]))
    <3>1. notes[n] = d.notes[n]
      BY <2>4
    <3>2. d.notes[n].field # f
      BY <2>4 DEF Visible
    <3> HIDE DEF notes, Bare
    <3> QED
      BY <2>1, <3>1, <3>2
  <2> QED
    BY <2>3, <2>4
<1>5. DOMAIN notes = NotesOf(d)
  OBVIOUS
<1>6. /\ N \subseteq FactRow
      /\ \A g \in N : g.tx = d.tx /\ g.tx <= d.tx /\ g.type = "field" /\ g.op = "delete"
      /\ {g.entity : g \in N} = X
  <2>1. X \subseteq FieldId
    BY <1>1
  <2> HIDE DEF X
  <2> QED
    BY <1>1, <2>1, FactsAre
<1>7. rows = d.fields \ X /\ X \subseteq d.fields
  OBVIOUS
<1> HIDE DEF notes, rows, N, X
<1>8. /\ IsDb(c) /\ c.fields = rows /\ c.notes = notes /\ c.revisions = d.revisions
      /\ c.tags = d.tags /\ c.noteTags = d.noteTags /\ c.links = d.links
      /\ c.facts = d.facts /\ c.tx = d.tx /\ c.now = d.now
  BY <1>1, <1>2 DEF IsDb
<1>9. Becomes(c, e, c.fields, c.tags, c.noteTags, c.links, N)
  BY <1>3, <1>8, RecordBecomes
<1>10. /\ IsDb(e) /\ e.fields = rows /\ e.notes = notes /\ e.revisions = d.revisions
       /\ e.tags = d.tags /\ e.noteTags = d.noteTags /\ e.links = d.links
       /\ e.facts = d.facts \cup N /\ e.tx = d.tx /\ e.now = d.now
       /\ NotesOf(e) = NotesOf(d)
  BY <1>5, <1>8, <1>9 DEF Becomes, SameNotes, NotesOf
<1>11. /\ Of(e, "field") = Of(d, "field") \cup N
       /\ \A type : type # "field" => Of(e, type) = Of(d, type)
  BY <1>6, <1>10 DEF Of
<1>12. TypesOK(e)
  BY <1>1, <1>4, <1>6, <1>7, <1>10 DEF TypesOK
<1>13. FieldsOK(e)
  <2>1. Tells(Of(d, "field") \cup N, d.fields \ {g.entity : g \in N}, "insert")
    <3>1. Tells(Of(d, "field"), d.fields, "insert")
      BY <1>1 DEF TablesOK, FieldsOK
    <3>2. \A h \in Of(d, "field"), g \in N : h.entity = g.entity => h.tx < d.tx
      BY DEF Fresh, Of
    <3> QED
      BY <1>1, <1>6, <3>1, <3>2, TellsStep
  <2>2. Tells(Of(e, "field"), e.fields, "insert")
    BY <1>6, <1>7, <1>10, <1>11, <2>1
  <2>3. OnceInserted(Of(e, "field"))
    BY <1>1, <1>6, <1>11 DEF TablesOK, FieldsOK, OnceInserted
  <2>4. f[2] \in Nat /\ f[2] <= d.tx
    <3>1. PICK g \in Of(d, "field") : g.entity = f
      BY <1>1 DEF TablesOK, FieldsOK, Tells
    <3>2. f[2] <= g.tx /\ f[2] \in Nat /\ g.tx \in Nat /\ g.tx <= d.tx /\ d.tx \in Nat
      BY <1>1, <3>1, FactTimes DEF TablesOK, FieldsOK, FieldId
    <3> QED
      BY <3>2
  <2>5. \A g \in N : g.entity = f
    BY <1>6 DEF X
  <2>6. \A g \in Of(e, "field") : g.entity[2] <= g.tx
    BY <1>1, <1>6, <1>11, <2>4, <2>5 DEF TablesOK, FieldsOK
  <2>7. \A g, h \in e.fields : g[1] = h[1] => g = h
    BY <1>1, <1>7, <1>10 DEF TablesOK, FieldsOK
  <2> QED
    BY <2>2, <2>3, <2>6, <2>7 DEF FieldsOK
<1>14. RowsOK(e)
  BY <1>4, <1>10 DEF RowsOK
<1>15. TagsOK(e) /\ NoteTagsOK(e) /\ LinksOK(e) /\ NoteFactsOK(e) /\ RevisionsOK(e)
  <2>1. TagsStay(d, e) /\ NoteTagsStay(d, e) /\ LinksStay(d, e)
    BY <1>10, <1>11 DEF TagsStay, NoteTagsStay, LinksStay
  <2>2. d.tags \subseteq e.tags /\ NotesOf(d) \subseteq NotesOf(e)
    BY <1>10
  <2> QED
    BY <1>1, <1>10, <1>11, <2>1, <2>2, GrowOK
<1>16. NotesTold(e)
  <2> SUFFICES ASSUME NEW n \in NotesOf(d)
               PROVE  DeletionTold(e, n) /\ Carried(e, n)
    BY <1>10 DEF NotesTold
  <2>1. DeletionTold(d, n) /\ Carried(d, n)
    BY <1>1 DEF NotesTold
  <2>2. DeletionTold(e, n)
    BY <1>4, <1>10, <1>11, <2>1 DEF DeletionTold
  <2>3. PICK g \in Of(d, "note") :
          /\ g.entity = n
          /\ \A h \in Of(d, "note") : h.entity = n => h.tx <= g.tx
          /\ \/ g.row = d.notes[n]
             \/ ~Shown(d.notes[n]) /\ d.notes[n] = Bare(g.row)
    BY <2>1 DEF Carried
  <2>4. Bare(Bare(g.row)) = Bare(g.row)
    OBVIOUS
  <2>5. \/ g.row = notes[n]
        \/ ~Shown(notes[n]) /\ notes[n] = Bare(g.row)
    <3> HIDE DEF Bare
    <3>1. CASE notes[n] = d.notes[n]
      BY <2>3, <3>1
    <3>2. CASE ~Shown(notes[n]) /\ notes[n] = Bare(d.notes[n])
      BY <2>3, <2>4, <3>2
    <3> QED
      BY <1>4, <3>1, <3>2
  <2> QED
    BY <1>10, <1>11, <2>2, <2>3, <2>5 DEF Carried
<1> QED
  BY <1>10, <1>12, <1>13, <1>14, <1>15, <1>16
  DEF TablesOK, Leads, NewLinksVisible, RevisionsGrow

-----------------------------------------------------------------------------
\* The inductive invariant.

\* What a request has looked up, and the input it came with.
RequestsTyped ==
    \A t \in Task : req[t] # NoReq =>
        /\ req[t].row \in NoteRow
        /\ req[t].input \in Inputs(req[t].kind)
        /\ req[t].row.revision \in DOMAIN db.revisions
        /\ db.revisions[req[t].row.revision].note = req[t].note

TablesInv ==
    /\ IInv
    /\ TablesOK(db)
    /\ NotesTold(db)
    /\ RequestsTyped

\* A transaction begins with nothing written.
LEMMA BegunReady ==
    ASSUME NotesOK(db), TablesOK(db), NotesTold(db), Room, NEW s \in Ticks,
           NEW d, d = Begun(s)
    PROVE  /\ Ready(d) /\ Fresh(d)
           /\ d.notes = db.notes /\ d.revisions = db.revisions
           /\ d.fields = db.fields /\ d.links = db.links
<1>1. NotesOK(d) /\ d.notes = db.notes /\ \A q \in DOMAIN d.revisions : q[2] < d.tx
  BY BegunOK
<1>2. s \in {0, 1} /\ MaxTx \in Nat
  BY BoundsAssumption
<1>3. IsDb(db) /\ TypesOK(db) /\ db.tx \in 0 .. MaxTx /\ db.now \in 0 .. db.tx
  BY DEF TablesOK, TypesOK
<1> DEFINE tx == db.tx + 1
           now == db.now + s
<1>4. /\ tx \in 1 .. MaxTx /\ now \in 0 .. tx /\ db.tx < tx
      /\ \A x \in Nat : x <= db.tx => x < tx /\ x <= tx
  BY <1>2, <1>3 DEF Room
<1>5. d = [db EXCEPT !.tx = tx, !.now = now]
  BY DEF Begun
<1> HIDE DEF tx, now
<1>6. /\ d.tx = tx /\ d.now = now /\ d.notes = db.notes /\ d.revisions = db.revisions
      /\ d.fields = db.fields /\ d.tags = db.tags /\ d.noteTags = db.noteTags
      /\ d.links = db.links /\ d.facts = db.facts /\ IsDb(d)
  BY <1>3, <1>5 DEF IsDb
<1>7. \A f \in d.facts : f.tx < d.tx /\ f.tx <= d.tx
  <2> SUFFICES ASSUME NEW f \in db.facts PROVE f.tx < tx /\ f.tx <= tx
    BY <1>6
  <2>1. f.tx \in Nat /\ f.tx <= db.tx
    BY <1>3, <1>2 DEF TypesOK, FactRow
  <2> QED
    BY <1>4, <2>1
<1>8. \A type : Of(d, type) = Of(db, type)
  BY <1>6 DEF Of
<1>9. NotesOf(d) = NotesOf(db)
  BY <1>6 DEF NotesOf
<1>10. TypesOK(d)
  <2>1. d.tx \in 0 .. MaxTx
    BY <1>2, <1>4, <1>6
  <2> QED
    BY <1>3, <1>4, <1>6, <1>7, <1>9, <2>1 DEF TypesOK
<1>11. /\ FieldsOK(d) /\ TagsOK(d) /\ NoteTagsOK(d) /\ LinksOK(d) /\ NoteFactsOK(d)
       /\ RevisionsOK(d) /\ RowsOK(d)
  <2>1. FieldsStay(db, d) /\ TagsStay(db, d) /\ NoteTagsStay(db, d) /\ LinksStay(db, d)
    BY <1>6, <1>8 DEF FieldsStay, TagsStay, NoteTagsStay, LinksStay
  <2>2. RowsOK(d)
    BY <1>6, <1>9 DEF TablesOK, RowsOK
  <2> QED
    BY <1>6, <1>8, <1>9, <2>1, <2>2, GrowOK
<1>12. NotesTold(d)
  <2> SUFFICES ASSUME NEW n \in NotesOf(db)
               PROVE  DeletionTold(d, n) /\ Carried(d, n)
    BY <1>9 DEF NotesTold
  <2>1. DeletionTold(db, n) /\ Carried(db, n)
    BY DEF NotesTold
  <2>2. Of(d, "note") = Of(db, "note") /\ d.notes[n] = db.notes[n]
    BY <1>6, <1>8
  <2> QED
    BY <2>1, <2>2, NoteTold
<1> QED
  BY <1>1, <1>4, <1>6, <1>7, <1>10, <1>11, <1>12 DEF Ready, TablesOK, Fresh

\* Whatever the request.
LEMMA TransactedTables ==
    ASSUME NEW d, Ready(d), Fresh(d), NEW q, q.kind \in Kinds, q.note \in NotesOf(d),
           q.input \in Inputs(q.kind), BaseOK(d, q.note, q.row.revision),
           q.kind = "update" => LinksValid(d, q.note, q.input.links)
    PROVE  Leads(d, Transacted(d, q))
<1>1. TablesOK(d) /\ d.tx \in 1 .. MaxTx /\ NoteTagsFresh(d, q.note)
  BY FreshParts DEF Ready
<1>2. CASE q.kind = "update"
  <2>1. q.input \in UpdateInput
    BY <1>2 DEF Inputs
  <2>2. Transacted(d, q) = Updated(d, q.note, q.row, q.input)
    BY <1>2 DEF Transacted
  <2> QED
    BY <1>2, <2>1, <2>2, UpdatedTables
<1>3. CASE q.kind \in {"archive", "delete"}
  <2>1. Transacted(d, q) \in {Archived(d, q.note), Deleted(d, q.note)}
    BY <1>3 DEF Transacted
  <2> QED
    BY <2>1, HiddenTables
<1>4. CASE q.kind = "addTag"
  <2>1. {q.input} \in SUBSET Tag
    BY <1>4 DEF Inputs
  <2>2. PICK e : e = Attached(d, q.note, {q.input})
    OBVIOUS
  <2>3. TablesOK(e) /\ LinksStay(d, e) /\ NotesStay(d, e)
    BY <1>1, <2>1, <2>2, AttachedOK
  <2>4. Transacted(d, q) = e
    BY <1>4, <2>2 DEF Transacted
  <2> QED
    BY <2>3, <2>4, AsideTables
<1>5. CASE q.kind = "removeTag"
  <2>1. PICK e : e = Detached(d, q.note, {q.input})
    OBVIOUS
  <2>2. \A f \in Of(d, "note_tag") : f.tx < d.tx
    BY DEF Fresh, Of
  <2>3. TablesOK(e) /\ LinksStay(d, e) /\ NotesStay(d, e)
    BY <1>1, <2>1, <2>2, DetachedOK
  <2>4. Transacted(d, q) = e
    BY <1>5, <2>1 DEF Transacted
  <2> QED
    BY <2>3, <2>4, AsideTables
<1> QED
  BY <1>2, <1>3, <1>4, <1>5 DEF Kinds

-----------------------------------------------------------------------------
\* The steps.

LEMMA TablesInit ==
    Init => TablesInv
<1> SUFFICES ASSUME Init
             PROVE  TablesInv
  OBVIOUS
<1>1. \A type : Of(db, type) = {}
  BY DEF Init, EmptyDb, Of
<1>2. /\ NotesOf(db) = {} /\ DOMAIN db.revisions = {} /\ db.fields = {} /\ db.tags = {}
      /\ db.noteTags = {} /\ db.links = {} /\ db.facts = {} /\ db.tx = 0 /\ db.now = 0
      /\ IsDb(db)
  BY DEF Init, EmptyDb, NotesOf, IsDb
<1>3. TypesOK(db)
  BY <1>2, BoundsAssumption DEF TypesOK
<1>4. TablesOK(db)
  BY <1>1, <1>2, <1>3
  DEF TablesOK, FieldsOK, RowsOK, TagsOK, NoteTagsOK, LinksOK, RevisionsOK, NoteFactsOK,
      Tells, OnceInserted
<1>5. NotesTold(db)
  BY <1>2 DEF NotesTold
<1>6. RequestsTyped
  BY DEF Init, RequestsTyped
<1> QED
  BY <1>4, <1>5, <1>6, InitOK DEF TablesInv

LinksStep == \A l \in db'.links \ db.links : Visible(db', l[2])

\* The requests that wait keep their revisions, one that is done is forgotten.
LEMMA TypedKeep ==
    ASSUME RequestsOK, RequestsTyped, RevisionsGrow(db, db'),
           req' = req \/ \E t \in Task : req' = [req EXCEPT ![t] = NoReq]
    PROVE  RequestsTyped'
<1> SUFFICES ASSUME NEW t \in Task, req'[t] # NoReq
             PROVE  /\ req'[t].row \in NoteRow
                    /\ req'[t].input \in Inputs(req'[t].kind)
                    /\ req'[t].row.revision \in DOMAIN db'.revisions
                    /\ db'.revisions[req'[t].row.revision].note = req'[t].note
  BY DEF RequestsTyped
<1>1. req'[t] = req[t]
  BY DEF RequestsOK
<1> QED
  BY <1>1 DEF RequestsTyped, RevisionsGrow

LEMMA TablesStep ==
    ASSUME TablesInv, [Next]_vars
    PROVE  TablesInv' /\ [LinksStep]_vars
<1>1. NotesOK(db) /\ RequestsOK /\ TablesOK(db) /\ NotesTold(db) /\ RequestsTyped
  BY DEF TablesInv, IInv
<1>2. IInv'
  BY StepOK DEF TablesInv
<1>3. ASSUME UNCHANGED db, RequestsTyped'
      PROVE  TablesInv' /\ [LinksStep]_vars
  <2>1. TablesOK(db)' /\ NotesTold(db)'
    BY <1>1, <1>3
  <2>2. LinksStep
    BY <1>3 DEF LinksStep
  <2> QED
    BY <1>2, <1>3, <2>1, <2>2 DEF TablesInv
<1>4. ASSUME UNCHANGED db,
             req' = req \/ \E t \in Task : req' = [req EXCEPT ![t] = NoReq]
      PROVE  TablesInv' /\ [LinksStep]_vars
  <2>1. RevisionsGrow(db, db')
    BY <1>4 DEF RevisionsGrow
  <2> QED
    BY <1>1, <1>3, <1>4, <2>1, TypedKeep
<1>5. ASSUME Room, NEW s \in Ticks, NEW d, d = Begun(s), NEW e, Leads(d, e), Commit(e),
             req' = req \/ \E t \in Task : req' = [req EXCEPT ![t] = NoReq]
      PROVE  TablesInv' /\ [LinksStep]_vars
  <2>1. db' = e
    BY <1>5 DEF Commit
  <2>2. d.revisions = db.revisions /\ d.links = db.links
    BY <1>1, <1>5, BegunReady
  <2>3. RevisionsGrow(db, db')
    BY <1>5, <2>1, <2>2 DEF Leads, RevisionsGrow
  <2>4. RequestsTyped'
    BY <1>1, <1>5, <2>3, TypedKeep
  <2>5. TablesOK(db)' /\ NotesTold(db)'
    BY <1>5, <2>1 DEF Leads
  <2>6. LinksStep
    BY <1>5, <2>1, <2>2 DEF Leads, NewLinksVisible, LinksStep
  <2> QED
    BY <1>2, <2>4, <2>5, <2>6 DEF TablesInv
<1>6. ASSUME Room, NEW s \in Ticks
      PROVE  /\ Ready(Begun(s)) /\ Fresh(Begun(s)) /\ FieldsFresh(Begun(s))
             /\ Begun(s).notes = db.notes /\ Begun(s).revisions = db.revisions
             /\ Begun(s).fields = db.fields
             /\ NotesOf(Begun(s)) = NotesOf(db)
  BY <1>1, <1>6, BegunReady, FreshParts DEF NotesOf
<1>7. CASE Create
  <2>1. PICK n \in NoteId, in \in CreateInput, s \in Ticks :
          Creatable(Begun(s), n, in) /\ Commit(Created(Begun(s), n, in))
    BY <1>7 DEF Create
  <2>2. Room /\ req' = req
    BY <1>7 DEF Create
  <2>3. Leads(Begun(s), Created(Begun(s), n, in))
    BY <1>6, <2>1, <2>2, CreatedTables
  <2> QED
    BY <1>5, <2>1, <2>2, <2>3
<1>8. CASE CreateBatch
  <2>1. PICK m \in NoteId, n \in NoteId, i \in CreateInput, j \in CreateInput, s \in Ticks :
          /\ Creatable(Begun(s), m, i)
          /\ Creatable(Created(Begun(s), m, i), n, j)
          /\ Commit(Created(Created(Begun(s), m, i), n, j))
    BY <1>8 DEF CreateBatch
  <2>2. Room /\ req' = req
    BY <1>8 DEF CreateBatch
  <2>3. PICK b : b = Begun(s)
    OBVIOUS
  <2>4. PICK d : d = Created(b, m, i)
    OBVIOUS
  <2>5. PICK e : e = Created(d, n, j)
    OBVIOUS
  <2>6. /\ Leads(b, d) /\ FieldsFresh(d) /\ d.tx = b.tx
    BY <1>6, <2>1, <2>2, <2>3, <2>4, CreatedTables
  <2>7. Ready(b) /\ NotesOK(b) /\ m \notin NotesOf(b)
    BY <1>6, <2>1, <2>2, <2>3 DEF Ready, Creatable
  <2>8. Ready(d)
    <3>1. NotesOK(d)
      BY <2>4, <2>7, CreatedOK DEF Advances
    <3> QED
      BY <2>6, <2>7, <3>1 DEF Ready, Leads
  <2>9. /\ Leads(d, e)
        /\ \A x \in NotesOf(d) : x \in NotesOf(e) /\ e.notes[x] = d.notes[x]
    BY <2>1, <2>3, <2>4, <2>5, <2>6, <2>8, CreatedTables
  <2>10. Leads(b, e)
    <3>1. RevisionsGrow(b, e)
      BY <2>6, <2>9 DEF Leads, RevisionsGrow
    <3>2. NewLinksVisible(b, e)
      BY <2>6, <2>9 DEF Leads, NewLinksVisible, Visible
    <3> QED
      BY <2>9, <3>1, <3>2 DEF Leads
  <2> QED
    BY <1>5, <2>1, <2>2, <2>3, <2>4, <2>5, <2>10
<1>9. CASE DeleteField
  <2>1. PICK f \in db.fields, s \in Ticks :
          /\ ~\E n \in NotesOf(db) : Visible(db, n) /\ db.notes[n].field = f
          /\ Commit(WithoutField(Begun(s), f))
    BY <1>9 DEF DeleteField
  <2>2. Room /\ req' = req
    BY <1>9 DEF DeleteField
  <2>3. PICK d : d = Begun(s)
    OBVIOUS
  <2>4. /\ Ready(d) /\ Fresh(d) /\ f \in d.fields
        /\ ~\E n \in NotesOf(d) : Visible(d, n) /\ d.notes[n].field = f
    BY <1>6, <2>1, <2>2, <2>3 DEF Visible
  <2>5. Leads(d, WithoutField(d, f))
    BY <2>4, WithoutFieldTables
  <2> QED
    BY <1>5, <2>1, <2>2, <2>3, <2>5
<1>10. ASSUME NEW t \in Task, Lookup(t)
       PROVE  TablesInv' /\ [LinksStep]_vars
  <2>1. UNCHANGED db
    BY <1>10 DEF Lookup
  <2>2. PICK kind \in Kinds, ref \in Ref, n \in NoteId :
          /\ Resolves(db, ref, n)
          /\ \E in \in Inputs(kind) :
               req' = [req EXCEPT ![t] = [kind |-> kind, note |-> n,
                                          row |-> db.notes[n], input |-> in]]
    BY <1>10 DEF Lookup
  <2>3. PICK in \in Inputs(kind) :
          req' = [req EXCEPT ![t] = [kind |-> kind, note |-> n,
                                     row |-> db.notes[n], input |-> in]]
    BY <2>2
  <2>4. n \in NotesOf(db)
    BY <2>2 DEF Resolves, Found, Visible
  <2>5. /\ db.notes[n] \in NoteRow
        /\ db.notes[n].revision \in DOMAIN db.revisions
        /\ db.revisions[db.notes[n].revision].note = n
    BY <1>1, <2>4 DEF TablesOK, TypesOK, NotesOK, CurrentIn
  <2>6. RequestsTyped'
    <3> SUFFICES ASSUME NEW u \in Task, req'[u] # NoReq
                 PROVE  /\ req'[u].row \in NoteRow
                        /\ req'[u].input \in Inputs(req'[u].kind)
                        /\ req'[u].row.revision \in DOMAIN db.revisions
                        /\ db.revisions[req'[u].row.revision].note = req'[u].note
      BY <2>1 DEF RequestsTyped
    <3>1. CASE u = t
      <4>1. /\ req'[u].kind = kind /\ req'[u].note = n
            /\ req'[u].row = db.notes[n] /\ req'[u].input = in
        BY <1>1, <2>3, <3>1 DEF RequestsOK
      <4> QED
        BY <2>3, <2>5, <4>1
    <3>2. CASE u # t
      <4>1. req'[u] = req[u]
        BY <1>1, <2>3, <3>2 DEF RequestsOK
      <4> QED
        BY <1>1, <4>1 DEF RequestsTyped
    <3> QED
      BY <3>1, <3>2
  <2> QED
    BY <1>3, <2>1, <2>6
<1>11. ASSUME NEW t \in Task, Transact(t)
       PROVE  TablesInv' /\ [LinksStep]_vars
  <2>1. PICK s \in Ticks : Commit(Transacted(Begun(s), req[t]))
    BY <1>11 DEF Transact
  <2>2. /\ req[t] # NoReq /\ Room /\ req' = [req EXCEPT ![t] = NoReq]
        /\ req[t].kind = "update" => LinksValid(db, req[t].note, req[t].input.links)
    BY <1>11 DEF Transact
  <2>3. /\ req[t].kind \in Kinds /\ req[t].note \in NotesOf(db)
        /\ req[t].input \in Inputs(req[t].kind)
        /\ BaseOK(db, req[t].note, req[t].row.revision)
    BY <1>1, <2>2 DEF RequestsOK, RequestsTyped, BaseOK
  <2>4. PICK d : d = Begun(s)
    OBVIOUS
  <2>5. /\ Ready(d) /\ Fresh(d) /\ NotesOf(d) = NotesOf(db)
        /\ d.notes = db.notes /\ d.revisions = db.revisions
    BY <1>6, <2>2, <2>4
  <2>6. /\ BaseOK(d, req[t].note, req[t].row.revision)
        /\ req[t].kind = "update" => LinksValid(d, req[t].note, req[t].input.links)
    BY <2>2, <2>3, <2>5 DEF BaseOK, LinksValid, Resolves, Found, Visible
  <2>7. Leads(d, Transacted(d, req[t]))
    BY <2>3, <2>5, <2>6, TransactedTables
  <2> QED
    BY <1>5, <2>1, <2>2, <2>4, <2>7
<1>12. ASSUME NEW t \in Task, RollBack(t)
       PROVE  TablesInv' /\ [LinksStep]_vars
  BY <1>4, <1>12 DEF RollBack
<1>13. ASSUME NEW r \in Reader, FirstPage(r) \/ FindCursor(r) \/ NextPage(r) \/ Leave(r)
       PROVE  TablesInv' /\ [LinksStep]_vars
  <2>1. UNCHANGED <<db, req>>
    BY <1>13 DEF FirstPage, FindCursor, NextPage, Leave
  <2> QED
    BY <1>4, <2>1
<1>14. CASE UNCHANGED vars
  BY <1>4, <1>14 DEF vars
<1> QED
  BY <1>7, <1>8, <1>9, <1>10, <1>11, <1>12, <1>13, <1>14 DEF Next

LEMMA TablesInductive ==
    Spec => []TablesInv
<1>1. TablesInv /\ [Next]_vars => TablesInv'
  BY TablesStep
<1> QED
  BY <1>1, TablesInit, PTL DEF Spec

\* No row refers to a missing one, whatever requests overlap: a note's field, a
\* relation's note and tag, a tag's parents; no note links to itself, and a
\* field name is given once.
THEOREM RowsReferToRows ==
    Spec => []References
<1>1. TablesInv => References
  BY DEF TablesInv, TablesOK, FieldsOK, RowsOK, TagsOK, NoteTagsOK, LinksOK, References
<1> QED
  BY <1>1, TablesInductive, PTL

\* The bases in the facts make each note's revisions a tree that grows from its
\* first one, whatever requests overlap between their look-up and their
\* transaction.
THEOREM RevisionsFormTrees ==
    Spec => []RevisionTree
<1>1. TablesInv => RevisionTree
  <2> SUFFICES ASSUME TablesInv, NEW q \in DOMAIN db.revisions
               PROVE  LET n == db.revisions[q].note
                      IN  \E f \in db.facts :
                            /\ f.type = "note_revision" /\ f.entity = q
                            /\ \A g \in db.facts :
                                 g.type = "note_revision" /\ g.entity = q => g = f
                            /\ IF f.base = None
                               THEN \A p \in DOMAIN db.revisions \ {q} :
                                      db.revisions[p].note = n => EarlierRevision(q, p)
                               ELSE /\ f.base \in DOMAIN db.revisions
                                    /\ db.revisions[f.base].note = n
                                    /\ EarlierRevision(f.base, q)
    BY DEF RevisionTree
  <2>1. RevisionsOK(db)
    BY DEF TablesInv, TablesOK
  <2>2. PICK f \in Of(db, "note_revision") : f.entity = q /\ GrowsFrom(db, q, f.base)
    BY <2>1 DEF RevisionsOK
  <2>3. /\ f \in db.facts /\ f.type = "note_revision"
        /\ \A g \in db.facts : g.type = "note_revision" /\ g.entity = q => g = f
    BY <2>1, <2>2 DEF RevisionsOK, Of
  <2>4. \A p, r : EarlierRevision(p, r) <=> EarlierIn(db, p, r)
    BY DEF EarlierRevision, EarlierIn
  <2> QED
    BY <2>2, <2>3, <2>4 DEF GrowsFrom
<1> QED
  BY <1>1, TablesInductive, PTL

\* The facts of a type, as FactsTellRows counts them.
LEMMA ToldByFacts ==
    ASSUME NEW type, NEW rows, NEW on, Tells(Of(db, type), rows, on)
    PROVE  /\ rows \subseteq Told(type)
           /\ \A e \in Told(type) : e \in rows <=> LastOp(type, e, on)
<1>1. Told(type) = {f.entity : f \in Of(db, type)}
  BY DEF Told, Of
<1>2. \A e : FactsAbout(type, e) = {f \in Of(db, type) : f.entity = e}
  BY DEF FactsAbout, Of
<1>3. ASSUME NEW e
      PROVE  LastOp(type, e, on) <=>
               \E g \in Of(db, type) : /\ g.entity = e /\ g.op = on
                                       /\ \A h \in Of(db, type) : h.entity = e => h.tx <= g.tx
  BY <1>2 DEF LastOp
<1> QED
  BY <1>1, <1>3 DEF Tells

\* The facts tell which rows there are, whatever requests overlap: a row exists
\* exactly if the last fact about it inserted or attached it, nothing is
\* inserted twice, and a note is deleted exactly if a fact says so.
THEOREM FactsTell ==
    Spec => []FactsTellRows
<1>1. TablesInv => FactsTellRows
  <2> SUFFICES ASSUME TablesInv
               PROVE  FactsTellRows
    OBVIOUS
  <2>1. /\ FieldsOK(db) /\ TagsOK(db) /\ NoteTagsOK(db) /\ LinksOK(db) /\ RevisionsOK(db)
        /\ NoteFactsOK(db) /\ TypesOK(db) /\ NotesTold(db)
    BY DEF TablesInv, TablesOK
  <2>2. /\ db.fields \subseteq Told("field")
        /\ \A e \in Told("field") : e \in db.fields <=> LastOp("field", e, "insert")
    BY <2>1, ToldByFacts DEF FieldsOK
  <2>3. /\ db.noteTags \subseteq Told("note_tag")
        /\ \A e \in Told("note_tag") : e \in db.noteTags <=> LastOp("note_tag", e, "attach")
    BY <2>1, ToldByFacts DEF NoteTagsOK
  <2>4. /\ db.links \subseteq Told("note_link")
        /\ \A e \in Told("note_link") : e \in db.links <=> LastOp("note_link", e, "attach")
    BY <2>1, ToldByFacts DEF LinksOK
  <2>5. db.tags \subseteq Told("tag")
    BY <2>1 DEF TagsOK, Told, Of
  <2>6. \A n \in NotesOf(db) :
          db.notes[n].deleted <=> \E f \in FactsAbout("note", n) : f.op = "delete"
    BY <2>1 DEF NotesTold, DeletionTold, FactsAbout, Of
  <2>7. ASSUME NEW f \in db.facts, NEW g \in db.facts, f.op = "insert", g.op = "insert",
               f.type = g.type, f.entity = g.entity
        PROVE  f = g
    <3>1. f \in Of(db, f.type) /\ g \in Of(db, f.type)
      BY <2>7 DEF Of
    <3>2. f.type \in {"note", "note_revision", "field", "tag", "note_tag", "note_link"}
      BY <2>1 DEF TypesOK, FactRow
    <3>3. CASE f.type \in {"note", "field", "tag"}
      BY <2>1, <2>7, <3>1, <3>3 DEF NoteFactsOK, FieldsOK, TagsOK, OnceInserted
    <3>4. CASE f.type = "note_revision"
      BY <2>1, <2>7, <3>1, <3>4 DEF RevisionsOK
    <3>5. CASE f.type \in {"note_tag", "note_link"}
      BY <2>1, <2>7, <3>1, <3>5 DEF NoteTagsOK, LinksOK
    <3> QED
      BY <3>2, <3>3, <3>4, <3>5
  <2> QED
    BY <2>2, <2>3, <2>4, <2>5, <2>6, <2>7 DEF FactsTellRows
<1> QED
  BY <1>1, TablesInductive, PTL

\* The last fact about a note carries its row, whatever order the requests
\* committed in; only a hidden note may have lost its field since.
THEOREM LastFactCarriesRow ==
    Spec => []FactCarriesRow
<1>1. TablesInv => FactCarriesRow
  BY DEF TablesInv, NotesTold, Carried, FactCarriesRow, FactsAbout, Of
<1> QED
  BY <1>1, TablesInductive, PTL

\* r019:49: the target of a new link is visible when the link is made, also
\* where a note of the same batch is the target.
THEOREM LinksLeadToVisibleNotes ==
    Spec => NewLinksTargetVisible
<1>1. TablesInv /\ [Next]_vars => [LinksStep]_vars
  BY TablesStep
<1> QED
  BY <1>1, TablesInductive, PTL DEF Spec, NewLinksTargetVisible, LinksStep

\* The types of the tables and of the requests.
LEMMA TablesTyped ==
    Spec => [](DbOK /\ ReqOK)
<1>1. TablesInv => DbOK
  BY DEF TablesInv, TablesOK, TypesOK, DbOK
<1>2. TablesInv => ReqOK
  BY DEF TablesInv, IInv, RequestsOK, RequestsTyped, ReqOK
<1> QED
  BY <1>1, <1>2, TablesInductive, PTL
=============================================================================
