-------------------------- MODULE NotesRepoProofs --------------------------
(***************************************************************************)
(* Theorems about NotesRepo, for every set of tasks, readers, notes, tags  *)
(* and inputs and every number of transactions.                            *)
(*                                                                         *)
(* A transaction is a chain of operators that map the tables to the        *)
(* tables.  The lemmas say which tables each link of the chain leaves      *)
(* alone, and the theorems follow from the two links that do not leave the *)
(* notes or the revisions alone.                                           *)
(***************************************************************************)
EXTENDS NotesRepo, TLAPS

IsDb(d) == d = [notes |-> d.notes, revisions |-> d.revisions, fields |-> d.fields,
                tags |-> d.tags, noteTags |-> d.noteTags, links |-> d.links,
                facts |-> d.facts, tx |-> d.tx, now |-> d.now]

\* e has the notes, the revisions and the time of d.
SameNotes(d, e) ==
    /\ IsDb(e)
    /\ e.notes = d.notes
    /\ e.revisions = d.revisions
    /\ e.tx = d.tx
    /\ e.now = d.now

-----------------------------------------------------------------------------
\* What the parts of a transaction leave alone.

\* A change of any other table.
LEMMA OtherTables ==
    ASSUME NEW d, IsDb(d), NEW x
    PROVE  /\ SameNotes(d, [d EXCEPT !.fields = x])
           /\ SameNotes(d, [d EXCEPT !.tags = x])
           /\ SameNotes(d, [d EXCEPT !.noteTags = x])
           /\ SameNotes(d, [d EXCEPT !.links = x])
           /\ SameNotes(d, [d EXCEPT !.facts = x])
BY DEF IsDb, SameNotes

LEMMA SameNotesTransitive ==
    ASSUME NEW d, NEW e, NEW f, SameNotes(d, e), SameNotes(e, f)
    PROVE  SameNotes(d, f)
BY DEF SameNotes

\* Recording facts.
LEMMA RecordKeepsNotes ==
    ASSUME NEW d, IsDb(d), NEW facts
    PROVE  SameNotes(d, Record(d, facts))
BY OtherTables DEF Record

\* get_or_create_field_in_transaction.
LEMMA WithFieldKeepsNotes ==
    ASSUME NEW d, IsDb(d), NEW name
    PROVE  SameNotes(d, WithField(d, name))
<1> DEFINE e == [d EXCEPT !.fields = @ \cup {<<name, d.tx>>}]
           facts == {Fact(d, "field", <<name, d.tx>>, "insert")}
<1>1. SameNotes(d, d)
  BY DEF SameNotes
<1>2. SameNotes(d, e) /\ IsDb(e)
  BY OtherTables DEF SameNotes
<1>3. SameNotes(e, Record(e, facts))
  BY <1>2, RecordKeepsNotes
<1>4. WithField(d, name) \in {d, Record(e, facts)}
  BY DEF WithField
<1> QED
  BY <1>1, <1>2, <1>3, <1>4, SameNotesTransitive

\* get_or_create_tag_in_transaction.
LEMMA WithTagsKeepsNotes ==
    ASSUME NEW d, IsDb(d), NEW ts
    PROVE  SameNotes(d, WithTags(d, ts))
<1> DEFINE new == (UNION {Prefixes[t] : t \in ts}) \ d.tags
           e == [d EXCEPT !.tags = @ \cup new]
           facts == {Fact(d, "tag", t, "insert") : t \in new}
<1>1. SameNotes(d, e) /\ IsDb(e)
  BY OtherTables DEF SameNotes
<1>2. SameNotes(e, Record(e, facts))
  BY <1>1, RecordKeepsNotes
<1>3. WithTags(d, ts) = Record(e, facts)
  BY DEF WithTags
<1> QED
  BY <1>1, <1>2, <1>3, SameNotesTransitive

\* attach_tag_to_note_in_transaction.
LEMMA AttachedKeepsNotes ==
    ASSUME NEW d, IsDb(d), NEW n, NEW ts
    PROVE  SameNotes(d, Attached(d, n, ts))
<1> DEFINE e == WithTags(d, ts)
           g == [e EXCEPT !.noteTags = @ \cup {<<n, t>> : t \in ts}]
           facts == {Fact(d, "note_tag", <<n, t>>, "attach") : t \in ts \ TagsOf(d, n)}
<1>1. SameNotes(d, e) /\ IsDb(e)
  BY WithTagsKeepsNotes DEF SameNotes
<1> HIDE DEF e
<1>2. SameNotes(e, g) /\ IsDb(g)
  BY <1>1, OtherTables DEF SameNotes
<1>3. SameNotes(g, Record(g, facts))
  BY <1>2, RecordKeepsNotes
<1>4. Attached(d, n, ts) = Record(g, facts)
  BY DEF Attached, e
<1> QED
  BY <1>1, <1>2, <1>3, <1>4, SameNotesTransitive

\* detach_tag_from_note_in_transaction.
LEMMA DetachedKeepsNotes ==
    ASSUME NEW d, IsDb(d), NEW n, NEW ts
    PROVE  SameNotes(d, Detached(d, n, ts))
<1> DEFINE e == [d EXCEPT !.noteTags = @ \ {<<n, t>> : t \in ts}]
           facts == {Fact(d, "note_tag", <<n, t>>, "detach") : t \in ts \cap TagsOf(d, n)}
<1>1. SameNotes(d, e) /\ IsDb(e)
  BY OtherTables DEF SameNotes
<1>2. SameNotes(e, Record(e, facts))
  BY <1>1, RecordKeepsNotes
<1>3. Detached(d, n, ts) = Record(e, facts)
  BY DEF Detached
<1> QED
  BY <1>1, <1>2, <1>3, SameNotesTransitive

\* replace_note_tags_in_transaction is made of the two.
LEMMA TagsReplacedKeepsNotes ==
    ASSUME NEW d, IsDb(d), NEW n, NEW ts
    PROVE  SameNotes(d, TagsReplaced(d, n, ts))
<1>1. CASE ts = Keep
  BY <1>1 DEF TagsReplaced, SameNotes
<1>2. CASE ts # Keep
  <2> DEFINE e == Attached(d, n, ts)
  <2>1. SameNotes(d, e)
    BY AttachedKeepsNotes
  <2>2. SameNotes(e, Detached(e, n, TagsOf(d, n) \ ts))
    BY <2>1, DetachedKeepsNotes DEF SameNotes
  <2> QED
    BY <1>2, <2>1, <2>2 DEF TagsReplaced, SameNotes
<1> QED
  BY <1>1, <1>2

\* insert_note_links_in_transaction writes links and facts only.
LEMMA LinkedKeepsNotes ==
    ASSUME NEW d, IsDb(d), NEW n, NEW refs
    PROVE  SameNotes(d, Linked(d, n, refs))
<1> DEFINE new == {<<n, CHOOSE m \in NoteId : Resolves(d, r, m), r, d.tx>> : r \in refs}
           facts == {Fact(d, "note_link", l, "attach") : l \in new}
           e == [d EXCEPT !.links = @ \cup new]
<1>1. Linked(d, n, refs) = Record(e, facts)
  BY DEF Linked
<1>2. IsDb(e) /\ SameNotes(d, e)
  BY OtherTables DEF SameNotes
<1>3. SameNotes(e, Record(e, facts))
  BY <1>2, RecordKeepsNotes
<1> QED
  BY <1>1, <1>2, <1>3 DEF SameNotes

\* replace_note_links_in_transaction, too.
LEMMA LinksReplacedKeepsNotes ==
    ASSUME NEW d, IsDb(d), NEW n, NEW refs
    PROVE  SameNotes(d, LinksReplaced(d, n, refs))
<1>1. CASE refs = Keep
  BY <1>1 DEF LinksReplaced, SameNotes
<1>2. CASE refs # Keep
  <2> DEFINE old == LinksFrom(d, n)
             facts == {Fact(d, "note_link", l, "detach") : l \in old}
             c == [d EXCEPT !.links = @ \ old]
             e == Record(c, facts)
  <2>0. IsDb(c) /\ SameNotes(d, c)
    BY OtherTables DEF SameNotes
  <2>1. IsDb(e) /\ SameNotes(d, e)
    BY <2>0, RecordKeepsNotes DEF SameNotes
  <2>2. SameNotes(e, Linked(e, n, refs))
    BY <2>1, LinkedKeepsNotes
  <2>3. LinksReplaced(d, n, refs) = Linked(e, n, refs)
    BY <1>2 DEF LinksReplaced
  <2> QED
    BY <2>1, <2>2, <2>3 DEF SameNotes
<1> QED
  BY <1>1, <1>2

\* The note's fact is one more fact.
LEMMA NoteFactKeepsNotes ==
    ASSUME NEW d, IsDb(d), NEW n, NEW op
    PROVE  SameNotes(d, NoteFact(d, n, op))
BY RecordKeepsNotes DEF NoteFact

-----------------------------------------------------------------------------
\* The inductive invariant.

IsRow(row) ==
    row = [text |-> row.text, field |-> row.field, role |-> row.role,
           created |-> row.created, updated |-> row.updated, archived |-> row.archived,
           deleted |-> row.deleted, revision |-> row.revision]

\* A revision belongs to a note that is there, is named after it and the
\* transaction it was made in, and is not younger than the clock.
RevisionOK(d, q) ==
    /\ d.revisions[q].note \in NotesOf(d)
    /\ q[1] = d.revisions[q].note
    /\ q = <<q[1], q[2]>>
    /\ q[2] \in Nat /\ q[2] <= d.tx
    /\ d.revisions[q].created \in Nat /\ d.revisions[q].created <= d.now

\* What CurrentRevision says of note n, of any tables.
CurrentIn(d, n) ==
    LET r == d.notes[n].revision
    IN  /\ r \in DOMAIN d.revisions
        /\ d.revisions[r].note = n
        /\ d.revisions[r].text = d.notes[n].text
        /\ \A q \in DOMAIN d.revisions \ {r} : d.revisions[q].note = n =>
             \/ d.revisions[q].created < d.revisions[r].created
             \/ d.revisions[q].created = d.revisions[r].created /\ q[2] < r[2]

NotesOK(d) ==
    /\ IsDb(d)
    /\ d.tx \in Nat /\ d.now \in Nat
    /\ \A q \in DOMAIN d.revisions : RevisionOK(d, q)
    /\ \A n \in NotesOf(d) : IsRow(d.notes[n]) /\ CurrentIn(d, n)

\* A request between its look-up and its transaction has a note to work on.
RequestsOK ==
    /\ req = [t \in Task |-> req[t]]
    /\ \A t \in Task : req[t] # NoReq =>
         /\ req[t].kind \in Kinds
         /\ req[t].note \in NotesOf(db)

IInv == NotesOK(db) /\ RequestsOK

\* No note is lost, and none that is hidden in d is shown in e.
Hides(d, e) ==
    /\ NotesOf(d) \subseteq NotesOf(e)
    /\ \A n \in NotesOf(d) :
         /\ e.notes[n].archived \in {d.notes[n].archived, TRUE}
         /\ e.notes[n].deleted \in {d.notes[n].deleted, TRUE}

LEMMA HidesTransitive ==
    ASSUME NEW d, NEW e, NEW f, Hides(d, e), Hides(e, f)
    PROVE  Hides(d, f)
BY DEF Hides

\* Tables with the same notes are as good as each other.
LEMMA SameNotesOK ==
    ASSUME NEW d, NEW e, NotesOK(d), SameNotes(d, e)
    PROVE  NotesOK(e) /\ Hides(d, e)
<1>1. \A q \in DOMAIN e.revisions : RevisionOK(e, q)
  BY DEF NotesOK, SameNotes, RevisionOK, NotesOf
<1>2. \A n \in NotesOf(e) : IsRow(e.notes[n]) /\ CurrentIn(e, n)
  BY DEF NotesOK, SameNotes, CurrentIn, NotesOf
<1>3. Hides(d, e)
  BY DEF SameNotes, Hides, NotesOf
<1> QED
  BY <1>1, <1>2, <1>3 DEF NotesOK, SameNotes

\* The beginning of a transaction.
LEMMA BegunOK ==
    ASSUME NotesOK(db), NEW s \in Ticks
    PROVE  /\ NotesOK(Begun(s))
           /\ Begun(s).notes = db.notes
           /\ \A q \in DOMAIN Begun(s).revisions : q[2] < Begun(s).tx
<1> DEFINE e == Begun(s)
<1>1. s \in Nat
  BY BoundsAssumption
<1>2. /\ IsDb(e)
      /\ e.notes = db.notes
      /\ e.revisions = db.revisions
      /\ e.tx = db.tx + 1
      /\ e.now = db.now + s
  <2> DEFINE tx == db.tx + 1
             now == db.now + s
  <2>1. IsDb(db)
    BY DEF NotesOK
  <2>2. e = [db EXCEPT !.tx = tx, !.now = now]
    BY DEF Begun
  <2> HIDE DEF tx, now
  <2>3. /\ IsDb(e) /\ e.notes = db.notes /\ e.revisions = db.revisions
        /\ e.tx = tx /\ e.now = now
    BY <2>1, <2>2 DEF IsDb
  <2> QED
    BY <2>3 DEF tx, now
<1>3. db.tx \in Nat /\ db.now \in Nat
  BY DEF NotesOK
<1> HIDE DEF e
<1>4. ASSUME NEW q \in DOMAIN e.revisions
      PROVE  RevisionOK(e, q) /\ q[2] < e.tx
  <2>1. RevisionOK(db, q)
    BY <1>2 DEF NotesOK
  <2> QED
    BY <1>1, <1>2, <1>3, <2>1 DEF RevisionOK, NotesOf
<1>5. \A n \in NotesOf(e) : IsRow(e.notes[n]) /\ CurrentIn(e, n)
  BY <1>2 DEF NotesOK, CurrentIn, NotesOf
<1>6. e.tx \in Nat /\ e.now \in Nat
  BY <1>1, <1>2, <1>3
<1>7. NotesOK(e)
  BY <1>2, <1>4, <1>5, <1>6 DEF NotesOK
<1> QED
  BY <1>2, <1>4, <1>7 DEF e

-----------------------------------------------------------------------------
\* The two links that write a new revision.

\* The notes of d with row for n, and its revisions with a new one of n.
NotesWith(d, n, row) ==
    [x \in NotesOf(d) \cup {n} |-> IF x = n THEN row ELSE d.notes[x]]

RevisionsWith(d, n) ==
    [x \in DOMAIN d.revisions \cup {<<n, d.tx>>} |->
       IF x = <<n, d.tx>>
       THEN [note |-> n, text |-> <<n, d.tx>>, created |-> d.now]
       ELSE d.revisions[x]]

\* e is d with a row and a revision written for note n in one transaction.
Writes(d, e, n, row) ==
    /\ IsDb(e)
    /\ e.tx = d.tx
    /\ e.now = d.now
    /\ e.notes = NotesWith(d, n, row)
    /\ e.revisions = RevisionsWith(d, n)

\* A row put into the notes.
LEMMA PutRow ==
    ASSUME NEW d, IsDb(d), NEW n, NEW row, NEW e, e = Put(d, n, row)
    PROVE  /\ IsDb(e)
           /\ e.tx = d.tx /\ e.now = d.now /\ e.revisions = d.revisions
           /\ e.notes = NotesWith(d, n, row)
<1> DEFINE notes == NotesWith(d, n, row)
<1>1. e = [d EXCEPT !.notes = notes]
  BY DEF Put, NotesOf, NotesWith
<1> HIDE DEF notes
<1> QED
  BY <1>1 DEF IsDb, notes

\* A revision inserted with its fact.
LEMMA RevisedRow ==
    ASSUME NEW d, IsDb(d), NEW n, NEW base, NEW e, e = Revised(d, n, base)
    PROVE  /\ IsDb(e)
           /\ e.tx = d.tx /\ e.now = d.now /\ e.notes = d.notes
           /\ e.revisions = RevisionsWith(d, n)
<1> DEFINE revs == RevisionsWith(d, n)
           g == [d EXCEPT !.revisions = revs]
           facts == {[Fact(d, "note_revision", <<n, d.tx>>, "insert") EXCEPT !.base = base]}
<1>1. e = Record(g, facts)
  BY DEF Revised, RevisionsWith
<1> HIDE DEF revs, facts
<1>2. /\ IsDb(g)
      /\ g.tx = d.tx /\ g.now = d.now /\ g.notes = d.notes
      /\ g.revisions = revs
  BY DEF IsDb
<1> HIDE DEF g
<1>3. SameNotes(g, e)
  BY <1>1, <1>2, RecordKeepsNotes
<1> QED
  BY <1>2, <1>3 DEF SameNotes, revs

\* Row first or revision first, the tables are the same.
LEMMA RowAndRevision ==
    ASSUME NEW d, IsDb(d), NEW n, NEW row, NEW base
    PROVE  /\ Writes(d, Revised(Put(d, n, row), n, base), n, row)
           /\ Writes(d, Put(Revised(d, n, base), n, row), n, row)
<1>1. PICK p : p = Put(d, n, row)
  OBVIOUS
<1>2. PICK q : q = Revised(d, n, base)
  OBVIOUS
<1>3. PICK e : e = Revised(p, n, base)
  OBVIOUS
<1>4. PICK g : g = Put(q, n, row)
  OBVIOUS
<1>5. /\ IsDb(p)
      /\ p.tx = d.tx /\ p.now = d.now /\ p.revisions = d.revisions
      /\ p.notes = NotesWith(d, n, row)
  BY <1>1, PutRow
<1>6. /\ IsDb(q)
      /\ q.tx = d.tx /\ q.now = d.now /\ q.notes = d.notes
      /\ q.revisions = RevisionsWith(d, n)
  BY <1>2, RevisedRow
<1>7. Writes(d, e, n, row)
  <2>1. /\ IsDb(e)
        /\ e.tx = p.tx /\ e.now = p.now /\ e.notes = p.notes
        /\ e.revisions = RevisionsWith(p, n)
    BY <1>3, <1>5, RevisedRow
  <2>2. RevisionsWith(p, n) = RevisionsWith(d, n)
    BY <1>5 DEF RevisionsWith
  <2> QED
    BY <1>5, <2>1, <2>2 DEF Writes
<1>8. Writes(d, g, n, row)
  <2>1. /\ IsDb(g)
        /\ g.tx = q.tx /\ g.now = q.now /\ g.revisions = q.revisions
        /\ g.notes = NotesWith(q, n, row)
    BY <1>4, <1>6, PutRow
  <2>2. NotesWith(q, n, row) = NotesWith(d, n, row)
    BY <1>6 DEF NotesWith, NotesOf
  <2> QED
    BY <1>6, <2>1, <2>2 DEF Writes
<1> QED
  BY <1>1, <1>2, <1>3, <1>4, <1>7, <1>8

\* A revision younger than the note's others becomes its current one, and
\* what is current of the other notes is left alone.
LEMMA WritesOK ==
    ASSUME NEW d, NotesOK(d), NEW n, NEW row, NEW e, Writes(d, e, n, row),
           IsRow(row), row.text = <<n, d.tx>>, row.revision = <<n, d.tx>>,
           \A q \in DOMAIN d.revisions : d.revisions[q].note = n => q[2] < d.tx
    PROVE  NotesOK(e)
<1> DEFINE r == <<n, d.tx>>
<1>1. d.tx \in Nat /\ d.now \in Nat
  BY DEF NotesOK
<1>2. /\ IsDb(e) /\ e.tx = d.tx /\ e.now = d.now
      /\ NotesOf(e) = NotesOf(d) \cup {n}
      /\ \A x \in NotesOf(e) : e.notes[x] = IF x = n THEN row ELSE d.notes[x]
      /\ DOMAIN e.revisions = DOMAIN d.revisions \cup {r}
      /\ e.revisions[r] = [note |-> n, text |-> r, created |-> d.now]
      /\ \A q \in DOMAIN e.revisions \ {r} : e.revisions[q] = d.revisions[q]
  BY DEF Writes, NotesOf, NotesWith, RevisionsWith
<1>3. ASSUME NEW q \in DOMAIN e.revisions
      PROVE  RevisionOK(e, q)
  <2>1. CASE q = r
    BY <1>1, <1>2, <2>1 DEF RevisionOK
  <2>2. CASE q # r
    <3>1. q \in DOMAIN d.revisions /\ e.revisions[q] = d.revisions[q]
      BY <1>2, <2>2
    <3>2. RevisionOK(d, q)
      BY <3>1 DEF NotesOK
    <3> QED
      BY <1>2, <3>1, <3>2 DEF RevisionOK
  <2> QED
    BY <2>1, <2>2
<1>4. ASSUME NEW q \in DOMAIN e.revisions \ {r}
      PROVE  /\ q \in DOMAIN d.revisions
             /\ e.revisions[q] = d.revisions[q]
             /\ RevisionOK(d, q)
  BY <1>2 DEF NotesOK
<1>5. ASSUME NEW x \in NotesOf(e)
      PROVE  IsRow(e.notes[x]) /\ CurrentIn(e, x)
  <2>1. CASE x = n
    <3>1. ASSUME NEW q \in DOMAIN e.revisions \ {r}, e.revisions[q].note = n
          PROVE  \/ e.revisions[q].created < e.revisions[r].created
                 \/ e.revisions[q].created = e.revisions[r].created /\ q[2] < r[2]
      <4>1. e.revisions[q].created \in Nat /\ e.revisions[q].created <= d.now
        BY <1>4, <3>1 DEF RevisionOK
      <4>2. q[2] < d.tx
        BY <1>4, <3>1
      <4>3. e.revisions[r].created = d.now /\ r[2] = d.tx
        BY <1>2
      <4> QED
        BY <1>1, <4>1, <4>2, <4>3
    <3>2. e.notes[x] = row
      BY <1>2, <2>1
    <3>3. r \in DOMAIN e.revisions /\ e.revisions[r].note = n /\ e.revisions[r].text = r
      BY <1>2
    <3> QED
      BY <2>1, <3>1, <3>2, <3>3 DEF CurrentIn
  <2>2. CASE x # n
    <3>1. x \in NotesOf(d) /\ e.notes[x] = d.notes[x]
      BY <1>2, <2>2
    <3>2. IsRow(d.notes[x]) /\ CurrentIn(d, x)
      BY <3>1 DEF NotesOK
    <3> DEFINE s == d.notes[x].revision
    <3>3. s \in DOMAIN d.revisions /\ d.revisions[s].note = x
      BY <3>2 DEF CurrentIn
    <3>4. s # r
      <4>1. s[1] = x
        BY <3>3 DEF NotesOK, RevisionOK
      <4> QED
        BY <2>2, <4>1
    <3>5. s \in DOMAIN e.revisions /\ e.revisions[s] = d.revisions[s]
      BY <1>2, <3>3, <3>4
    <3>6. ASSUME NEW q \in DOMAIN e.revisions \ {s}, e.revisions[q].note = x
          PROVE  \/ e.revisions[q].created < e.revisions[s].created
                 \/ e.revisions[q].created = e.revisions[s].created /\ q[2] < s[2]
      <4>1. q # r
        BY <1>2, <2>2, <3>6
      <4>2. q \in DOMAIN d.revisions \ {s} /\ e.revisions[q] = d.revisions[q]
        BY <1>4, <4>1
      <4> QED
        BY <3>2, <3>5, <3>6, <4>2 DEF CurrentIn
    <3> QED
      BY <3>1, <3>2, <3>5, <3>6 DEF CurrentIn
  <2> QED
    BY <2>1, <2>2
<1> QED
  BY <1>1, <1>2, <1>3, <1>5 DEF NotesOK

\* Writing a row hides no less if the row does not.
LEMMA WritesHides ==
    ASSUME NEW d, NEW n, NEW row, NEW e, Writes(d, e, n, row),
           n \in NotesOf(d) => /\ row.archived \in {d.notes[n].archived, TRUE}
                               /\ row.deleted \in {d.notes[n].deleted, TRUE}
    PROVE  Hides(d, e)
<1>1. NotesOf(e) = NotesOf(d) \cup {n}
  BY DEF Writes, NotesOf, NotesWith
<1>2. \A x \in NotesOf(d) : e.notes[x] = IF x = n THEN row ELSE d.notes[x]
  BY DEF Writes, NotesWith
<1> QED
  BY <1>1, <1>2 DEF Hides

\* Writing rows that keep their text and their revision.
LEMMA RowsOnly ==
    ASSUME NEW d, NotesOK(d), NEW e, IsDb(e), e.tx = d.tx, e.now = d.now,
           e.revisions = d.revisions, NotesOf(e) = NotesOf(d),
           \A n \in NotesOf(d) : /\ IsRow(e.notes[n])
                                 /\ e.notes[n].text = d.notes[n].text
                                 /\ e.notes[n].revision = d.notes[n].revision
    PROVE  NotesOK(e)
<1>1. \A q \in DOMAIN e.revisions : RevisionOK(e, q)
  BY DEF NotesOK, RevisionOK
<1>2. \A n \in NotesOf(e) : IsRow(e.notes[n]) /\ CurrentIn(e, n)
  BY DEF NotesOK, CurrentIn
<1> QED
  BY <1>1, <1>2 DEF NotesOK

-----------------------------------------------------------------------------
\* The transactions.

\* From good tables to good tables, no hidden note shown, nothing lost.
Advances(d, e) == NotesOK(e) /\ Hides(d, e)

LEMMA AdvancesOn ==
    ASSUME NEW d, NEW e, NEW f, Advances(d, e), SameNotes(e, f)
    PROVE  Advances(d, f)
BY SameNotesOK, HidesTransitive DEF Advances

\* A new note, alone or second in a batch: it has no revision yet.
LEMMA CreatedOK ==
    ASSUME NEW d, NotesOK(d), NEW n, n \notin NotesOf(d), NEW in
    PROVE  Advances(d, Created(d, n, in))
<1>1. PICK d1 : d1 = WithField(d, in.field)
  OBVIOUS
<1>2. PICK row : row = [text |-> <<n, d.tx>>, field |-> FieldOf(d1, in.field),
                        role |-> in.role, created |-> d.now, updated |-> d.now,
                        archived |-> FALSE, deleted |-> FALSE, revision |-> <<n, d.tx>>]
  OBVIOUS
<1>3. PICK d2 : d2 = Revised(Put(d1, n, row), n, None)
  OBVIOUS
<1>4. PICK d3 : d3 = Attached(d2, n, in.tags)
  OBVIOUS
<1>5. PICK d4 : d4 = Linked(d3, n, in.links)
  OBVIOUS
<1>6. Created(d, n, in) = NoteFact(d4, n, "insert")
  BY <1>1, <1>2, <1>3, <1>4, <1>5 DEF Created
<1>7. SameNotes(d, d1) /\ Advances(d, d1)
  BY <1>1, WithFieldKeepsNotes, SameNotesOK DEF NotesOK, Advances
<1>8. Writes(d1, d2, n, row)
  BY <1>3, <1>7, RowAndRevision DEF SameNotes
<1>9. n \notin NotesOf(d1) /\ d1.tx = d.tx
  BY <1>7 DEF SameNotes, NotesOf
<1>10. Advances(d, d2)
  <2>1. \A q \in DOMAIN d1.revisions : d1.revisions[q].note # n
    BY <1>7, <1>9 DEF Advances, NotesOK, RevisionOK
  <2>2. IsRow(row) /\ row.text = <<n, d1.tx>> /\ row.revision = <<n, d1.tx>>
    BY <1>2, <1>9 DEF IsRow
  <2>3. NotesOK(d2)
    BY <1>7, <1>8, <2>1, <2>2, WritesOK DEF Advances
  <2>4. Hides(d1, d2)
    BY <1>8, <1>9, WritesHides
  <2> QED
    BY <1>7, <2>3, <2>4, HidesTransitive DEF Advances
<1>11. Advances(d, d3)
  BY <1>4, <1>10, AttachedKeepsNotes, AdvancesOn DEF Advances, NotesOK
<1>12. Advances(d, d4)
  BY <1>5, <1>11, LinkedKeepsNotes, AdvancesOn DEF Advances, NotesOK
<1> QED
  BY <1>6, <1>12, NoteFactKeepsNotes, AdvancesOn DEF Advances, NotesOK

\* update_note: the revision is younger than all others, since it is made in
\* a transaction of its own.
LEMMA UpdatedOK ==
    ASSUME NEW d, NotesOK(d), \A q \in DOMAIN d.revisions : q[2] < d.tx,
           NEW n \in NotesOf(d), NEW found, NEW in
    PROVE  Advances(d, Updated(d, n, found, in))
<1>1. PICK d1 : d1 = WithField(d, NewField(in))
  OBVIOUS
<1>2. PICK row : row = UpdatedRow(d1, n, found, in)
  OBVIOUS
<1>3. PICK d2 : d2 = Put(Revised(d1, n, BaseOf(d1, n, found)), n, row)
  OBVIOUS
<1>4. PICK d3 : d3 = TagsReplaced(d2, n, in.tags)
  OBVIOUS
<1>5. PICK d4 : d4 = LinksReplaced(d3, n, in.links)
  OBVIOUS
<1>6. Updated(d, n, found, in) = NoteFact(d4, n, "update")
  BY <1>1, <1>2, <1>3, <1>4, <1>5 DEF Updated
<1>7. SameNotes(d, d1) /\ Advances(d, d1)
  BY <1>1, WithFieldKeepsNotes, SameNotesOK DEF NotesOK, Advances
<1>8. Writes(d1, d2, n, row)
  BY <1>3, <1>7, RowAndRevision DEF SameNotes
<1>9. n \in NotesOf(d1)
  BY <1>7 DEF SameNotes, NotesOf
<1>10. Advances(d, d2)
  <2>1. \A q \in DOMAIN d1.revisions : q[2] < d1.tx
    BY <1>7 DEF SameNotes
  <2>2. IsRow(d1.notes[n])
    BY <1>7, <1>9 DEF Advances, NotesOK
  <2>3. /\ IsRow(row) /\ row.text = <<n, d1.tx>> /\ row.revision = <<n, d1.tx>>
        /\ row.archived = d1.notes[n].archived /\ row.deleted = d1.notes[n].deleted
    BY <1>2, <2>2 DEF IsRow, UpdatedRow
  <2>4. NotesOK(d2)
    BY <1>7, <1>8, <2>1, <2>3, WritesOK DEF Advances
  <2>5. Hides(d1, d2)
    BY <1>8, <2>3, WritesHides
  <2> QED
    BY <1>7, <2>4, <2>5, HidesTransitive DEF Advances
<1>11. Advances(d, d3)
  BY <1>4, <1>10, TagsReplacedKeepsNotes, AdvancesOn DEF Advances, NotesOK
<1>12. Advances(d, d4)
  BY <1>5, <1>11, LinksReplacedKeepsNotes, AdvancesOn DEF Advances, NotesOK
<1> QED
  BY <1>6, <1>12, NoteFactKeepsNotes, AdvancesOn DEF Advances, NotesOK

\* A row that keeps its text and its revision and hides no less.
LEMMA RowPutOK ==
    ASSUME NEW d, NotesOK(d), NEW n \in NotesOf(d), NEW row, IsRow(row),
           row.text = d.notes[n].text, row.revision = d.notes[n].revision,
           row.archived \in {d.notes[n].archived, TRUE},
           row.deleted \in {d.notes[n].deleted, TRUE}
    PROVE  Advances(d, Put(d, n, row))
<1>1. PICK e : e = Put(d, n, row)
  OBVIOUS
<1>2. /\ IsDb(e)
      /\ e.tx = d.tx /\ e.now = d.now /\ e.revisions = d.revisions
      /\ e.notes = NotesWith(d, n, row)
  BY <1>1, PutRow DEF NotesOK
<1>3. /\ NotesOf(e) = NotesOf(d)
      /\ \A x \in NotesOf(d) : e.notes[x] = IF x = n THEN row ELSE d.notes[x]
  BY <1>2 DEF NotesOf, NotesWith
<1>4. \A x \in NotesOf(d) : IsRow(d.notes[x])
  BY DEF NotesOK
<1>5. NotesOK(e)
  BY <1>2, <1>3, <1>4, RowsOnly
<1>6. Hides(d, e)
  BY <1>3 DEF Hides
<1> QED
  BY <1>1, <1>5, <1>6 DEF Advances

\* archive_note and delete_note.
LEMMA HiddenOK ==
    ASSUME NEW d, NotesOK(d), NEW n \in NotesOf(d)
    PROVE  Advances(d, Archived(d, n)) /\ Advances(d, Deleted(d, n))
<1>1. IsRow(d.notes[n])
  BY DEF NotesOK
<1>2. ASSUME NEW row, NEW op,
             row \in {[d.notes[n] EXCEPT !.archived = TRUE, !.updated = d.now],
                      [d.notes[n] EXCEPT !.deleted = TRUE, !.updated = d.now]}
      PROVE  Advances(d, NoteFact(Put(d, n, row), n, op))
  <2>1. /\ IsRow(row)
        /\ row.text = d.notes[n].text /\ row.revision = d.notes[n].revision
        /\ row.archived \in {d.notes[n].archived, TRUE}
        /\ row.deleted \in {d.notes[n].deleted, TRUE}
    BY <1>1, <1>2 DEF IsRow
  <2>2. Advances(d, Put(d, n, row))
    BY <2>1, RowPutOK
  <2> QED
    BY <2>2, NoteFactKeepsNotes, AdvancesOn DEF Advances, NotesOK
<1> QED
  BY <1>2 DEF Archived, Deleted

\* delete_unused_field takes the field of hidden notes and nothing else.
LEMMA WithoutFieldOK ==
    ASSUME NEW d, NotesOK(d), NEW f
    PROVE  Advances(d, WithoutField(d, f))
<1> DEFINE notes == [n \in NotesOf(d) |->
                       IF d.notes[n].field = f /\ ~Shown(d.notes[n])
                       THEN [d.notes[n] EXCEPT !.field = None] ELSE d.notes[n]]
           fields == d.fields \ {f}
           facts == {Fact(d, "field", f, "delete")}
<1>1. PICK e : e = [d EXCEPT !.fields = fields, !.notes = notes]
  OBVIOUS
<1>2. WithoutField(d, f) = Record(e, facts)
  BY <1>1 DEF WithoutField, NotesOf
<1>3. /\ \A n \in NotesOf(d) : IsRow(d.notes[n])
      /\ IsDb(d)
  BY DEF NotesOK
<1>4. \A n \in NotesOf(d) :
        /\ IsRow(notes[n])
        /\ notes[n].text = d.notes[n].text
        /\ notes[n].revision = d.notes[n].revision
        /\ notes[n].archived = d.notes[n].archived
        /\ notes[n].deleted = d.notes[n].deleted
  <2> SUFFICES ASSUME NEW n \in NotesOf(d)
               PROVE  /\ IsRow(notes[n])
                      /\ notes[n].text = d.notes[n].text
                      /\ notes[n].revision = d.notes[n].revision
                      /\ notes[n].archived = d.notes[n].archived
                      /\ notes[n].deleted = d.notes[n].deleted
    OBVIOUS
  <2>1. notes[n] \in {[d.notes[n] EXCEPT !.field = None], d.notes[n]}
    OBVIOUS
  <2> HIDE DEF notes
  <2> QED
    BY <1>3, <2>1 DEF IsRow
<1>5. DOMAIN notes = NotesOf(d)
  OBVIOUS
<1> HIDE DEF notes, fields, facts
<1>6. /\ IsDb(e) /\ e.notes = notes /\ e.revisions = d.revisions
      /\ e.tx = d.tx /\ e.now = d.now
  BY <1>1, <1>3 DEF IsDb
<1>7. NotesOf(e) = NotesOf(d)
  BY <1>5, <1>6 DEF NotesOf
<1>8. NotesOK(e)
  BY <1>4, <1>6, <1>7, RowsOnly
<1>9. Hides(d, e)
  BY <1>4, <1>6, <1>7 DEF Hides
<1> QED
  BY <1>2, <1>6, <1>8, <1>9, RecordKeepsNotes, AdvancesOn DEF Advances

\* Whatever the request.
LEMMA TransactedOK ==
    ASSUME NEW d, NotesOK(d), \A q \in DOMAIN d.revisions : q[2] < d.tx,
           NEW r, r.kind \in Kinds, r.note \in NotesOf(d)
    PROVE  Advances(d, Transacted(d, r))
<1>1. IsDb(d)
  BY DEF NotesOK
<1>2. \A ts : Advances(d, Attached(d, r.note, ts))
  BY <1>1, AttachedKeepsNotes, SameNotesOK DEF Advances
<1>3. \A ts : Advances(d, Detached(d, r.note, ts))
  BY <1>1, DetachedKeepsNotes, SameNotesOK DEF Advances
<1>4. CASE r.kind = "update"
  BY <1>4, UpdatedOK DEF Transacted
<1>5. CASE r.kind = "archive"
  BY <1>5, HiddenOK DEF Transacted
<1>6. CASE r.kind = "delete"
  BY <1>6, HiddenOK DEF Transacted
<1>7. CASE r.kind = "addTag"
  BY <1>2, <1>7 DEF Transacted
<1>8. CASE r.kind = "removeTag"
  BY <1>3, <1>8 DEF Transacted
<1> QED
  BY <1>4, <1>5, <1>6, <1>7, <1>8 DEF Kinds

-----------------------------------------------------------------------------
\* The steps.

LEMMA InitOK ==
    Init => IInv
<1> SUFFICES ASSUME Init
             PROVE  IInv
  OBVIOUS
<1>1. NotesOK(db)
  BY DEF Init, EmptyDb, NotesOK, IsDb, NotesOf
<1>2. RequestsOK
  BY DEF Init, RequestsOK
<1> QED
  BY <1>1, <1>2 DEF IInv

\* The requests that wait keep their notes, and one that is done is forgotten.
LEMMA RequestsKeep ==
    ASSUME RequestsOK, Hides(db, db'),
           req' = req \/ \E t \in Task : req' = [req EXCEPT ![t] = NoReq]
    PROVE  RequestsOK'
BY DEF RequestsOK, Hides

\* Every step leads from good tables to good tables.
LEMMA StepOK ==
    ASSUME IInv, [Next]_vars
    PROVE  IInv' /\ Hides(db, db')
<1>1. NotesOK(db) /\ RequestsOK
  BY DEF IInv
<1>2. ASSUME UNCHANGED db
      PROVE  NotesOK(db)' /\ Hides(db, db')
  BY <1>1, <1>2 DEF NotesOK, RevisionOK, CurrentIn, NotesOf, Hides
<1>3. ASSUME NEW s \in Ticks, NEW e, Advances(Begun(s), e), Commit(e),
             req' = req \/ \E t \in Task : req' = [req EXCEPT ![t] = NoReq]
      PROVE  IInv' /\ Hides(db, db')
  <2>1. db' = e
    BY <1>3 DEF Commit
  <2>2. Hides(db, e)
    BY <1>1, <1>3, BegunOK DEF Advances, Hides, NotesOf
  <2>3. NotesOK(db)'
    BY <1>3, <2>1 DEF Advances
  <2> QED
    BY <1>1, <1>3, <2>1, <2>2, <2>3, RequestsKeep DEF IInv
<1>4. \A s \in Ticks : /\ NotesOK(Begun(s))
                       /\ NotesOf(Begun(s)) = NotesOf(db)
                       /\ \A q \in DOMAIN Begun(s).revisions : q[2] < Begun(s).tx
  BY <1>1, BegunOK DEF NotesOf
<1>5. CASE Create
  BY <1>3, <1>4, <1>5, CreatedOK DEF Create, Creatable
<1>6. CASE CreateBatch
  <2>1. PICK m \in NoteId, n \in NoteId, i \in CreateInput, j \in CreateInput, s \in Ticks :
          /\ Creatable(Begun(s), m, i)
          /\ Creatable(Created(Begun(s), m, i), n, j)
          /\ Commit(Created(Created(Begun(s), m, i), n, j))
    BY <1>6 DEF CreateBatch
  <2>2. PICK d : d = Created(Begun(s), m, i)
    OBVIOUS
  <2>3. Advances(Begun(s), d)
    BY <1>4, <2>1, <2>2, CreatedOK DEF Creatable
  <2>4. Advances(d, Created(d, n, j))
    BY <2>1, <2>2, <2>3, CreatedOK DEF Creatable, Advances
  <2>5. Advances(Begun(s), Created(d, n, j))
    BY <2>3, <2>4, HidesTransitive DEF Advances
  <2>6. req' = req
    BY <1>6 DEF CreateBatch
  <2> QED
    BY <1>3, <2>1, <2>2, <2>5, <2>6
<1>7. CASE DeleteField
  BY <1>3, <1>4, <1>7, WithoutFieldOK DEF DeleteField
<1>8. ASSUME NEW t \in Task, Lookup(t)
      PROVE  IInv' /\ Hides(db, db')
  <2>1. UNCHANGED db
    BY <1>8 DEF Lookup
  <2>2. PICK kind \in Kinds, ref \in Ref, n \in NoteId :
          /\ Resolves(db, ref, n)
          /\ \E in : req' = [req EXCEPT ![t] = [kind |-> kind, note |-> n,
                                                 row |-> db.notes[n], input |-> in]]
    BY <1>8 DEF Lookup
  <2>3. n \in NotesOf(db)
    BY <2>2 DEF Resolves, Found, Visible
  <2>4. RequestsOK'
    BY <1>1, <2>1, <2>2, <2>3 DEF RequestsOK, NotesOf
  <2> QED
    BY <1>2, <2>1, <2>4 DEF IInv
<1>9. ASSUME NEW t \in Task, Transact(t)
      PROVE  IInv' /\ Hides(db, db')
  <2>1. PICK s \in Ticks : Commit(Transacted(Begun(s), req[t]))
    BY <1>9 DEF Transact
  <2>2. req[t].kind \in Kinds /\ req[t].note \in NotesOf(db)
    BY <1>1, <1>9 DEF Transact, RequestsOK
  <2>3. Advances(Begun(s), Transacted(Begun(s), req[t]))
    BY <1>4, <2>2, TransactedOK
  <2>4. req' = [req EXCEPT ![t] = NoReq]
    BY <1>9 DEF Transact
  <2> QED
    BY <1>3, <2>1, <2>3, <2>4
<1>10. ASSUME NEW t \in Task, RollBack(t)
       PROVE  IInv' /\ Hides(db, db')
  <2>1. UNCHANGED db /\ req' = [req EXCEPT ![t] = NoReq]
    BY <1>10 DEF RollBack
  <2> QED
    BY <1>1, <1>2, <2>1, RequestsKeep DEF IInv
<1>11. ASSUME NEW r \in Reader, FirstPage(r) \/ FindCursor(r) \/ NextPage(r) \/ Leave(r)
       PROVE  IInv' /\ Hides(db, db')
  <2>1. UNCHANGED <<db, req>>
    BY <1>11 DEF FirstPage, FindCursor, NextPage, Leave
  <2> QED
    BY <1>1, <1>2, <2>1, RequestsKeep DEF IInv
<1>12. CASE UNCHANGED vars
  BY <1>1, <1>2, <1>12, RequestsKeep DEF IInv, vars
<1> QED
  BY <1>5, <1>6, <1>7, <1>8, <1>9, <1>10, <1>11, <1>12 DEF Next

LEMMA Inductive ==
    Spec => []IInv
<1>1. IInv /\ [Next]_vars => IInv'
  BY StepOK
<1> QED
  BY <1>1, InitOK, PTL DEF Spec

\* Whatever requests overlap, the current revision of every note is stored, is
\* a revision of this note with the note's text and is the last one that
\* list_note_revisions shows.
THEOREM CurrentRevisions ==
    Spec => []CurrentRevision
<1>1. IInv => CurrentRevision
  BY DEF IInv, NotesOK, CurrentIn, CurrentRevision, EarlierRevision
<1> QED
  BY <1>1, Inductive, PTL

\* No request makes a hidden note visible again, even one that found the note
\* before it was hidden.
THEOREM HiddenNotesStayHidden ==
    Spec => NotesStayHidden
<1> DEFINE Kept == \A n \in NotesOf(db) :
                     /\ db.notes[n].archived => db'.notes[n].archived
                     /\ db.notes[n].deleted => db'.notes[n].deleted
<1>1. IInv /\ [Next]_vars => [Kept]_vars
  BY StepOK DEF Hides
<1> QED
  BY <1>1, Inductive, PTL DEF Spec, NotesStayHidden
=============================================================================
