-------------------------- MODULE NotesPagesProofs --------------------------
(***************************************************************************)
(* What a client that pages through the recent notes is shown, for every   *)
(* number of clients, notes and transactions and every page size, whatever *)
(* is written between two pages and between the two queries of a page.     *)
(*                                                                         *)
(* A page is cut off at a number of notes, so the argument counts: the     *)
(* notes ahead of a note in the order of the list are finitely many, and   *)
(* there are fewer of them the further ahead it is.                        *)
(***************************************************************************)
EXTENDS NotesTablesProofs, FiniteSetTheorems, WellFoundedInduction

-----------------------------------------------------------------------------
\* Pages of an ordered finite set.

\* A nonempty set of natural numbers has a least element.
LEMMA LeastNumber ==
    ASSUME NEW S \in SUBSET Nat, S # {}
    PROVE  \E m \in S : \A k \in S : m <= k
<1>1. \E m \in S : \A k \in S : <<k, m>> \notin OpToRel(<, Nat)
  <2> HIDE DEF OpToRel
  <2> QED
    BY NatLessThanWellFounded, WFMin
<1>2. PICK m \in S : \A k \in S : <<k, m>> \notin OpToRel(<, Nat)
  BY <1>1
<1>3. \A k \in S : ~(k < m)
  BY <1>2 DEF OpToRel
<1> QED
  BY <1>3

\* The order of the list, between two notes of d as they are.
Ahead(d, m, n) == Before(m, d.notes[m], n, d.notes[n])

Ordered(d, S) ==
    /\ IsFiniteSet(S)
    /\ \A k \in S : ~Ahead(d, k, k)
    /\ \A k, m, n \in S : Ahead(d, k, m) /\ Ahead(d, m, n) => Ahead(d, k, n)
    /\ \A k, m \in S : k = m \/ Ahead(d, k, m) \/ Ahead(d, m, k)

AheadOf(d, S, m) == {k \in S : Ahead(d, k, m)}

Rank(d, S, m) == Cardinality(AheadOf(d, S, m))

FirstOf(d, S) == {m \in S : Rank(d, S, m) < PageSize}

\* A note ahead of another has fewer notes ahead of it.
LEMMA RankGrows ==
    ASSUME NEW d, NEW S, Ordered(d, S), NEW k \in S, NEW m \in S, Ahead(d, k, m)
    PROVE  Rank(d, S, k) < Rank(d, S, m)
<1> DEFINE A == AheadOf(d, S, k)
           B == AheadOf(d, S, m)
<1>1. IsFiniteSet(S) /\ A \in SUBSET S /\ B \in SUBSET S
  BY DEF Ordered, AheadOf
<1>2. k \notin A /\ A \cup {k} \in SUBSET B
  BY DEF Ordered, AheadOf
<1> HIDE DEF A, B
<1>3. IsFiniteSet(A) /\ IsFiniteSet(B)
  BY <1>1, FS_Subset
<1>4. Cardinality(A) \in Nat /\ Cardinality(B) \in Nat
  BY <1>3, FS_CardinalityType
<1>5. Cardinality(A \cup {k}) = Cardinality(A) + 1
  BY <1>2, <1>3, FS_AddElement
<1>6. Cardinality(A \cup {k}) <= Cardinality(B)
  BY <1>2, <1>3, FS_Subset
<1>7. Cardinality(A) < Cardinality(B)
  BY <1>4, <1>5, <1>6
<1> QED
  BY <1>7 DEF Rank, A, B

LEMMA RankType ==
    ASSUME NEW d, NEW S, Ordered(d, S), NEW m
    PROVE  Rank(d, S, m) \in Nat
<1>1. IsFiniteSet(S) /\ AheadOf(d, S, m) \in SUBSET S
  BY DEF Ordered, AheadOf
<1> QED
  BY <1>1, FS_Subset, FS_CardinalityType DEF Rank

\* What is ahead of a note of the page is on the page.
LEMMA FirstOfClosed ==
    ASSUME NEW d, NEW S, Ordered(d, S), NEW m \in FirstOf(d, S), NEW k \in S, Ahead(d, k, m)
    PROVE  k \in FirstOf(d, S)
<1>1. /\ Rank(d, S, k) \in Nat /\ Rank(d, S, m) \in Nat
      /\ Rank(d, S, k) < Rank(d, S, m) /\ Rank(d, S, m) < PageSize
  BY RankType, RankGrows DEF FirstOf
<1>2. PageSize \in Nat
  BY BoundsAssumption
<1> QED
  BY <1>1, <1>2 DEF FirstOf

\* A page that is not full leaves nothing out.
LEMMA ShortPage ==
    ASSUME NEW d, NEW S, Ordered(d, S), Cardinality(FirstOf(d, S)) < PageSize
    PROVE  FirstOf(d, S) = S
<1> DEFINE P == FirstOf(d, S)
<1>1. P \subseteq S
  BY DEF FirstOf
<1>2. SUFFICES ASSUME S \ P # {} PROVE FALSE
  BY <1>1
<1>3. PICK m \in S \ P : \A k \in S \ P : Rank(d, S, m) <= Rank(d, S, k)
  <2> DEFINE R == {Rank(d, S, k) : k \in S \ P}
  <2>1. R \in SUBSET Nat /\ R # {}
    BY <1>2, RankType
  <2>2. PICK x \in R : \A y \in R : x <= y
    <3> HIDE DEF R
    <3> QED
      BY <2>1, LeastNumber
  <2> QED
    BY <2>2
<1>4. AheadOf(d, S, m) \in SUBSET P
  <2> SUFFICES ASSUME NEW k \in S, Ahead(d, k, m), k \notin P PROVE FALSE
    BY DEF AheadOf
  <2>1. /\ Rank(d, S, m) <= Rank(d, S, k) /\ Rank(d, S, k) < Rank(d, S, m)
        /\ Rank(d, S, k) \in Nat /\ Rank(d, S, m) \in Nat
    BY <1>3, RankGrows, RankType
  <2> QED
    BY <2>1
<1>5. IsFiniteSet(P) /\ P \in SUBSET S
  BY <1>1, FS_Subset DEF Ordered
<1>6. /\ Rank(d, S, m) <= Cardinality(P)
      /\ Cardinality(P) \in Nat /\ Rank(d, S, m) \in Nat /\ PageSize \in Nat
  BY <1>4, <1>5, FS_Subset, FS_CardinalityType, RankType, BoundsAssumption DEF Rank
<1>7. Rank(d, S, m) < PageSize
  BY <1>6
<1> QED
  BY <1>3, <1>7 DEF FirstOf

\* A page that is not empty has a last note.
LEMMA LastOfPage ==
    ASSUME NEW d, NEW S, Ordered(d, S), FirstOf(d, S) # {}
    PROVE  /\ Last(d, FirstOf(d, S)) \in FirstOf(d, S)
           /\ \A k \in FirstOf(d, S) \ {Last(d, FirstOf(d, S))} :
                Ahead(d, k, Last(d, FirstOf(d, S)))
<1> DEFINE P == FirstOf(d, S)
           R == {PageSize - Rank(d, S, k) : k \in P}
<1>1. \A k \in P : /\ Rank(d, S, k) \in Nat
                   /\ PageSize - Rank(d, S, k) \in Nat
  <2> SUFFICES ASSUME NEW k \in P
               PROVE  Rank(d, S, k) \in Nat /\ PageSize - Rank(d, S, k) \in Nat
    OBVIOUS
  <2>1. Rank(d, S, k) \in Nat /\ Rank(d, S, k) < PageSize /\ PageSize \in Nat
    BY RankType, BoundsAssumption DEF FirstOf
  <2> QED
    BY <2>1
<1>2. R \in SUBSET Nat /\ R # {}
  BY <1>1
<1>3. PICK x \in R : \A y \in R : x <= y
  <2> HIDE DEF R
  <2> QED
    BY <1>2, LeastNumber
<1>4. PICK m \in P : \A k \in P : Rank(d, S, k) <= Rank(d, S, m)
  <2>1. PICK m \in P : x = PageSize - Rank(d, S, m)
    BY <1>3
  <2>2. \A k \in P : PageSize - Rank(d, S, m) <= PageSize - Rank(d, S, k)
    BY <1>3, <2>1
  <2>3. ASSUME NEW k \in P
        PROVE  Rank(d, S, k) <= Rank(d, S, m)
    <3>1. /\ Rank(d, S, k) \in Nat /\ Rank(d, S, m) \in Nat /\ PageSize \in Nat
          /\ PageSize - Rank(d, S, m) <= PageSize - Rank(d, S, k)
      BY <1>1, <2>2, BoundsAssumption
    <3> QED
      BY <3>1
  <2> QED
    BY <2>3
<1>5. \A k \in P \ {m} : Ahead(d, k, m)
  <2> SUFFICES ASSUME NEW k \in P \ {m}, ~Ahead(d, k, m) PROVE FALSE
    OBVIOUS
  <2>1. k \in S /\ m \in S
    BY DEF FirstOf
  <2>2. Ahead(d, m, k)
    BY <2>1 DEF Ordered
  <2>3. /\ Rank(d, S, m) < Rank(d, S, k) /\ Rank(d, S, k) <= Rank(d, S, m)
        /\ Rank(d, S, m) \in Nat /\ Rank(d, S, k) \in Nat
    BY <1>1, <1>4, <2>1, <2>2, RankGrows
  <2> QED
    BY <2>3
<1>6. \E n \in P : \A k \in P \ {n} : Before(k, d.notes[k], n, d.notes[n])
  BY <1>5 DEF Ahead
<1> HIDE DEF P
<1>7. /\ Last(d, P) \in P
      /\ \A k \in P \ {Last(d, P)} : Before(k, d.notes[k], Last(d, P), d.notes[Last(d, P)])
  BY <1>6 DEF Last
<1> QED
  BY <1>7 DEF P, Ahead

-----------------------------------------------------------------------------
\* What a transaction does to the order of the list.

\* The rows' times are numbers that do not run ahead of the clock.
Timely(d) ==
    /\ d.now \in Nat
    /\ \A n \in NotesOf(d) : d.notes[n].updated \in Nat /\ d.notes[n].updated <= d.now

\* Every row that is written is written now, and few notes are new.
Moves(d, e) ==
    /\ e.now = d.now
    /\ NotesOf(d) \subseteq NotesOf(e)
    /\ IsFiniteSet(NotesOf(d)) => IsFiniteSet(NotesOf(e))
    /\ \A n \in NotesOf(e) :
         \/ e.notes[n].updated = d.now
         \/ n \in NotesOf(d) /\ e.notes[n].updated = d.notes[n].updated

LEMMA MovesTransitive ==
    ASSUME NEW d, NEW e, NEW f, Moves(d, e), Moves(e, f)
    PROVE  Moves(d, f)
BY DEF Moves

LEMMA SameNotesMoves ==
    ASSUME NEW d, NEW e, SameNotes(d, e)
    PROVE  Moves(d, e) /\ IsDb(e)
BY DEF SameNotes, Moves, NotesOf

LEMMA WritesMoves ==
    ASSUME NEW d, NEW e, NEW n, NEW row, Writes(d, e, n, row), row.updated = d.now
    PROVE  Moves(d, e) /\ IsDb(e)
<1>1. /\ NotesOf(e) = NotesOf(d) \cup {n} /\ e.now = d.now /\ IsDb(e)
      /\ \A x \in NotesOf(e) : e.notes[x] = IF x = n THEN row ELSE d.notes[x]
  BY DEF Writes, NotesWith, NotesOf
<1>2. IsFiniteSet(NotesOf(d)) => IsFiniteSet(NotesOf(e))
  BY <1>1, FS_AddElement
<1> QED
  BY <1>1, <1>2 DEF Moves

LEMMA CreatedMoves ==
    ASSUME NEW d, IsDb(d), NEW n, NEW in
    PROVE  Moves(d, Created(d, n, in))
<1>1. PICK d1 : d1 = WithField(d, in.field)
  OBVIOUS
<1>2. PICK row : row = [text |-> <<n, d.tx>>, field |-> FieldOf(d1, in.field),
                        role |-> in.role, created |-> d.now, updated |-> d.now,
                        archived |-> FALSE, deleted |-> FALSE, revision |-> <<n, d.tx>>]
  OBVIOUS
<1>3. PICK d2 : d2 = Revised(Put(d1, n, row), n, None)
  OBVIOUS
<1>4. PICK d3 : d3 = Attached(d2, n, in.tags)
  OBVIOUS
<1>5. PICK d4 : d4 = Linked(d3, n, in.links)
  OBVIOUS
<1>6. Created(d, n, in) = NoteFact(d4, n, "insert")
  BY <1>1, <1>2, <1>3, <1>4, <1>5 DEF Created
<1>7. SameNotes(d, d1) /\ IsDb(d1)
  BY <1>1, WithFieldKeepsNotes DEF SameNotes
<1>8. Moves(d1, d2) /\ IsDb(d2)
  <2>1. Writes(d1, d2, n, row)
    BY <1>3, <1>7, RowAndRevision
  <2>2. row.updated = d1.now
    BY <1>2, <1>7 DEF SameNotes
  <2> QED
    BY <2>1, <2>2, WritesMoves
<1>9. SameNotes(d2, d3) /\ IsDb(d3)
  BY <1>4, <1>8, AttachedKeepsNotes DEF SameNotes
<1>10. SameNotes(d3, d4) /\ IsDb(d4)
  BY <1>5, <1>9, LinkedKeepsNotes DEF SameNotes
<1>11. SameNotes(d4, NoteFact(d4, n, "insert"))
  BY <1>10, NoteFactKeepsNotes
<1> QED
  BY <1>6, <1>7, <1>8, <1>9, <1>10, <1>11, SameNotesMoves, MovesTransitive

LEMMA UpdatedMoves ==
    ASSUME NEW d, IsDb(d), NEW n, IsRow(d.notes[n]), NEW found, NEW in
    PROVE  Moves(d, Updated(d, n, found, in))
<1>1. PICK d1 : d1 = WithField(d, NewField(in))
  OBVIOUS
<1>2. PICK row : row = UpdatedRow(d1, n, found, in)
  OBVIOUS
<1>3. PICK d2 : d2 = Put(Revised(d1, n, BaseOf(d1, n, found)), n, row)
  OBVIOUS
<1>4. PICK d3 : d3 = TagsReplaced(d2, n, in.tags)
  OBVIOUS
<1>5. PICK d4 : d4 = LinksReplaced(d3, n, in.links)
  OBVIOUS
<1>6. Updated(d, n, found, in) = NoteFact(d4, n, "update")
  BY <1>1, <1>2, <1>3, <1>4, <1>5 DEF Updated
<1>7. SameNotes(d, d1) /\ IsDb(d1)
  BY <1>1, WithFieldKeepsNotes DEF SameNotes
<1>8. Moves(d1, d2) /\ IsDb(d2)
  <2>1. Writes(d1, d2, n, row)
    BY <1>3, <1>7, RowAndRevision
  <2>2. IsRow(d1.notes[n])
    BY <1>7 DEF SameNotes
  <2>3. row.updated = d1.now
    BY <1>2, <2>2 DEF UpdatedRow, IsRow
  <2> QED
    BY <2>1, <2>3, WritesMoves
<1>9. SameNotes(d2, d3) /\ IsDb(d3)
  BY <1>4, <1>8, TagsReplacedKeepsNotes DEF SameNotes
<1>10. SameNotes(d3, d4) /\ IsDb(d4)
  BY <1>5, <1>9, LinksReplacedKeepsNotes DEF SameNotes
<1>11. SameNotes(d4, NoteFact(d4, n, "update"))
  BY <1>10, NoteFactKeepsNotes
<1> QED
  BY <1>6, <1>7, <1>8, <1>9, <1>10, <1>11, SameNotesMoves, MovesTransitive

LEMMA HiddenMoves ==
    ASSUME NEW d, IsDb(d), NEW n \in NotesOf(d), IsRow(d.notes[n])
    PROVE  Moves(d, Archived(d, n)) /\ Moves(d, Deleted(d, n))
<1>1. ASSUME NEW row, row.updated = d.now, NEW op
      PROVE  Moves(d, NoteFact(Put(d, n, row), n, op))
  <2>1. PICK e : e = Put(d, n, row)
    OBVIOUS
  <2>2. /\ IsDb(e) /\ e.now = d.now /\ e.notes = NotesWith(d, n, row)
    BY <2>1, PutRow
  <2>3. Moves(d, e)
    BY <1>1, <2>2 DEF Moves, NotesWith, NotesOf
  <2>4. SameNotes(e, NoteFact(e, n, op))
    BY <2>2, NoteFactKeepsNotes
  <2> QED
    BY <2>1, <2>3, <2>4, SameNotesMoves, MovesTransitive
<1>2. /\ [d.notes[n] EXCEPT !.archived = TRUE, !.updated = d.now].updated = d.now
      /\ [d.notes[n] EXCEPT !.deleted = TRUE, !.updated = d.now].updated = d.now
  BY DEF IsRow
<1> QED
  BY <1>1, <1>2 DEF Archived, Deleted

LEMMA WithoutFieldMoves ==
    ASSUME NEW d, IsDb(d), NEW f, \A n \in NotesOf(d) : IsRow(d.notes[n])
    PROVE  Moves(d, WithoutField(d, f))
<1> DEFINE notes == [n \in NotesOf(d) |->
                       IF d.notes[n].field = f /\ ~Shown(d.notes[n])
                       THEN [d.notes[n] EXCEPT !.field = None] ELSE d.notes[n]]
           fields == d.fields \ {f}
           facts == {Fact(d, "field", f, "delete")}
<1>1. PICK e : e = [d EXCEPT !.fields = fields, !.notes = notes]
  OBVIOUS
<1>2. WithoutField(d, f) = Record(e, facts)
  BY <1>1 DEF WithoutField, NotesOf
<1>3. \A n \in NotesOf(d) : notes[n].updated = d.notes[n].updated
  <2> SUFFICES ASSUME NEW n \in NotesOf(d)
               PROVE  notes[n].updated = d.notes[n].updated
    OBVIOUS
  <2>1. notes[n] \in {[d.notes[n] EXCEPT !.field = None], d.notes[n]} /\ IsRow(d.notes[n])
    OBVIOUS
  <2> HIDE DEF notes
  <2> QED
    BY <2>1 DEF IsRow
<1>4. DOMAIN notes = NotesOf(d)
  OBVIOUS
<1> HIDE DEF notes, fields, facts
<1>5. IsDb(e) /\ e.notes = notes /\ e.now = d.now
  BY <1>1 DEF IsDb
<1>6. Moves(d, e)
  BY <1>3, <1>4, <1>5 DEF Moves, NotesOf
<1>7. SameNotes(e, Record(e, facts))
  BY <1>5, RecordKeepsNotes
<1> QED
  BY <1>2, <1>6, <1>7, SameNotesMoves, MovesTransitive

\* Whatever the request.
LEMMA TransactedMoves ==
    ASSUME NEW d, NotesOK(d), NEW q, q.kind \in Kinds, q.note \in NotesOf(d)
    PROVE  Moves(d, Transacted(d, q))
<1>1. IsDb(d) /\ \A n \in NotesOf(d) : IsRow(d.notes[n])
  BY DEF NotesOK
<1>2. CASE q.kind = "update"
  BY <1>1, <1>2, UpdatedMoves DEF Transacted
<1>3. CASE q.kind = "archive"
  BY <1>1, <1>3, HiddenMoves DEF Transacted
<1>4. CASE q.kind = "delete"
  BY <1>1, <1>4, HiddenMoves DEF Transacted
<1>5. CASE q.kind = "addTag"
  BY <1>1, <1>5, AttachedKeepsNotes, SameNotesMoves DEF Transacted
<1>6. CASE q.kind = "removeTag"
  BY <1>1, <1>6, DetachedKeepsNotes, SameNotesMoves DEF Transacted
<1> QED
  BY <1>2, <1>3, <1>4, <1>5, <1>6 DEF Kinds

\* The list as the readers may find it.
ListOK(d) == Timely(d) /\ IsFiniteSet(NotesOf(d))

\* No note is lost, and none moves back in the list.
Ages(d, e) ==
    /\ NotesOf(d) \subseteq NotesOf(e)
    /\ \A n \in NotesOf(d) : d.notes[n].updated <= e.notes[n].updated

LEMMA MovesAges ==
    ASSUME ListOK(db), NotesOK(db), NEW s \in Ticks, NEW e, Moves(Begun(s), e)
    PROVE  ListOK(e) /\ Ages(db, e)
<1>1. PICK d : d = Begun(s)
  OBVIOUS
<1>2. d.notes = db.notes /\ NotesOf(d) = NotesOf(db)
  BY <1>1, BegunOK DEF NotesOf
<1>3. s \in Nat /\ db.now \in Nat
  BY BoundsAssumption DEF ListOK, Timely
<1>4. d.now = db.now + s
  <2>1. db = [notes |-> db.notes, revisions |-> db.revisions, fields |-> db.fields,
              tags |-> db.tags, noteTags |-> db.noteTags, links |-> db.links,
              facts |-> db.facts, tx |-> db.tx, now |-> db.now]
    BY DEF NotesOK, IsDb
  <2> QED
    BY <1>1, <2>1 DEF Begun
<1>5. d.now \in Nat /\ \A x \in Nat : x <= db.now => x <= d.now
  BY <1>3, <1>4
<1>6. e.now = d.now /\ NotesOf(db) \subseteq NotesOf(e) /\ IsFiniteSet(NotesOf(e))
  BY <1>1, <1>2 DEF Moves, ListOK
<1>7. \A n \in NotesOf(e) :
        \/ e.notes[n].updated = d.now
        \/ n \in NotesOf(db) /\ e.notes[n].updated = db.notes[n].updated
  BY <1>1, <1>2 DEF Moves
<1>8. \A n \in NotesOf(db) : /\ db.notes[n].updated \in Nat
                             /\ db.notes[n].updated <= db.now
                             /\ db.notes[n].updated <= d.now
  BY <1>5 DEF ListOK, Timely
<1>9. Timely(e)
  BY <1>5, <1>6, <1>7, <1>8 DEF Timely
<1>10. Ages(db, e)
  BY <1>6, <1>7, <1>8 DEF Ages
<1> QED
  BY <1>6, <1>9, <1>10 DEF ListOK

\* Every commit.
LEMMA ListStep ==
    ASSUME IInv, ListOK(db), [Next]_vars
    PROVE  ListOK(db)' /\ Ages(db, db')
<1>1. NotesOK(db) /\ RequestsOK
  BY DEF IInv
<1>2. ASSUME UNCHANGED db
      PROVE  ListOK(db)' /\ Ages(db, db')
  <2>1. \A n \in NotesOf(db) : db.notes[n].updated <= db.notes[n].updated
    BY DEF ListOK, Timely
  <2> QED
    BY <1>2, <2>1 DEF Ages
<1>3. ASSUME NEW s \in Ticks, NEW e, Moves(Begun(s), e), Commit(e)
      PROVE  ListOK(db)' /\ Ages(db, db')
  <2>1. db' = e
    BY <1>3 DEF Commit
  <2> QED
    BY <1>1, <1>3, <2>1, MovesAges
<1>4. \A s \in Ticks : /\ NotesOK(Begun(s)) /\ IsDb(Begun(s))
                       /\ NotesOf(Begun(s)) = NotesOf(db)
                       /\ \A n \in NotesOf(Begun(s)) : IsRow(Begun(s).notes[n])
  BY <1>1, BegunOK DEF NotesOf, NotesOK
<1>5. CASE Create
  BY <1>3, <1>4, <1>5, CreatedMoves DEF Create
<1>6. CASE CreateBatch
  <2>1. PICK m \in NoteId, n \in NoteId, i \in CreateInput, j \in CreateInput, s \in Ticks :
          /\ Creatable(Begun(s), m, i)
          /\ Commit(Created(Created(Begun(s), m, i), n, j))
    BY <1>6 DEF CreateBatch
  <2>2. PICK d : d = Created(Begun(s), m, i)
    OBVIOUS
  <2>3. IsDb(d)
    BY <1>4, <2>1, <2>2, CreatedOK DEF Advances, NotesOK, Creatable
  <2>4. Moves(Begun(s), d) /\ Moves(d, Created(d, n, j))
    BY <1>4, <2>2, <2>3, CreatedMoves
  <2>5. Moves(Begun(s), Created(d, n, j))
    BY <2>4, MovesTransitive
  <2> QED
    BY <1>3, <2>1, <2>2, <2>5
<1>7. CASE DeleteField
  BY <1>3, <1>4, <1>7, WithoutFieldMoves DEF DeleteField
<1>8. ASSUME NEW t \in Task, Transact(t)
      PROVE  ListOK(db)' /\ Ages(db, db')
  <2>1. PICK s \in Ticks : Commit(Transacted(Begun(s), req[t]))
    BY <1>8 DEF Transact
  <2>2. req[t].kind \in Kinds /\ req[t].note \in NotesOf(db)
    BY <1>1, <1>8 DEF Transact, RequestsOK
  <2>3. Moves(Begun(s), Transacted(Begun(s), req[t]))
    BY <1>4, <2>2, TransactedMoves
  <2> QED
    BY <1>3, <2>1, <2>3
<1>9. ASSUME NEW t \in Task, Lookup(t) \/ RollBack(t)
      PROVE  ListOK(db)' /\ Ages(db, db')
  BY <1>2, <1>9 DEF Lookup, RollBack
<1>10. ASSUME NEW r \in Reader, FirstPage(r) \/ FindCursor(r) \/ NextPage(r) \/ Leave(r)
       PROVE  ListOK(db)' /\ Ages(db, db')
  BY <1>2, <1>10 DEF FirstPage, FindCursor, NextPage, Leave
<1>11. CASE UNCHANGED vars
  BY <1>2, <1>11 DEF vars
<1> QED
  BY <1>5, <1>6, <1>7, <1>8, <1>9, <1>10, <1>11 DEF Next

-----------------------------------------------------------------------------
\* The inductive invariant of the readers.

WalkRow == [pc : {"reading", "found", "done"}, role : Role \cup {None},
            cursor : NoteId \cup {None}, row : NoteRow \cup {None},
            page : SUBSET NoteId, listed : SUBSET NoteId, touched : SUBSET NoteId]

\* What the next page is compared with: the cursor's row as it is, or as it was
\* found.
CursorRow(d, w) == IF w.pc = "found" THEN w.row ELSE d.notes[w.cursor]

\* What the reader has been shown, and what it is still to be shown.
Seen(w) == w.listed \cup w.page

Left(d, w) == (Listable(d, w.role) \ w.touched) \ Seen(w)

\* Where reader w stands in the list of d.
CursorOK(d, w) ==
    /\ w.pc = "done" => w.cursor \in NotesOf(d) \cup {None}
    /\ w.pc \in {"reading", "found"} => w.cursor \in w.page
    /\ w.pc = "found" => w.row \in NoteRow
    /\ w.pc = "found" /\ w.cursor \notin w.touched => w.row = d.notes[w.cursor]

\* What is left to be shown comes after the cursor.
LeftOK(d, w) ==
    /\ w.pc = "done" => Left(d, w) = {}
    /\ w.pc \in {"reading", "found"} =>
         \A m \in Left(d, w) : Before(w.cursor, CursorRow(d, w), m, d.notes[m])

\* Nothing has been shown twice, and what has been shown does not come after the
\* cursor, unless it has been written since.
SeenOK(d, w) ==
    /\ w.listed \cap w.touched # {} \/ w.listed \cap w.page = {}
    /\ w.pc \in {"reading", "found"} =>
         \/ Seen(w) \cap w.touched # {}
         \/ \A k \in Seen(w) \ {w.cursor} :
              Before(k, d.notes[k], w.cursor, CursorRow(d, w))

ReaderOK(d, w) ==
    /\ w \in WalkRow
    /\ w.page \cup w.listed \cup w.touched \subseteq NotesOf(d)
    /\ CursorOK(d, w)
    /\ LeftOK(d, w)
    /\ SeenOK(d, w)

ReadersOK ==
    /\ walk = [r \in Reader |-> walk[r]]
    /\ \A r \in Reader : walk[r] = [pc |-> "idle"] \/ ReaderOK(db, walk[r])

\* The order of the list: rows are compared by their times, then their ids.
LEMMA BeforeTransitive ==
    ASSUME NEW k \in NoteId, NEW x, x.updated \in Nat,
           NEW m \in NoteId, NEW y, y.updated \in Nat,
           NEW n \in NoteId, NEW z, z.updated \in Nat,
           Before(k, x, m, y), Before(m, y, n, z)
    PROVE  Before(k, x, n, z)
<1>1. IdOrder[k] \in Nat /\ IdOrder[m] \in Nat /\ IdOrder[n] \in Nat
  BY IdAssumption
<1> QED
  BY <1>1 DEF Before

LEMMA ListOrdered ==
    ASSUME NEW d, ListOK(d), TypesOK(d), NEW S \in SUBSET NotesOf(d)
    PROVE  Ordered(d, S)
<1>1. IsFiniteSet(S)
  BY FS_Subset DEF ListOK
<1>2. \A k \in S : k \in NoteId /\ d.notes[k].updated \in Nat
  BY DEF TypesOK, ListOK, Timely
<1>3. \A k \in S : ~Ahead(d, k, k)
  BY <1>2, IdAssumption DEF Ahead, Before
<1>4. \A k, m, n \in S : Ahead(d, k, m) /\ Ahead(d, m, n) => Ahead(d, k, n)
  BY <1>2, BeforeTransitive DEF Ahead
<1>5. ASSUME NEW k \in S, NEW m \in S, k # m
      PROVE  Ahead(d, k, m) \/ Ahead(d, m, k)
  <2>1. IdOrder[k] \in Nat /\ IdOrder[m] \in Nat /\ IdOrder[k] # IdOrder[m]
    BY <1>2, <1>5, IdAssumption
  <2>2. d.notes[k].updated \in Nat /\ d.notes[m].updated \in Nat
    BY <1>2
  <2> QED
    BY <2>1, <2>2 DEF Ahead, Before
<1> QED
  BY <1>1, <1>3, <1>4, <1>5 DEF Ordered

\* A commit between two queries: a note written since is no longer owed, and
\* the cursor's row only moves forward.
LEMMA CommitReader ==
    ASSUME NEW d, NEW e, ListOK(d), ListOK(e), TypesOK(d), TypesOK(e), Ages(d, e),
           NEW w, ReaderOK(d, w)
    PROVE  ReaderOK(e, [w EXCEPT !.touched = @ \cup Changed(d, e)])
<1> DEFINE T == w.touched \cup Changed(d, e)
<1>1. PICK v : v = [w EXCEPT !.touched = T]
  OBVIOUS
<1>2. w \in WalkRow /\ w.page \cup w.listed \cup w.touched \subseteq NotesOf(d)
  BY DEF ReaderOK
<1>3. NotesOf(d) \subseteq NotesOf(e) /\ NotesOf(e) \subseteq NoteId /\ Changed(d, e) \subseteq NotesOf(e)
  BY DEF Ages, TypesOK, Changed
<1>4. T \in SUBSET NotesOf(e) /\ T \in SUBSET NoteId
  BY <1>2, <1>3
<1>5. /\ w.touched \subseteq T
      /\ \A n \in NotesOf(e) : n \notin T => n \in NotesOf(d) /\ e.notes[n] = d.notes[n]
  BY DEF Changed
<1> HIDE DEF T
<1>6. /\ v \in WalkRow /\ v.touched = T
      /\ v.pc = w.pc /\ v.role = w.role /\ v.cursor = w.cursor /\ v.row = w.row
      /\ v.page = w.page /\ v.listed = w.listed
  BY <1>1, <1>2, <1>4 DEF WalkRow
<1>7. Seen(v) = Seen(w) /\ Seen(w) \subseteq NotesOf(d)
  BY <1>2, <1>6 DEF Seen
<1>8. CursorOK(e, v)
  BY <1>2, <1>3, <1>5, <1>6 DEF ReaderOK, CursorOK
<1>9. \A m \in Left(e, v) : /\ m \in Left(d, w) /\ e.notes[m] = d.notes[m]
                            /\ m \in NotesOf(d)
  <2> SUFFICES ASSUME NEW m \in Left(e, v)
               PROVE  m \in Left(d, w) /\ e.notes[m] = d.notes[m] /\ m \in NotesOf(d)
    OBVIOUS
  <2>1. m \in Listable(e, w.role) /\ m \notin T /\ m \notin Seen(w)
    BY <1>6, <1>7 DEF Left
  <2>2. m \in NotesOf(d) /\ e.notes[m] = d.notes[m]
    BY <1>5, <2>1 DEF Listable
  <2>3. m \in Listable(d, w.role)
    BY <2>1, <2>2 DEF Listable, Visible
  <2> QED
    BY <1>5, <2>1, <2>2, <2>3 DEF Left
<1>10. LeftOK(e, v)
  <2>1. CASE w.pc = "done"
    <3>1. Left(e, v) = {}
      BY <1>9, <2>1 DEF ReaderOK, LeftOK
    <3> QED
      BY <1>6, <2>1, <3>1 DEF LeftOK
  <2>2. CASE w.pc = "found"
    BY <1>6, <1>9, <2>2 DEF ReaderOK, LeftOK, CursorRow
  <2>3. CASE w.pc = "reading"
    <3>1. w.cursor \in NotesOf(d) /\ w.cursor \in NoteId
      BY <1>2, <1>3, <2>3 DEF ReaderOK, CursorOK
    <3>2. /\ d.notes[w.cursor].updated \in Nat /\ e.notes[w.cursor].updated \in Nat
          /\ d.notes[w.cursor].updated <= e.notes[w.cursor].updated
      BY <1>3, <3>1 DEF ListOK, Timely, Ages
    <3>3. ASSUME NEW m \in Left(e, v)
          PROVE  Before(w.cursor, e.notes[w.cursor], m, e.notes[m])
      <4>1. Before(w.cursor, d.notes[w.cursor], m, d.notes[m])
        BY <1>9, <2>3, <3>3 DEF ReaderOK, LeftOK, CursorRow
      <4>2. /\ d.notes[m].updated \in Nat /\ e.notes[m] = d.notes[m]
            /\ m \in NoteId /\ IdOrder[m] \in Nat /\ IdOrder[w.cursor] \in Nat
        BY <1>3, <1>9, <3>1, <3>3, IdAssumption DEF ListOK, Timely
      <4> QED
        BY <3>2, <4>1, <4>2 DEF Before
    <3> QED
      BY <1>6, <2>3, <3>3 DEF LeftOK, CursorRow
  <2> QED
    BY <1>2, <2>1, <2>2, <2>3 DEF WalkRow
<1>11. SeenOK(e, v)
  <2>1. v.listed \cap v.touched # {} \/ v.listed \cap v.page = {}
    BY <1>5, <1>6 DEF ReaderOK, SeenOK
  <2>2. ASSUME w.pc \in {"reading", "found"}, Seen(w) \cap T = {},
               NEW k \in Seen(w) \ {w.cursor}
        PROVE  Before(k, e.notes[k], w.cursor, CursorRow(e, v))
    <3>1. Seen(w) \cap w.touched = {}
      BY <1>5, <2>2
    <3>2. Before(k, d.notes[k], w.cursor, CursorRow(d, w))
      BY <2>2, <3>1 DEF ReaderOK, SeenOK
    <3>3. w.cursor \in Seen(w)
      BY <2>2 DEF ReaderOK, CursorOK, Seen
    <3>4. e.notes[k] = d.notes[k] /\ e.notes[w.cursor] = d.notes[w.cursor]
      BY <1>3, <1>5, <1>7, <2>2, <3>3
    <3>5. CursorRow(e, v) = CursorRow(d, w)
      BY <1>6, <3>4 DEF CursorRow
    <3> QED
      BY <3>2, <3>4, <3>5
  <2> QED
    BY <1>6, <1>7, <2>1, <2>2 DEF SeenOK
<1> QED
  BY <1>1, <1>2, <1>3, <1>4, <1>6, <1>8, <1>10, <1>11 DEF ReaderOK, T

AnyWalk == [pc : {"", "reading", "found", "done"}, role : Role \cup {None},
            cursor : NoteId \cup {None}, row : NoteRow \cup {None},
            page : SUBSET NoteId, listed : SUBSET NoteId, touched : SUBSET NoteId]

\* A reader that has been answered a page.
Turned(d, w, page) ==
    [w EXCEPT !.pc = IF Cardinality(page) < PageSize THEN "done" ELSE "reading",
              !.cursor = IF page = {} THEN None ELSE Last(d, page),
              !.page = page]

\* The page that follows the cursor n with the given row.
LEMMA TurnOK ==
    ASSUME NEW d, ListOK(d), TypesOK(d), NEW w \in AnyWalk,
           w.listed \cup w.touched \subseteq NotesOf(d), NEW n, NEW row,
           \A m \in (Listable(d, w.role) \ w.touched) \ w.listed : m \in Older(d, w.role, n, row),
           w.listed \cap w.touched = {} =>
             \A k \in w.listed, m \in Older(d, w.role, n, row) : Ahead(d, k, m)
    PROVE  ReaderOK(d, Turned(d, w, Page(d, w.role, n, row)))
<1>1. PICK S : S = Older(d, w.role, n, row)
  OBVIOUS
<1>2. PICK P : P = FirstOf(d, S)
  OBVIOUS
<1>3. Page(d, w.role, n, row) = P
  BY <1>1, <1>2 DEF Page, FirstOf, Rank, AheadOf, Ahead
<1>4. S \in SUBSET NotesOf(d) /\ NotesOf(d) \subseteq NoteId
  BY <1>1 DEF Older, Listable, TypesOK
<1>5. Ordered(d, S) /\ P \subseteq S
  BY <1>2, <1>4, ListOrdered DEF FirstOf
<1>6. PICK v : v = Turned(d, w, P)
  OBVIOUS
<1>7. P # {} => /\ Last(d, P) \in P
                /\ \A k \in P \ {Last(d, P)} : Ahead(d, k, Last(d, P))
  BY <1>2, <1>5, LastOfPage
<1>8. /\ v \in WalkRow
      /\ v.pc = IF Cardinality(P) < PageSize THEN "done" ELSE "reading"
      /\ v.cursor = IF P = {} THEN None ELSE Last(d, P)
      /\ v.page = P /\ v.listed = w.listed /\ v.touched = w.touched /\ v.role = w.role
  <2> DEFINE pc == IF Cardinality(P) < PageSize THEN "done" ELSE "reading"
             cursor == IF P = {} THEN None ELSE Last(d, P)
  <2>1. pc \in {"reading", "found", "done"} /\ cursor \in NoteId \cup {None} /\ P \in SUBSET NoteId
    BY <1>4, <1>5, <1>7
  <2>2. v = [w EXCEPT !.pc = pc, !.cursor = cursor, !.page = P]
    BY <1>6 DEF Turned
  <2> HIDE DEF pc, cursor
  <2>3. /\ v \in WalkRow /\ v.pc = pc /\ v.cursor = cursor
        /\ v.page = P /\ v.listed = w.listed /\ v.touched = w.touched /\ v.role = w.role
    BY <2>1, <2>2 DEF AnyWalk, WalkRow
  <2> QED
    BY <2>3 DEF pc, cursor
<1>9. v.pc = "reading" => P # {}
  <2>1. Cardinality({}) = 0 /\ PageSize \in Nat \ {0}
    BY FS_EmptySet, BoundsAssumption
  <2> QED
    BY <1>8, <2>1
<1>10. v.pc # "found"
  BY <1>8
<1>11. CursorOK(d, v)
  BY <1>4, <1>5, <1>7, <1>8, <1>9, <1>10 DEF CursorOK
<1>12. Left(d, v) \subseteq S \ P
  BY <1>1, <1>8 DEF Left, Seen
<1>13. LeftOK(d, v)
  <2>1. CASE v.pc = "done"
    <3>1. P = S
      BY <1>2, <1>5, <1>8, <2>1, ShortPage
    <3> QED
      BY <1>12, <2>1, <3>1 DEF LeftOK
  <2>2. CASE v.pc = "reading"
    <3>1. /\ Last(d, P) \in P /\ v.cursor = Last(d, P)
          /\ CursorRow(d, v) = d.notes[v.cursor]
      BY <1>7, <1>8, <1>9, <2>2 DEF CursorRow
    <3>2. ASSUME NEW m \in S \ P
          PROVE  Ahead(d, Last(d, P), m)
      <4>1. ~Ahead(d, m, Last(d, P)) /\ m # Last(d, P) /\ Last(d, P) \in S
        BY <1>2, <1>5, <3>1, FirstOfClosed
      <4> QED
        BY <1>5, <4>1 DEF Ordered
    <3> QED
      BY <1>12, <2>2, <3>1, <3>2 DEF LeftOK, Ahead
  <2> QED
    BY <1>8, <2>1, <2>2
<1>14. SeenOK(d, v)
  <2>1. w.listed \cap w.touched = {} => w.listed \cap P = {}
    BY <1>1, <1>5 DEF Ordered
  <2>2. ASSUME v.pc = "reading", Seen(v) \cap v.touched = {},
               NEW k \in Seen(v) \ {v.cursor}
        PROVE  Before(k, d.notes[k], v.cursor, CursorRow(d, v))
    <3>1. /\ Last(d, P) \in P /\ v.cursor = Last(d, P)
          /\ CursorRow(d, v) = d.notes[v.cursor]
      BY <1>7, <1>8, <1>9, <2>2 DEF CursorRow
    <3>2. CASE k \in P
      BY <1>7, <2>2, <3>1, <3>2 DEF Ahead
    <3>3. CASE k \in w.listed
      <4>1. w.listed \cap w.touched = {}
        BY <1>8, <2>2 DEF Seen
      <4> QED
        BY <1>1, <1>5, <3>1, <3>3, <4>1 DEF Ahead
    <3> QED
      BY <1>8, <2>2, <3>2, <3>3 DEF Seen
  <2> QED
    BY <1>8, <1>10, <2>1, <2>2 DEF SeenOK
<1>15. v.page \cup v.listed \cup v.touched \subseteq NotesOf(d)
  BY <1>4, <1>5, <1>8
<1> QED
  BY <1>3, <1>6, <1>8, <1>11, <1>13, <1>14, <1>15 DEF ReaderOK

\* get_visible_note_by_id for the cursor: its row as it is now.
LEMMA FoundOK ==
    ASSUME NEW d, TypesOK(d), NEW w, ReaderOK(d, w), w.pc = "reading"
    PROVE  ReaderOK(d, [w EXCEPT !.pc = "found", !.row = d.notes[w.cursor]])
<1>1. PICK row : row = d.notes[w.cursor]
  OBVIOUS
<1>2. PICK v : v = [w EXCEPT !.pc = "found", !.row = row]
  OBVIOUS
<1>3. w \in WalkRow /\ w.cursor \in NotesOf(d) /\ row \in NoteRow
  BY <1>1 DEF ReaderOK, CursorOK, TypesOK
<1>4. /\ v \in WalkRow /\ v.pc = "found" /\ v.row = row
      /\ v.role = w.role /\ v.cursor = w.cursor
      /\ v.page = w.page /\ v.listed = w.listed /\ v.touched = w.touched
  BY <1>2, <1>3 DEF WalkRow
<1>5. CursorRow(d, v) = CursorRow(d, w) /\ Seen(v) = Seen(w) /\ Left(d, v) = Left(d, w)
  BY <1>1, <1>4 DEF CursorRow, Seen, Left
<1>6. CursorOK(d, v)
  BY <1>1, <1>3, <1>4 DEF ReaderOK, CursorOK
<1>7. LeftOK(d, v) /\ SeenOK(d, v)
  BY <1>4, <1>5 DEF ReaderOK, LeftOK, SeenOK
<1> QED
  BY <1>1, <1>2, <1>4, <1>6, <1>7 DEF ReaderOK

\* The next page, after the cursor's row as it was found.
LEMMA NextPageOK ==
    ASSUME NEW d, ListOK(d), TypesOK(d), NEW w, ReaderOK(d, w), w.pc = "found",
           NEW v, v = [w EXCEPT !.row = None, !.listed = @ \cup w.page]
    PROVE  ReaderOK(d, Turned(d, v, Page(d, w.role, w.cursor, w.row)))
<1>1. w \in WalkRow /\ w.page \cup w.listed \cup w.touched \subseteq NotesOf(d)
  BY DEF ReaderOK
<1>2. w.cursor \in w.page /\ w.cursor \in NoteId /\ w.row \in NoteRow
  BY <1>1 DEF ReaderOK, CursorOK, TypesOK
<1>3. w.row.updated \in Nat
  BY <1>2 DEF NoteRow
<1>4. /\ v \in AnyWalk /\ v.role = w.role /\ v.listed = Seen(w) /\ v.touched = w.touched
      /\ v.listed \cup v.touched \subseteq NotesOf(d)
  <2>1. PICK A : A = w.listed \cup w.page
    OBVIOUS
  <2>2. v = [w EXCEPT !.row = None, !.listed = A] /\ A \in SUBSET NoteId
    BY <1>1, <2>1 DEF WalkRow
  <2>3. v \in AnyWalk /\ v.role = w.role /\ v.listed = A /\ v.touched = w.touched
    BY <1>1, <2>2 DEF WalkRow, AnyWalk
  <2> QED
    BY <1>1, <2>1, <2>3 DEF Seen
<1>5. PICK S : S = Older(d, v.role, w.cursor, w.row)
  OBVIOUS
<1>6. \A m \in S : /\ m \in NoteId /\ d.notes[m].updated \in Nat
                   /\ Before(w.cursor, w.row, m, d.notes[m])
  BY <1>2, <1>5, NoneAssumption DEF Older, Listable, TypesOK, ListOK, Timely
<1>7. \A m \in (Listable(d, v.role) \ v.touched) \ v.listed : m \in S
  <2> SUFFICES ASSUME NEW m \in (Listable(d, v.role) \ v.touched) \ v.listed
               PROVE  m \in S
    OBVIOUS
  <2>1. m \in Left(d, w) /\ m \in Listable(d, v.role)
    BY <1>4 DEF Left
  <2>2. Before(w.cursor, w.row, m, d.notes[m])
    BY <2>1 DEF ReaderOK, LeftOK, CursorRow
  <2> QED
    BY <1>5, <2>1, <2>2 DEF Older
<1>8. ASSUME v.listed \cap v.touched = {}, NEW k \in v.listed, NEW m \in S
      PROVE  Ahead(d, k, m)
  <2>1. CASE k = w.cursor
    <3>1. w.row = d.notes[w.cursor]
      BY <1>2, <1>4, <1>8 DEF ReaderOK, CursorOK, Seen
    <3> QED
      BY <1>6, <1>8, <2>1, <3>1 DEF Ahead
  <2>2. CASE k # w.cursor
    <3>1. Seen(w) \cap w.touched = {} /\ k \in Seen(w) \ {w.cursor}
      BY <1>4, <1>8, <2>2
    <3>2. Before(k, d.notes[k], w.cursor, w.row)
      BY <3>1 DEF ReaderOK, SeenOK, CursorRow
    <3>3. k \in NoteId /\ d.notes[k].updated \in Nat
      BY <1>4, <1>8 DEF TypesOK, ListOK, Timely
    <3> QED
      BY <1>2, <1>3, <1>6, <1>8, <3>2, <3>3, BeforeTransitive DEF Ahead
  <2> QED
    BY <2>1, <2>2
<1>9. ReaderOK(d, Turned(d, v, Page(d, v.role, w.cursor, w.row)))
  BY <1>4, <1>5, <1>7, <1>8, TurnOK
<1> QED
  BY <1>4, <1>9

\* The first page, of all notes.
LEMMA FirstPageOK ==
    ASSUME NEW d, ListOK(d), TypesOK(d), NEW role \in Role \cup {None},
           NEW v, v = [pc |-> "", role |-> role, cursor |-> None, row |-> None,
                       page |-> {}, listed |-> {}, touched |-> {}]
    PROVE  ReaderOK(d, Turned(d, v, Page(d, role, None, None)))
<1>1. v \in AnyWalk /\ v.role = role /\ v.listed = {} /\ v.touched = {}
  BY DEF AnyWalk
<1>2. \A m \in (Listable(d, v.role) \ v.touched) \ v.listed : m \in Older(d, v.role, None, None)
  BY DEF Older
<1>3. ReaderOK(d, Turned(d, v, Page(d, v.role, None, None)))
  BY <1>1, <1>2, TurnOK
<1> QED
  BY <1>1, <1>3

-----------------------------------------------------------------------------
\* The steps.

PagesInv ==
    /\ TablesInv
    /\ ListOK(db)
    /\ ReadersOK

LEMMA PagesInit ==
    Init => PagesInv
<1> SUFFICES ASSUME Init
             PROVE  PagesInv
  OBVIOUS
<1>1. ListOK(db)
  BY FS_EmptySet DEF Init, EmptyDb, ListOK, Timely, NotesOf
<1>2. ReadersOK
  BY DEF Init, ReadersOK
<1> QED
  BY <1>1, <1>2, TablesInit DEF PagesInv

\* One reader's step.
LEMMA ReaderStep ==
    ASSUME ReadersOK, UNCHANGED db, NEW r \in Reader, NEW v,
           v = [pc |-> "idle"] \/ ReaderOK(db, v), walk' = [walk EXCEPT ![r] = v]
    PROVE  ReadersOK'
<1>1. \A x \in Reader : walk'[x] = IF x = r THEN v ELSE walk[x]
  BY DEF ReadersOK
<1>2. walk' = [x \in Reader |-> walk'[x]]
  BY DEF ReadersOK
<1>3. \A x \in Reader : walk'[x] = [pc |-> "idle"] \/ ReaderOK(db, walk'[x])
  BY <1>1 DEF ReadersOK
<1> QED
  BY <1>2, <1>3 DEF ReadersOK

\* A commit, seen by all readers.
LEMMA ReadersCommit ==
    ASSUME ReadersOK, ListOK(db), ListOK(db'), TypesOK(db), TypesOK(db'), Ages(db, db'),
           NEW e, Commit(e)
    PROVE  ReadersOK'
<1>1. db' = e /\ walk' = [r \in Reader |->
                            IF walk[r].pc = "idle" THEN walk[r]
                            ELSE [walk[r] EXCEPT !.touched = @ \cup Changed(db, e)]]
  BY DEF Commit
<1>2. ASSUME NEW r \in Reader
      PROVE  walk'[r] = [pc |-> "idle"] \/ ReaderOK(db', walk'[r])
  <2>1. CASE walk[r] = [pc |-> "idle"]
    BY <1>1, <2>1
  <2>2. CASE ReaderOK(db, walk[r])
    <3>1. walk[r].pc # "idle"
      BY <2>2 DEF ReaderOK, WalkRow
    <3>2. walk'[r] = [walk[r] EXCEPT !.touched = @ \cup Changed(db, e)]
      BY <1>1, <3>1
    <3> QED
      BY <1>1, <2>2, <3>2, CommitReader
  <2> QED
    BY <2>1, <2>2 DEF ReadersOK
<1>3. walk' = [r \in Reader |-> walk'[r]]
  BY <1>1
<1> QED
  BY <1>2, <1>3 DEF ReadersOK

LEMMA PagesStep ==
    ASSUME PagesInv, [Next]_vars
    PROVE  PagesInv'
<1>1. /\ TablesInv /\ IInv /\ ListOK(db) /\ ReadersOK /\ TypesOK(db)
      /\ walk = [r \in Reader |-> walk[r]]
  BY DEF PagesInv, TablesInv, TablesOK, ReadersOK
<1>2. TablesInv' /\ ListOK(db') /\ Ages(db, db') /\ TypesOK(db')
  <2>1. TablesInv'
    BY <1>1, TablesStep
  <2>2. ListOK(db') /\ Ages(db, db')
    BY <1>1, ListStep
  <2> QED
    BY <2>1, <2>2 DEF TablesInv, TablesOK
<1>3. SUFFICES ReadersOK'
  BY <1>2 DEF PagesInv
<1>4. ASSUME NEW e, Commit(e)
      PROVE  ReadersOK'
  BY <1>1, <1>2, <1>4, ReadersCommit
<1>5. ASSUME UNCHANGED <<db, walk>>
      PROVE  ReadersOK'
  BY <1>1, <1>5 DEF ReadersOK
<1>6. CASE Create \/ CreateBatch \/ DeleteField
  BY <1>4, <1>6 DEF Create, CreateBatch, DeleteField
<1>7. ASSUME NEW t \in Task, Lookup(t) \/ Transact(t) \/ RollBack(t)
      PROVE  ReadersOK'
  BY <1>4, <1>5, <1>7 DEF Lookup, Transact, RollBack
<1>8. ASSUME NEW r \in Reader, FirstPage(r)
      PROVE  ReadersOK'
  <2>1. PICK role \in Role \cup {None} :
          Turn(r, [pc |-> "", role |-> role, cursor |-> None, row |-> None,
                   page |-> {}, listed |-> {}, touched |-> {}],
               Page(db, role, None, None))
    BY <1>8 DEF FirstPage
  <2>2. PICK v : v = [pc |-> "", role |-> role, cursor |-> None, row |-> None,
                      page |-> {}, listed |-> {}, touched |-> {}]
    OBVIOUS
  <2>3. walk' = [walk EXCEPT ![r] = Turned(db, v, Page(db, role, None, None))]
    BY <2>1, <2>2 DEF Turn, Turned
  <2>4. ReaderOK(db, Turned(db, v, Page(db, role, None, None)))
    BY <1>1, <2>2, FirstPageOK
  <2>5. UNCHANGED db
    BY <1>8 DEF FirstPage
  <2> QED
    BY <1>1, <2>3, <2>4, <2>5, ReaderStep
<1>9. ASSUME NEW r \in Reader, FindCursor(r)
      PROVE  ReadersOK'
  <2>1. walk[r].pc = "reading" /\ UNCHANGED db
    BY <1>9 DEF FindCursor
  <2>2. ReaderOK(db, walk[r])
    BY <1>1, <2>1 DEF ReadersOK
  <2>3. PICK v : v = IF Visible(db, walk[r].cursor)
                     THEN [walk[r] EXCEPT !.pc = "found", !.row = db.notes[walk[r].cursor]]
                     ELSE [pc |-> "idle"]
    OBVIOUS
  <2>4. walk' = [walk EXCEPT ![r] = v]
    BY <1>9, <2>3 DEF FindCursor
  <2>5. v = [pc |-> "idle"] \/ ReaderOK(db, v)
    BY <1>1, <2>1, <2>2, <2>3, FoundOK
  <2> QED
    BY <1>1, <2>1, <2>4, <2>5, ReaderStep
<1>10. ASSUME NEW r \in Reader, NextPage(r)
       PROVE  ReadersOK'
  <2>1. walk[r].pc = "found" /\ UNCHANGED db
    BY <1>10 DEF NextPage
  <2>2. ReaderOK(db, walk[r])
    BY <1>1, <2>1 DEF ReadersOK
  <2>3. PICK v : v = [walk[r] EXCEPT !.row = None, !.listed = @ \cup walk[r].page]
    OBVIOUS
  <2>4. PICK P : P = Page(db, walk[r].role, walk[r].cursor, walk[r].row)
    OBVIOUS
  <2>5. walk' = [walk EXCEPT ![r] = Turned(db, v, P)]
    BY <1>10, <2>3, <2>4 DEF NextPage, Turn, Turned
  <2>6. ReaderOK(db, Turned(db, v, P))
    BY <1>1, <2>1, <2>2, <2>3, <2>4, NextPageOK
  <2> QED
    BY <1>1, <2>1, <2>5, <2>6, ReaderStep
<1>11. ASSUME NEW r \in Reader, Leave(r)
       PROVE  ReadersOK'
  BY <1>1, <1>11, ReaderStep DEF Leave
<1>12. CASE UNCHANGED vars
  BY <1>5, <1>12 DEF vars
<1> QED
  BY <1>6, <1>7, <1>8, <1>9, <1>10, <1>11, <1>12 DEF Next

LEMMA PagesInductive ==
    Spec => []PagesInv
<1>1. PagesInv /\ [Next]_vars => PagesInv'
  BY PagesStep
<1> QED
  BY <1>1, PagesInit, PTL DEF Spec

\* The types of the tables, the requests and the readers.
THEOREM TypeCorrect ==
    Spec => []TypeOK
<1>1. PagesInv => WalkOK
  <2> SUFFICES ASSUME PagesInv, NEW r \in Reader, walk[r].pc # "idle"
               PROVE  /\ walk[r].pc \in {"reading", "found", "done"}
                      /\ walk[r].role \in Role \cup {None}
                      /\ walk[r].cursor \in NotesOf(db) \cup {None}
                      /\ walk[r].row \in NoteRow \cup {None}
                      /\ walk[r].page \cup walk[r].listed \cup walk[r].touched
                           \subseteq NotesOf(db)
    BY DEF WalkOK
  <2>1. ReaderOK(db, walk[r])
    BY DEF PagesInv, ReadersOK
  <2> QED
    BY <2>1 DEF ReaderOK, CursorOK, WalkRow
<1> QED
  BY <1>1, PagesInductive, TablesTyped, PTL DEF TypeOK

\* A client that pages to the end has been shown every visible note that was
\* not written meanwhile, whatever was committed between the pages and between
\* the two queries of a page.
THEOREM ListsAreComplete ==
    Spec => []PagesAreComplete
<1>1. PagesInv => PagesAreComplete
  <2> SUFFICES ASSUME PagesInv, NEW r \in Reader, walk[r].pc = "done"
               PROVE  Listable(db, walk[r].role) \ walk[r].touched
                        \subseteq walk[r].listed \cup walk[r].page
    BY DEF PagesAreComplete
  <2>1. ReaderOK(db, walk[r])
    BY DEF PagesInv, ReadersOK
  <2>2. Left(db, walk[r]) = {}
    BY <2>1 DEF ReaderOK, LeftOK
  <2> QED
    BY <2>2 DEF Left, Seen
<1> QED
  BY <1>1, PagesInductive, PTL

\* As long as no note a client was shown has been written, it is shown none
\* twice.
THEOREM ListsDoNotRepeat ==
    Spec => []PagesDoNotRepeat
<1>1. PagesInv => PagesDoNotRepeat
  <2> SUFFICES ASSUME PagesInv, NEW r \in Reader, walk[r].pc \in {"reading", "done"}
               PROVE  \/ walk[r].listed \cap walk[r].touched # {}
                      \/ walk[r].listed \cap walk[r].page = {}
    BY DEF PagesDoNotRepeat
  <2>1. ReaderOK(db, walk[r])
    BY DEF PagesInv, ReadersOK
  <2> QED
    BY <2>1 DEF ReaderOK, SeenOK
<1> QED
  BY <1>1, PagesInductive, PTL
=============================================================================
