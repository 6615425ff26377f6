-------------------------- MODULE SyncServiceProofs --------------------------
(***************************************************************************)
(* Theorems about SyncService: they hold for any number of devices, tasks, *)
(* rows and facts, for every interleaving of edits and cycles and for      *)
(* every abort.                                                            *)
(***************************************************************************)
EXTENDS SyncService, SyncDiffProofs

\* The phases that a cycle of each entry point goes through.
PhasesOf(k) ==
    {"idle", "readLocal", "readRemote", "decide", "verifyLocal", "verifyRemote",
     "judge"}
        \cup (IF k \in {"run", "pull"} THEN {"writeLocal", "deleteLocal"} ELSE {})
        \cup (IF k \in {"run", "push"} THEN {"writeRemote", "deleteRemote"} ELSE {})

\* Invariants.

PhaseOfKind == \A c \in Cycle : pc[c] \in PhasesOf(kind[c])

RecordedBounded == Bounded(Recorded, now + MaxFacts)

\* Facts and phases: what keeps the data of every step well typed.
FactsInv ==
    /\ TypeOK
    /\ PhaseOfKind
    /\ KnownFactsAreStored
    /\ UniqueIds(Recorded)
    /\ RecordedBounded

-----------------------------------------------------------------------------
\* The tables and the order of the phases.

\* Tables are distinct numbers.
LEMMA TablesDiffer ==
    /\ Notes # NoteTags /\ Notes # NoteLinks /\ Notes # Fields /\ Notes # Tags
    /\ Fields # Tags /\ Fields # NoteTags /\ Fields # NoteLinks
    /\ Tags # NoteTags /\ Tags # NoteLinks
BY DEF Notes, NoteTags, NoteLinks, Fields, Tags

LEMMA FirstTableType == FirstTable \in Table /\ \A u \in Table : FirstTable <= u
<1>1. Table \in SUBSET Nat /\ Table # {}
  BY TableAssumption DEF Workspaces, SyncChanges
<1>2. \E t \in Table : \A u \in Table : t <= u
  BY <1>1, LeastNatural
<1> QED
  BY <1>2 DEF FirstTable

LEMMA TableAfterType ==
    ASSUME NEW t \in Table, t # SyncChanges
    PROVE  /\ TableAfter(t) \in Table /\ TableAfter(t) > t
           /\ \A u \in Table : u > t => TableAfter(t) <= u
<1> DEFINE Later == {u \in Table : u > t}
<1>1. Later \in SUBSET Nat /\ SyncChanges \in Later
  <2>1. Table \subseteq 0 .. 8
    BY TableAssumption DEF Workspaces, SyncChanges
  <2>2. t \in 0 .. 8 /\ t # 8
    BY <2>1 DEF SyncChanges
  <2>3. SyncChanges > t
    BY <2>2 DEF SyncChanges
  <2>4. SyncChanges \in Table
    BY TableAssumption
  <2>5. \A u \in Table : u \in Nat
    BY <2>1
  <2> QED
    BY <2>3, <2>4, <2>5
<1>2. PICK m \in Later : \A k \in Later : m <= k
  <2> HIDE DEF Later
  <2> QED
    BY <1>1, LeastNatural
<1>3. \E u \in Table : u > t /\ \A v \in Table : v > t => u <= v
  BY <1>2
<1> QED
  BY <1>3 DEF TableAfter

\* The tables that come before the next one.
LEMMA TablesBefore ==
    ASSUME NEW t \in Table, t # SyncChanges, NEW u \in Table
    PROVE  u < TableAfter(t) <=> u = t \/ u < t
<1>1. /\ TableAfter(t) \in Table /\ TableAfter(t) > t
      /\ (u > t => TableAfter(t) <= u)
  BY TableAfterType
<1>2. Table \subseteq 0 .. 8
  BY TableAssumption DEF Workspaces, SyncChanges
<1>3. PICK a : a = TableAfter(t)
  OBVIOUS
<1>4. a \in Table /\ a > t /\ (u > t => a <= u)
  BY <1>1, <1>3
<1>5. a \in Nat /\ u \in Nat /\ t \in Nat
  BY <1>2, <1>4
<1>6. u < a <=> u = t \/ u < t
  BY <1>4, <1>5
<1> QED
  BY <1>3, <1>6

\* The write phases each entry point can be in, and that the next one exists.
Writing == {"decide", "writeLocal", "writeRemote", "deleteLocal", "deleteRemote"}

LEMMA NextPhaseType ==
    ASSUME NEW k \in Kind, NEW p \in PhasesOf(k) \cap Writing
    PROVE  NextPhase[k][p] \in Phase \cap PhasesOf(k)
<1>1. CASE k = "run"
  BY <1>1 DEF PhasesOf, Writing, NextPhase, Phase
<1>2. CASE k = "push"
  BY <1>2 DEF PhasesOf, Writing, NextPhase, Phase
<1>3. CASE k = "pull"
  BY <1>3 DEF PhasesOf, Writing, NextPhase, Phase
<1> QED
  BY <1>1, <1>2, <1>3 DEF Kind

-----------------------------------------------------------------------------
\* Edits.

\* What an edit may commit, whatever it does to the rows.
LEMMA CommitKeepsFactsInv ==
    ASSUME FactsInv,
           NEW d \in Device, NEW t \in Seconds,
           NEW S \in SUBSET Entity, NEW ids \in Stamps(S),
           NEW rows \in [Entity -> Row \cup {Absent}], NEW tombstones,
           Commit(d, t, ids, rows, tombstones)
    PROVE  FactsInv'
<1> DEFINE new == NewFacts(t, ids, tombstones)
<1>1. now' = t /\ t \in Nat /\ now <= t /\ now \in Nat /\ MaxFacts \in Nat
  BY BoundsAssumption DEF FactsInv, TypeOK, Seconds, Commit
<1>2. ids \in [S -> FreeIds] /\ \A e, f \in S : e # f => ids[e] # ids[f]
  BY DEF Stamps
<1>3. \A c \in new : /\ c \in Fact
                     /\ c.id \in FreeIds
                     /\ c.id <= MaxFacts
                     /\ c.at = t
  <2>1. \A i \in FreeIds : i \in Nat /\ i <= MaxFacts
    BY <1>1 DEF FreeIds
  <2> QED
    BY <1>1, <1>2, <2>1 DEF NewFacts, Fact
<1>4. UniqueIds(new)
  BY <1>2 DEF UniqueIds, NewFacts
<1>5. /\ db \in [Device -> Snapshot]
      /\ db[d].log \in SUBSET Fact
      /\ db' = [db EXCEPT ![d] = [rows |-> rows, log |-> db[d].log \cup new]]
      /\ UNCHANGED <<remote, pc, kind, cursor, local, cloud, todo, result, aborts>>
  BY DEF FactsInv, TypeOK, Snapshot, Commit, cycleVars
<1>6. Recorded' = Recorded \cup new
  BY <1>5 DEF Recorded
<1>7. \A e \in Device : db[e].log \subseteq db'[e].log
  BY <1>5
<1>8. TypeOK'
  <2>1. [rows |-> rows, log |-> db[d].log \cup new] \in Snapshot
    BY <1>3, <1>5 DEF Snapshot
  <2> QED
    BY <1>1, <1>5, <2>1 DEF FactsInv, TypeOK
<1>9. PhaseOfKind'
  BY <1>5 DEF FactsInv, PhaseOfKind
<1>10. KnownFactsAreStored'
  <2>1. Owner \in [Cycle -> Device]
    BY OwnerAssumption
  <2> QED
    BY <1>5, <1>6, <1>7, <2>1 DEF FactsInv, KnownFactsAreStored
<1>11. UniqueIds(Recorded)'
  <2>1. \A c \in Recorded, f \in new : c.id # f.id
    BY <1>3 DEF FreeIds
  <2> QED
    BY <1>4, <1>6, <2>1 DEF FactsInv, UniqueIds
<1>12. RecordedBounded'
  <2>1. \A c \in Recorded : c \in Fact
    BY <1>5 DEF Recorded, FactsInv, TypeOK, Snapshot
  <2>2. \A c \in Recorded : c.id <= t + MaxFacts /\ c.at <= t + MaxFacts
    BY <1>1, <2>1 DEF FactsInv, RecordedBounded, Bounded, Fact
  <2>3. \A c \in new : c.id <= t + MaxFacts /\ c.at <= t + MaxFacts
    BY <1>1, <1>3 DEF Fact
  <2> QED
    BY <1>1, <1>6, <2>2, <2>3 DEF RecordedBounded, Bounded
<1> QED
  BY <1>8, <1>9, <1>10, <1>11, <1>12 DEF FactsInv

\* Rows of one note that do not differ in their version.
SameNote(q, r) == (q = Absent <=> r = Absent) /\ (q # Absent => r.ver = q.ver)

\* The notes in S get the version of their new fact, the others keep theirs.
NotesFollow(old, S, ids, rows) ==
    \A n \in RowsIn(Notes) :
        IF n \in S THEN rows[n] # Absent /\ rows[n].ver = ids[n]
        ELSE SameNote(old[n], rows[n])

\* Every edit is a commit of well-typed rows: it has the facts it writes, the
\* rows afterwards and the rows that go, each with a tombstone among the facts.
Commits(d, t, S, ids, rows, tombstones) ==
    /\ d \in Device
    /\ t \in Seconds
    /\ S \in SUBSET Entity
    /\ ids \in Stamps(S)
    /\ rows \in [Entity -> Row \cup {Absent}]
    /\ tombstones \subseteq S
    /\ \A e \in Entity : db[d].rows[e] # Absent /\ rows[e] = Absent =>
          e \in tombstones /\ Removable(e)
    /\ NotesFollow(db[d].rows, S, ids, rows)
    /\ Commit(d, t, ids, rows, tombstones)

LEMMA PlainRowType == \A t \in Nat : PlainRow(t) \in Row
  BY DEF PlainRow, Row

LEMMA SecondsType ==
    ASSUME TypeOK, NEW t \in Seconds
    PROVE  t \in Nat
  BY DEF TypeOK, Seconds

LEMMA StampType ==
    ASSUME TypeOK, NEW S, NEW ids \in Stamps(S), NEW e \in S
    PROVE  ids[e] \in Nat
  BY BoundsAssumption DEF Stamps, FreeIds

LEMMA WriteNoteCommits ==
    ASSUME TypeOK, NEW d \in Device, NEW n \in RowsIn(Notes),
           NEW f \in RowsIn(Fields) \cup {NoField}, NEW X \in SUBSET TagsOf(n),
           WriteNote(d, n, f, X)
    PROVE  \E t, S, ids, rows, tombstones : Commits(d, t, S, ids, rows, tombstones)
<1> DEFINE s == db[d]
           old == {x \in TagsOf(n) : s.rows[x] # Absent}
           created == {e \in {f} \ {NoField} : s.rows[e] = Absent} \cup NewTags(s, X)
           field == IF f = NoField /\ s.rows[n] # Absent THEN s.rows[n].field ELSE f
           S == {n} \cup created \cup (X \ old) \cup (old \ X)
           Rows(t, ids) ==
              [e \in Entity |->
                    CASE e = n -> [ver |-> ids[n], at |-> t, field |-> field,
                                   state |-> "visible"]
                      [] e \in created \cup (X \ old) -> PlainRow(t)
                      [] e \in old \ X -> Absent
                      [] OTHER -> s.rows[e]]
<1>1. PICK t \in Seconds, ids \in Stamps(S) : Commit(d, t, ids, Rows(t, ids), old \ X)
  BY DEF WriteNote
<1>2. n \in Entity /\ TagsOf(n) \subseteq Entity /\ f \in Entity \cup {NoField}
  BY DEF RowsIn, TagsOf
<1>3. created \subseteq Entity
  BY <1>2, ParentsAssumption DEF NewTags
<1>4. s.rows \in [Entity -> Row \cup {Absent}]
  BY DEF TypeOK, Snapshot
<1>5. S \in SUBSET Entity
  BY <1>2, <1>3
<1>6. [ver |-> ids[n], at |-> t, field |-> field, state |-> "visible"] \in Row
  <2>1. ids[n] \in Nat /\ t \in Nat
    BY StampType, SecondsType
  <2>2. field \in Entity \cup {NoField}
    BY <1>2, <1>4 DEF Row
  <2> QED
    BY <2>1, <2>2 DEF Row
<1>7. Rows(t, ids) \in [Entity -> Row \cup {Absent}]
  <2> SUFFICES ASSUME NEW e \in Entity PROVE Rows(t, ids)[e] \in Row \cup {Absent}
    OBVIOUS
  <2>1. PlainRow(t) \in Row
    BY PlainRowType, SecondsType
  <2> HIDE DEF created, field, old
  <2> QED
    BY <1>4, <1>6, <2>1
<1>8. \A e \in Entity : s.rows[e] # Absent /\ Rows(t, ids)[e] = Absent =>
          e \in old \ X /\ Removable(e)
  <2> SUFFICES ASSUME NEW e \in Entity, s.rows[e] # Absent, Rows(t, ids)[e] = Absent
               PROVE  e \in old \ X /\ Removable(e)
    OBVIOUS
  <2>1. PlainRow(t) # Absent
    BY PlainRowType, SecondsType, AbsentAssumption
  <2>2. [ver |-> ids[n], at |-> t, field |-> field, state |-> "visible"] # Absent
    BY <1>6, AbsentAssumption
  <2>3. e \in old \ X
    <3> HIDE DEF created, field, old
    <3> QED
      BY <2>1, <2>2
  <2>4. TableOf[e] = NoteTags
    BY <2>3 DEF TagsOf
  <2>5. Removable(e)
    BY <2>4, RemovableTables
  <2> QED
    BY <2>3, <2>5
<1>9. NotesFollow(s.rows, S, ids, Rows(t, ids))
  <2> SUFFICES ASSUME NEW m \in RowsIn(Notes)
               PROVE  IF m \in S THEN Rows(t, ids)[m] # Absent /\ Rows(t, ids)[m].ver = ids[m]
                      ELSE SameNote(s.rows[m], Rows(t, ids)[m])
    BY DEF NotesFollow
  <2>1. m \in Entity /\ TableOf[m] = Notes
    BY DEF RowsIn
  <2>2. m \notin created \cup X \cup old
    <3>1. \A e \in TagsOf(n) : TableOf[e] = NoteTags
      BY DEF TagsOf
    <3>2. \A e \in created : TableOf[e] \in {Fields, Tags}
      BY DEF NewTags, RowsIn
    <3> HIDE DEF created
    <3> QED
      BY <2>1, <3>1, <3>2, TablesDiffer
  <2> DEFINE note == [ver |-> ids[n], at |-> t, field |-> field, state |-> "visible"]
  <2>3. note # Absent /\ note.ver = ids[n]
    BY <1>6, AbsentAssumption
  <2>4. Rows(t, ids)[m] = IF m = n THEN note ELSE s.rows[m]
    <3>1. PICK r : r = note
      OBVIOUS
    <3>2. Rows(t, ids)[m] = CASE m = n -> r
                              [] m \in created \cup (X \ old) -> PlainRow(t)
                              [] m \in old \ X -> Absent
                              [] OTHER -> s.rows[m]
      BY <2>1, <3>1
    <3> HIDE DEF created, old, note, Rows
    <3> QED
      BY <2>2, <3>1, <3>2
  <2>5. m \in S <=> m = n
    <3> HIDE DEF created, old
    <3> QED
      BY <2>2
  <2> HIDE DEF S, Rows, note
  <2> QED
    BY <2>3, <2>4, <2>5 DEF SameNote
<1>10. Commits(d, t, S, ids, Rows(t, ids), old \ X)
  <2> HIDE DEF Rows, created
  <2> QED
    BY <1>1, <1>5, <1>7, <1>8, <1>9 DEF Commits
<1> QED
  BY <1>10

LEMMA HideNoteCommits ==
    ASSUME TypeOK, NEW d \in Device, NEW n \in RowsIn(Notes),
           NEW state \in {"archived", "deleted"}, HideNote(d, n, state)
    PROVE  \E t, S, ids, rows, tombstones : Commits(d, t, S, ids, rows, tombstones)
<1> DEFINE s == db[d]
           Rows(t, ids) == [s.rows EXCEPT ![n].ver = ids[n], ![n].at = t,
                                          ![n].state = state]
           gone == IF state = "deleted" THEN {n} ELSE {}
<1>1. PICK t \in Seconds, ids \in Stamps({n}) : Commit(d, t, ids, Rows(t, ids), gone)
  BY DEF HideNote
<1>2. n \in Entity /\ s.rows \in [Entity -> Row \cup {Absent}] /\ s.rows[n] \in Row
  BY DEF RowsIn, TypeOK, Snapshot, HideNote, Visible
<1>3. ids[n] \in Nat /\ t \in Nat
  BY StampType, SecondsType
<1> DEFINE hidden == [s.rows[n] EXCEPT !.ver = ids[n], !.at = t, !.state = state]
<1>4. hidden \in Row
  BY <1>2, <1>3 DEF Row
<1>5. Rows(t, ids) = [s.rows EXCEPT ![n] = hidden]
  BY <1>2
<1>6. Rows(t, ids) \in [Entity -> Row \cup {Absent}]
  <2> HIDE DEF Rows, hidden
  <2> QED
    BY <1>2, <1>4, <1>5
<1>7. \A e \in Entity : s.rows[e] # Absent => Rows(t, ids)[e] # Absent
  <2> HIDE DEF Rows, hidden
  <2> QED
    BY <1>2, <1>4, <1>5, AbsentAssumption
<1>8. NotesFollow(s.rows, {n}, ids, Rows(t, ids))
  <2>1. hidden.ver = ids[n] /\ hidden # Absent
    BY <1>2, <1>4, AbsentAssumption DEF Row
  <2> HIDE DEF Rows, hidden
  <2> QED
    BY <1>2, <1>5, <2>1 DEF NotesFollow, SameNote, RowsIn
<1>9. Commits(d, t, {n}, ids, Rows(t, ids), gone)
  <2> HIDE DEF Rows
  <2> QED
    BY <1>1, <1>2, <1>6, <1>7, <1>8 DEF Commits
<1> QED
  BY <1>9

\* Clearing the field of some notes and dropping fields keeps rows well typed.
LEMMA WithoutFieldsType ==
    ASSUME NEW rows \in [Entity -> Row \cup {Absent}], NEW fs
    PROVE  /\ WithoutFields(rows, fs) \in [Entity -> Row \cup {Absent}]
           /\ \A e \in Entity : rows[e] # Absent /\ WithoutFields(rows, fs)[e] = Absent
                  => e \in fs
           /\ \A e \in Entity \ fs : SameNote(rows[e], WithoutFields(rows, fs)[e])
<1>1. \A e \in Entity : rows[e] # Absent => [rows[e] EXCEPT !.field = NoField] \in Row
  BY DEF Row
<1>2. \A e \in Entity : WithoutFields(rows, fs)[e] =
          IF e \in fs THEN Absent
          ELSE IF rows[e] # Absent /\ rows[e].field \in fs
               THEN [rows[e] EXCEPT !.field = NoField]
               ELSE rows[e]
  BY DEF WithoutFields
<1>3. WithoutFields(rows, fs) \in [Entity -> Row \cup {Absent}]
  BY <1>1 DEF WithoutFields
<1>4. \A e \in Entity \ fs : SameNote(rows[e], WithoutFields(rows, fs)[e])
  <2> SUFFICES ASSUME NEW e \in Entity \ fs, rows[e] # Absent, rows[e].field \in fs
               PROVE  SameNote(rows[e], WithoutFields(rows, fs)[e])
    BY <1>2 DEF SameNote
  <2>1. rows[e] \in Row
    OBVIOUS
  <2>2. [rows[e] EXCEPT !.field = NoField].ver = rows[e].ver
    BY <2>1 DEF Row
  <2> QED
    BY <1>1, <1>2, <2>2, AbsentAssumption DEF SameNote
<1> QED
  BY <1>1, <1>2, <1>3, <1>4, AbsentAssumption

LEMMA DeleteFieldCommits ==
    ASSUME TypeOK, NEW d \in Device, NEW f \in RowsIn(Fields), DeleteField(d, f)
    PROVE  \E t, S, ids, rows, tombstones : Commits(d, t, S, ids, rows, tombstones)
<1> DEFINE rows == WithoutFields(db[d].rows, {f})
<1>1. PICK t \in Seconds, ids \in Stamps({f}) : Commit(d, t, ids, rows, {f})
  BY DEF DeleteField
<1>2. f \in Entity /\ Removable(f)
  BY RemovableTables DEF RowsIn
<1>3. db[d].rows \in [Entity -> Row \cup {Absent}]
  BY DEF TypeOK, Snapshot
<1>4. NotesFollow(db[d].rows, {f}, ids, rows)
  <2>1. \A n \in RowsIn(Notes) : n \in Entity \ {f}
    BY TablesDiffer DEF RowsIn
  <2> QED
    BY <1>3, <2>1, WithoutFieldsType DEF NotesFollow
<1>5. Commits(d, t, {f}, ids, rows, {f})
  BY <1>1, <1>2, <1>3, <1>4, WithoutFieldsType DEF Commits
<1> QED
  BY <1>5

LEMMA AddTagCommits ==
    ASSUME TypeOK, NEW d \in Device, NEW n \in RowsIn(Notes), NEW x \in TagsOf(n),
           AddTag(d, n, x)
    PROVE  \E t, S, ids, rows, tombstones : Commits(d, t, S, ids, rows, tombstones)
<1> DEFINE created == {x} \cup NewTags(db[d], {x})
           Rows(t) == [e \in Entity |-> IF e \in created THEN PlainRow(t)
                                        ELSE db[d].rows[e]]
<1>1. PICK t \in Seconds, ids \in Stamps(created) : Commit(d, t, ids, Rows(t), {})
  BY DEF AddTag
<1>2. created \in SUBSET Entity
  BY ParentsAssumption DEF TagsOf, NewTags
<1>3. db[d].rows \in [Entity -> Row \cup {Absent}]
  BY DEF TypeOK, Snapshot
<1>4. PlainRow(t) \in Row
  BY PlainRowType, SecondsType
<1> HIDE DEF created
<1>5. Rows(t) \in [Entity -> Row \cup {Absent}]
  BY <1>3, <1>4
<1>6. \A e \in Entity : db[d].rows[e] # Absent => Rows(t)[e] # Absent
  BY <1>4, AbsentAssumption
<1>7. NotesFollow(db[d].rows, created, ids, Rows(t))
  <2>1. \A e \in created : TableOf[e] \in {NoteTags, Tags}
    BY DEF created, TagsOf, NewTags
  <2> QED
    BY <2>1, TablesDiffer DEF NotesFollow, SameNote, RowsIn
<1>8. Commits(d, t, created, ids, Rows(t), {})
  <2> HIDE DEF Rows
  <2> QED
    BY <1>1, <1>2, <1>5, <1>6, <1>7 DEF Commits
<1> QED
  BY <1>8

LEMMA RemoveTagCommits ==
    ASSUME TypeOK, NEW d \in Device, NEW n \in RowsIn(Notes), NEW x \in TagsOf(n),
           RemoveTag(d, n, x)
    PROVE  \E t, S, ids, rows, tombstones : Commits(d, t, S, ids, rows, tombstones)
<1> DEFINE rows == [db[d].rows EXCEPT ![x] = Absent]
<1>1. PICK t \in Seconds, ids \in Stamps({x}) : Commit(d, t, ids, rows, {x})
  BY DEF RemoveTag
<1>2. x \in Entity /\ Removable(x)
  BY RemovableTables DEF TagsOf
<1>3. db[d].rows \in [Entity -> Row \cup {Absent}]
  BY DEF TypeOK, Snapshot
<1>4. NotesFollow(db[d].rows, {x}, ids, rows)
  <2>1. \A m \in RowsIn(Notes) : m \in Entity \ {x}
    BY TablesDiffer DEF RowsIn, TagsOf
  <2> QED
    BY <1>3, <2>1 DEF NotesFollow, SameNote
<1>5. Commits(d, t, {x}, ids, rows, {x})
  BY <1>1, <1>2, <1>3, <1>4 DEF Commits
<1> QED
  BY <1>5

LEMMA EditCommits ==
    ASSUME TypeOK, NEW d \in Device, Edit(d)
    PROVE  \E t, S, ids, rows, tombstones : Commits(d, t, S, ids, rows, tombstones)
BY WriteNoteCommits, HideNoteCommits, DeleteFieldCommits, AddTagCommits,
   RemoveTagCommits DEF Edit

LEMMA EditKeepsFactsInv ==
    ASSUME FactsInv, NEW d \in Device, Edit(d)
    PROVE  FactsInv'
<1>1. PICK t, S, ids, rows, tombstones : Commits(d, t, S, ids, rows, tombstones)
  BY EditCommits DEF FactsInv
<1> QED
  BY <1>1, CommitKeepsFactsInv DEF Commits

-----------------------------------------------------------------------------
\* Cycles.

LEMMA EmptySnapshotType == EmptySnapshot \in Snapshot /\ EmptySnapshot.log = {}
BY DEF EmptySnapshot, Snapshot

\* A cycle step copies facts: what is recorded anywhere does not change.
LEMMA CopyingKeepsFactsInv ==
    ASSUME FactsInv, Recorded' = Recorded, now' = now,
           TypeOK', PhaseOfKind', KnownFactsAreStored'
    PROVE  FactsInv'
BY DEF FactsInv, RecordedBounded

LEMMA AdvanceType ==
    ASSUME TypeOK, PhaseOfKind, NEW c \in Cycle, pc[c] \in Writing, Advance(c)
    PROVE  /\ pc' \in [Cycle -> Phase]
           /\ cursor' \in [Cycle -> Table]
           /\ PhaseOfKind'
           /\ UNCHANGED <<kind, local, cloud, result, aborts>>
<1>1. pc' = [pc EXCEPT ![c] = NextPhase[kind[c]][pc[c]]]
      /\ cursor' = [cursor EXCEPT ![c] = FirstTable]
      /\ UNCHANGED <<kind, local, cloud, result, aborts>>
  BY DEF Advance, Put
<1>2. NextPhase[kind[c]][pc[c]] \in Phase \cap PhasesOf(kind[c])
  BY NextPhaseType DEF TypeOK, PhaseOfKind
<1>3. pc' \in [Cycle -> Phase] /\ cursor' \in [Cycle -> Table]
  BY <1>1, <1>2, FirstTableType DEF TypeOK
<1>4. PhaseOfKind'
  BY <1>1, <1>2 DEF PhaseOfKind, TypeOK
<1> QED
  BY <1>1, <1>3, <1>4

LEMMA FinishKeepsFactsInv ==
    ASSUME FactsInv, NEW c \in Cycle, NEW outcome \in Outcome,
           Finish(c, outcome), UNCHANGED <<db, remote, now>>,
           aborts' \in 0 .. MaxAborts
    PROVE  FactsInv'
<1>1. /\ pc' = [pc EXCEPT ![c] = "idle"]
      /\ cursor' = [cursor EXCEPT ![c] = FirstTable]
      /\ local' = [local EXCEPT ![c] = EmptySnapshot]
      /\ cloud' = [cloud EXCEPT ![c] = EmptySnapshot]
      /\ todo' = [todo EXCEPT ![c] = {}]
      /\ result' = [result EXCEPT ![c] = outcome]
      /\ kind' = kind
  BY DEF Finish, Put
<1>2. TypeOK'
  <2>1. "idle" \in Phase
    BY DEF Phase
  <2> QED
    BY <1>1, <2>1, FirstTableType, EmptySnapshotType DEF FactsInv, TypeOK
<1>3. PhaseOfKind'
  BY <1>1 DEF FactsInv, TypeOK, PhaseOfKind, PhasesOf
<1>4. Recorded' = Recorded
  BY DEF Recorded
<1>5. KnownFactsAreStored'
  BY <1>1, <1>4, EmptySnapshotType DEF FactsInv, TypeOK, KnownFactsAreStored
<1> QED
  BY <1>2, <1>3, <1>4, <1>5, CopyingKeepsFactsInv

LEMMA FailKeepsFactsInv ==
    ASSUME FactsInv, NEW c \in Cycle, Fail(c)
    PROVE  FactsInv'
BY FinishKeepsFactsInv DEF Fail, Outcome, FactsInv, TypeOK

LEMMA StartKeepsFactsInv ==
    ASSUME FactsInv, NEW c \in Cycle, NEW k \in Kinds[c], Start(c, k)
    PROVE  FactsInv'
<1>1. k \in Kind
  BY KindsAssumption
<1>2. /\ pc' = [pc EXCEPT ![c] = "readLocal"]
      /\ kind' = [kind EXCEPT ![c] = k]
      /\ result' = [result EXCEPT ![c] = "none"]
      /\ UNCHANGED <<db, now, remote, cursor, local, cloud, todo, aborts>>
  BY DEF Start, Put, dbVars
<1>3. TypeOK'
  BY <1>1, <1>2 DEF FactsInv, TypeOK, Phase, Outcome
<1>4. PhaseOfKind'
  BY <1>2 DEF FactsInv, TypeOK, PhaseOfKind, PhasesOf
<1>5. Recorded' = Recorded /\ KnownFactsAreStored'
  BY <1>2 DEF Recorded, FactsInv, KnownFactsAreStored
<1> QED
  BY <1>2, <1>3, <1>4, <1>5, CopyingKeepsFactsInv

LEMMA WithTableType ==
    ASSUME NEW held \in Snapshot, NEW s \in Snapshot, NEW t,
           held.log \subseteq s.log
    PROVE  /\ WithTable(held, s, t) \in Snapshot
           /\ WithTable(held, s, t).log \subseteq s.log
BY DEF WithTable, Snapshot

\* A read moves to the next table or phase of the same cycle.
LEMMA ReadOnType ==
    ASSUME TypeOK, PhaseOfKind, NEW c \in Cycle,
           NEW phase \in {"readRemote", "decide", "verifyRemote", "judge"},
           ReadOn(c, phase), kind' = kind
    PROVE  /\ pc' \in [Cycle -> Phase]
           /\ cursor' \in [Cycle -> Table]
           /\ PhaseOfKind'
<1>1. CASE cursor[c] = SyncChanges
  <2>1. /\ pc' = [pc EXCEPT ![c] = phase]
        /\ cursor' = [cursor EXCEPT ![c] = FirstTable]
    BY <1>1 DEF ReadOn, Put
  <2>2. phase \in Phase /\ phase \in PhasesOf(kind[c])
    BY DEF Phase, PhasesOf
  <2> QED
    BY <2>1, <2>2, FirstTableType DEF TypeOK, PhaseOfKind
<1>2. CASE cursor[c] # SyncChanges
  <2>1. pc' = pc /\ cursor' = [cursor EXCEPT ![c] = TableAfter(cursor[c])]
    BY <1>2 DEF ReadOn, Put
  <2>2. TableAfter(cursor[c]) \in Table
    BY <1>2, TableAfterType DEF TypeOK
  <2> QED
    BY <2>1, <2>2 DEF TypeOK, PhaseOfKind
<1> QED
  BY <1>1, <1>2

LEMMA ReadLocalKeepsFactsInv ==
    ASSUME FactsInv, NEW c \in Cycle, ReadLocal(c)
    PROVE  FactsInv'
<1> DEFINE read == WithTable(local[c], db[Owner[c]], cursor[c])
<1>1. /\ local' = [local EXCEPT ![c] = read]
      /\ UNCHANGED <<db, now, remote, kind, cloud, todo, result, aborts>>
  BY DEF ReadLocal, Put, dbVars
<1>2. read \in Snapshot /\ read.log \subseteq db[Owner[c]].log
  BY WithTableType, OwnerAssumption DEF FactsInv, TypeOK, KnownFactsAreStored
<1>3. pc' \in [Cycle -> Phase] /\ cursor' \in [Cycle -> Table] /\ PhaseOfKind'
  BY <1>1, ReadOnType DEF ReadLocal, FactsInv
<1>4. TypeOK'
  BY <1>1, <1>2, <1>3 DEF FactsInv, TypeOK
<1>5. Recorded' = Recorded
  BY <1>1 DEF Recorded
<1>6. KnownFactsAreStored'
  BY <1>1, <1>2, <1>5 DEF FactsInv, TypeOK, KnownFactsAreStored
<1> QED
  BY <1>1, <1>3, <1>4, <1>5, <1>6, CopyingKeepsFactsInv

LEMMA ReadRemoteKeepsFactsInv ==
    ASSUME FactsInv, NEW c \in Cycle, ReadRemote(c)
    PROVE  FactsInv'
<1> DEFINE read == WithTable(cloud[c], remote, cursor[c])
<1>1. /\ cloud' = [cloud EXCEPT ![c] = read]
      /\ UNCHANGED <<db, now, remote, kind, local, todo, result, aborts>>
  BY DEF ReadRemote, Put, dbVars
<1>2. read \in Snapshot /\ read.log \subseteq remote.log
  BY WithTableType DEF FactsInv, TypeOK, KnownFactsAreStored
<1>3. pc' \in [Cycle -> Phase] /\ cursor' \in [Cycle -> Table] /\ PhaseOfKind'
  BY <1>1, ReadOnType DEF ReadRemote, FactsInv
<1>4. TypeOK'
  BY <1>1, <1>2, <1>3 DEF FactsInv, TypeOK
<1>5. Recorded' = Recorded
  BY <1>1 DEF Recorded
<1>6. KnownFactsAreStored'
  BY <1>1, <1>2, <1>5 DEF FactsInv, TypeOK, KnownFactsAreStored
<1> QED
  BY <1>1, <1>3, <1>4, <1>5, <1>6, CopyingKeepsFactsInv

LEMMA DecideKeepsFactsInv ==
    ASSUME FactsInv, NEW c \in Cycle, Decide(c)
    PROVE  FactsInv'
<1>1. CASE HasConflicts(local[c], cloud[c])
  <2>1. Finish(c, "conflict") /\ UNCHANGED <<db, now, remote, aborts>>
    BY <1>1 DEF Decide, dbVars
  <2> QED
    BY <2>1, FinishKeepsFactsInv DEF Outcome, FactsInv, TypeOK
<1>2. CASE ~HasConflicts(local[c], cloud[c])
  <2>1. /\ Advance(c)
        /\ todo' = [todo EXCEPT ![c] = DeleteRemote(local[c], cloud[c])]
        /\ UNCHANGED <<db, now, remote>>
    BY <1>2 DEF Decide, Put, dbVars
  <2>2. /\ pc' \in [Cycle -> Phase]
        /\ cursor' \in [Cycle -> Table]
        /\ PhaseOfKind'
        /\ UNCHANGED <<kind, local, cloud, result, aborts>>
    BY <2>1, AdvanceType DEF FactsInv, Decide, Writing
  <2>3. DeleteRemote(local[c], cloud[c]) \in SUBSET Entity
    BY DEF DeleteRemote
  <2>4. TypeOK'
    BY <2>1, <2>2, <2>3 DEF FactsInv, TypeOK
  <2>5. Recorded' = Recorded /\ KnownFactsAreStored'
    BY <2>1, <2>2 DEF Recorded, FactsInv, KnownFactsAreStored
  <2> QED
    BY <2>1, <2>2, <2>4, <2>5, CopyingKeepsFactsInv
<1> QED
  BY <1>1, <1>2

\* What a task holds is bounded by what is recorded.
LEMMA HeldFactsBounded ==
    ASSUME FactsInv, NEW c \in Cycle
    PROVE  /\ Bounded(local[c].log, now + MaxFacts)
           /\ Bounded(cloud[c].log, now + MaxFacts)
           /\ now + MaxFacts \in Nat
<1>1. local[c].log \subseteq Recorded /\ cloud[c].log \subseteq Recorded
  BY OwnerAssumption DEF FactsInv, KnownFactsAreStored, Recorded
<1> QED
  BY <1>1, BoundsAssumption DEF FactsInv, TypeOK, RecordedBounded, Bounded

\* The facts a cycle copies come from the snapshot of the other side.
LEMMA CopiedFactsAreHeld ==
    ASSUME FactsInv, NEW c \in Cycle
    PROVE  /\ FactsLocal(local[c], cloud[c]) \subseteq cloud[c].log
           /\ FactsRemote(local[c], cloud[c]) \subseteq local[c].log
<1>1. local[c] \in Snapshot /\ cloud[c] \in Snapshot
  BY DEF FactsInv, TypeOK
<1> QED
  BY <1>1, HeldFactsBounded, FactsLocalAreRemote, FactsRemoteAreLocal

LEMMA OverwriteType ==
    ASSUME NEW rows \in [Entity -> Row \cup {Absent}], NEW E, NEW s \in Snapshot
    PROVE  Overwrite(rows, E, s) \in [Entity -> Row \cup {Absent}]
BY DEF Overwrite, Snapshot

LEMMA WriteLocalKeepsFactsInv ==
    ASSUME FactsInv, NEW c \in Cycle, WriteLocal(c)
    PROVE  FactsInv'
<1> DEFINE d == Owner[c]
           E == UpsertLocal(local[c], cloud[c])
           rows == Overwrite(db[d].rows, E, cloud[c])
           facts == FactsLocal(local[c], cloud[c])
<1>1. CASE ~ReferencesHold(rows, E)
  BY <1>1, FailKeepsFactsInv DEF WriteLocal
<1>2. CASE ReferencesHold(rows, E)
  <2>1. /\ db' = [db EXCEPT ![d] = [rows |-> rows, log |-> db[d].log \cup facts]]
        /\ Advance(c)
        /\ UNCHANGED <<remote, now, todo>>
    BY <1>2 DEF WriteLocal
  <2>2. /\ pc' \in [Cycle -> Phase]
        /\ cursor' \in [Cycle -> Table]
        /\ PhaseOfKind'
        /\ UNCHANGED <<kind, local, cloud, result, aborts>>
    BY <2>1, AdvanceType DEF FactsInv, WriteLocal, Writing
  <2>3. d \in Device /\ db[d] \in Snapshot /\ cloud[c] \in Snapshot
    BY OwnerAssumption DEF FactsInv, TypeOK
  <2>4. facts \subseteq remote.log /\ remote.log \subseteq Recorded
    BY CopiedFactsAreHeld DEF FactsInv, KnownFactsAreStored
  <2>5. rows \in [Entity -> Row \cup {Absent}]
    BY <2>3, OverwriteType DEF Snapshot
  <2>6. [rows |-> rows, log |-> db[d].log \cup facts] \in Snapshot
    BY <2>3, <2>4, <2>5 DEF Snapshot, FactsInv, TypeOK
  <2>7. TypeOK'
    BY <2>1, <2>2, <2>3, <2>6 DEF FactsInv, TypeOK
  <2>8. \A e \in Device : db'[e].log = IF e = d THEN db[d].log \cup facts ELSE db[e].log
    BY <2>1, <2>3 DEF FactsInv, TypeOK
  <2>9. Recorded' = Recorded
    BY <2>3, <2>4, <2>8 DEF Recorded
  <2>10. KnownFactsAreStored'
    BY <2>1, <2>2, <2>8, <2>9, OwnerAssumption DEF FactsInv, KnownFactsAreStored
  <2> QED
    BY <2>1, <2>2, <2>7, <2>9, <2>10, CopyingKeepsFactsInv
<1> QED
  BY <1>1, <1>2

LEMMA WriteRemoteKeepsFactsInv ==
    ASSUME FactsInv, NEW c \in Cycle, WriteRemote(c)
    PROVE  FactsInv'
<1> DEFINE t == cursor[c]
           E == {e \in UpsertRemote(local[c], cloud[c]) : TableOf[e] = t}
           rows == Overwrite(remote.rows, E, local[c])
           facts == FactsRemote(local[c], cloud[c])
           log == IF t = SyncChanges THEN remote.log \cup facts ELSE remote.log
<1>1. CASE ~ReferencesHold(rows, E)
  BY <1>1, FailKeepsFactsInv DEF WriteRemote
<1>2. CASE ReferencesHold(rows, E)
  <2>1. /\ remote' = [rows |-> rows, log |-> log]
        /\ IF t = SyncChanges THEN Advance(c)
           ELSE /\ cursor' = [cursor EXCEPT ![c] = TableAfter(t)]
                /\ UNCHANGED <<pc, kind, local, cloud, result, aborts>>
        /\ UNCHANGED <<db, now, todo>>
    BY <1>2 DEF WriteRemote, Put, dbVars
  <2>2. /\ pc' \in [Cycle -> Phase]
        /\ cursor' \in [Cycle -> Table]
        /\ PhaseOfKind'
        /\ UNCHANGED <<kind, local, cloud, result, aborts>>
    <3>1. CASE t = SyncChanges
      BY <2>1, <3>1, AdvanceType DEF FactsInv, WriteRemote, Writing
    <3>2. CASE t # SyncChanges
      BY <2>1, <3>2, TableAfterType DEF FactsInv, TypeOK, PhaseOfKind
    <3> QED
      BY <3>1, <3>2
  <2>3. remote \in Snapshot /\ local[c] \in Snapshot
    BY DEF FactsInv, TypeOK
  <2>4. facts \subseteq Recorded /\ facts \in SUBSET Fact
    BY <2>3, CopiedFactsAreHeld, OwnerAssumption
       DEF FactsInv, KnownFactsAreStored, Recorded, Snapshot
  <2>5. rows \in [Entity -> Row \cup {Absent}]
    BY <2>3, OverwriteType DEF Snapshot
  <2>6. remote' \in Snapshot /\ remote.log \subseteq remote'.log
        /\ remote'.log \subseteq remote.log \cup facts
    BY <2>1, <2>3, <2>4, <2>5 DEF Snapshot
  <2>7. TypeOK'
    BY <2>1, <2>2, <2>6 DEF FactsInv, TypeOK
  <2>8. Recorded' = Recorded
    BY <2>1 DEF Recorded
  <2>9. KnownFactsAreStored'
    BY <2>1, <2>2, <2>4, <2>6, <2>8 DEF FactsInv, KnownFactsAreStored
  <2> QED
    BY <2>1, <2>2, <2>7, <2>8, <2>9, CopyingKeepsFactsInv
<1> QED
  BY <1>1, <1>2

LEMMA DeleteLocalRowsKeepsFactsInv ==
    ASSUME FactsInv, NEW c \in Cycle, DeleteLocalRows(c)
    PROVE  FactsInv'
<1> DEFINE d == Owner[c]
           E == DeleteLocal(local[c], cloud[c])
           fs == {f \in E : TableOf[f] = Fields}
           left == WithoutFields(db[d].rows, fs)
           rows == [e \in Entity |-> IF e \in E THEN Absent ELSE left[e]]
<1>1. CASE ~(\A f \in fs : ~InUse(db[d], f))
  BY <1>1, FailKeepsFactsInv DEF DeleteLocalRows
<1>2. CASE \A f \in fs : ~InUse(db[d], f)
  <2>1. /\ db' = [db EXCEPT ![d].rows = rows]
        /\ Advance(c)
        /\ UNCHANGED <<remote, now, todo>>
    BY <1>2 DEF DeleteLocalRows
  <2>2. /\ pc' \in [Cycle -> Phase]
        /\ cursor' \in [Cycle -> Table]
        /\ PhaseOfKind'
        /\ UNCHANGED <<kind, local, cloud, result, aborts>>
    BY <2>1, AdvanceType DEF FactsInv, DeleteLocalRows, Writing
  <2>3. d \in Device /\ db \in [Device -> Snapshot] /\ db[d] \in Snapshot
    BY OwnerAssumption DEF FactsInv, TypeOK
  <2>4. rows \in [Entity -> Row \cup {Absent}]
    <3>1. left \in [Entity -> Row \cup {Absent}]
      BY <2>3, WithoutFieldsType DEF Snapshot
    <3> HIDE DEF left, E
    <3> QED
      BY <3>1
  <2>5. db' = [db EXCEPT ![d] = [rows |-> rows, log |-> db[d].log]]
    <3> HIDE DEF rows
    <3>1. [db[d] EXCEPT !.rows = rows] = [rows |-> rows, log |-> db[d].log]
      BY <2>3 DEF Snapshot
    <3>2. db' = [db EXCEPT ![d] = [db[d] EXCEPT !.rows = rows]]
      BY <2>1
    <3> QED
      BY <3>1, <3>2
  <2>6. [rows |-> rows, log |-> db[d].log] \in Snapshot
    BY <2>3, <2>4 DEF Snapshot
  <2>7. TypeOK'
    BY <2>1, <2>2, <2>3, <2>5, <2>6 DEF FactsInv, TypeOK
  <2>8. \A e \in Device : db'[e].log = db[e].log
    BY <2>3, <2>5
  <2>9. Recorded' = Recorded
    BY <2>8 DEF Recorded
  <2>10. KnownFactsAreStored'
    BY <2>1, <2>2, <2>8, <2>9, OwnerAssumption DEF FactsInv, KnownFactsAreStored
  <2> QED
    BY <2>1, <2>2, <2>7, <2>9, <2>10, CopyingKeepsFactsInv
<1> QED
  BY <1>1, <1>2

LEMMA DeleteRemoteRowKeepsFactsInv ==
    ASSUME FactsInv, NEW c \in Cycle, NEW e \in Entity, DeleteRemoteRow(c, e)
    PROVE  FactsInv'
<1>1. CASE NotesWith(remote, e) # {}
  BY <1>1, FailKeepsFactsInv DEF DeleteRemoteRow
<1>2. CASE NotesWith(remote, e) = {}
  <2>1. /\ remote' = [remote EXCEPT !.rows[e] = Absent]
        /\ todo' = [todo EXCEPT ![c] = todo[c] \ {e}]
        /\ UNCHANGED <<db, now, pc, kind, cursor, local, cloud, result, aborts>>
    BY <1>2 DEF DeleteRemoteRow, Put, dbVars
  <2>2. remote' \in Snapshot /\ remote'.log = remote.log
    BY <2>1 DEF FactsInv, TypeOK, Snapshot
  <2>3. TypeOK'
    BY <2>1, <2>2 DEF FactsInv, TypeOK
  <2>4. PhaseOfKind'
    BY <2>1 DEF FactsInv, PhaseOfKind
  <2>5. Recorded' = Recorded
    BY <2>1 DEF Recorded
  <2>6. KnownFactsAreStored'
    BY <2>1, <2>2, <2>5 DEF FactsInv, KnownFactsAreStored
  <2> QED
    BY <2>1, <2>3, <2>4, <2>5, <2>6, CopyingKeepsFactsInv
<1> QED
  BY <1>1, <1>2

LEMMA DeletedRemoteKeepsFactsInv ==
    ASSUME FactsInv, NEW c \in Cycle, DeletedRemote(c)
    PROVE  FactsInv'
<1>1. Advance(c) /\ UNCHANGED <<db, now, remote, todo>>
  BY DEF DeletedRemote, dbVars
<1>2. /\ pc' \in [Cycle -> Phase]
      /\ cursor' \in [Cycle -> Table]
      /\ PhaseOfKind'
      /\ UNCHANGED <<kind, local, cloud, result, aborts>>
  BY <1>1, AdvanceType DEF FactsInv, DeletedRemote, Writing
<1>3. TypeOK'
  BY <1>1, <1>2 DEF FactsInv, TypeOK
<1>4. Recorded' = Recorded /\ KnownFactsAreStored'
  BY <1>1, <1>2 DEF Recorded, FactsInv, KnownFactsAreStored
<1> QED
  BY <1>1, <1>2, <1>3, <1>4, CopyingKeepsFactsInv

LEMMA JudgeKeepsFactsInv ==
    ASSUME FactsInv, NEW c \in Cycle, Judge(c)
    PROVE  FactsInv'
BY FinishKeepsFactsInv DEF Judge, Outcome, FactsInv, TypeOK, dbVars

LEMMA AbortKeepsFactsInv ==
    ASSUME FactsInv, NEW c \in Cycle, Abort(c)
    PROVE  FactsInv'
<1>1. Finish(c, "failed") /\ UNCHANGED <<db, now, remote>>
  BY DEF Abort, dbVars
<1>2. aborts' \in 0 .. MaxAborts
  BY BoundsAssumption DEF Abort, FactsInv, TypeOK
<1> QED
  BY <1>1, <1>2, FinishKeepsFactsInv DEF Outcome

-----------------------------------------------------------------------------
\* The invariant.

\* No fact of the seeds is later than their latest one.
LEMMA SeedSecondType == SeedSecond \in Nat /\ \A c \in SeedFacts : c.at <= SeedSecond
<1>1. \A c \in SeedFacts : c.at \in Nat /\ c.at <= MaxFacts
  BY SeedAssumption DEF SeedFacts, Snapshot, Fact
<1>2. CASE SeedFacts = {}
  BY <1>2 DEF SeedSecond
<1>3. CASE SeedFacts # {}
  <2> DEFINE Times == {c.at : c \in SeedFacts}
  <2>1. Times \in SUBSET Nat /\ Times # {} /\ \A t \in Times : t <= MaxFacts
    BY <1>1, <1>3
  <2>2. PICK m \in Times : \A t \in Times : t <= m
    <3> HIDE DEF Times
    <3> QED
      BY <2>1, BoundsAssumption, GreatestNatural
  <2>3. m \in 0 .. MaxFacts /\ \E c \in SeedFacts : c.at = m
    BY <2>1, <2>2, BoundsAssumption
  <2>4. \A c \in SeedFacts : c.at <= m
    BY <2>2
  <2> HIDE DEF Times
  <2>5. \E t \in 0 .. MaxFacts : /\ \E c \in SeedFacts : c.at = t
                                 /\ \A c \in SeedFacts : c.at <= t
    BY <2>3, <2>4
  <2> QED
    BY <1>3, <2>5, BoundsAssumption DEF SeedSecond
<1> QED
  BY <1>2, <1>3

LEMMA InitFactsInv == Init => FactsInv
<1> SUFFICES ASSUME Init PROVE FactsInv
  OBVIOUS
<1>1. TypeOK
  BY SeedAssumption, BoundsAssumption, FirstTableType, EmptySnapshotType,
     SeedSecondType DEF Init, TypeOK, Phase, Kind, Outcome
<1>2. PhaseOfKind
  BY DEF Init, PhaseOfKind, PhasesOf
<1>3. Recorded = SeedFacts
  BY DEF Init, Recorded, SeedFacts
<1>4. KnownFactsAreStored
  BY <1>3, SeedAssumption, EmptySnapshotType DEF Init, KnownFactsAreStored
<1>5. UniqueIds(Recorded)
  BY <1>3, SeedAssumption DEF UniqueIds
<1>6. RecordedBounded
  <2>1. \A c \in SeedFacts : c.id \in Nat /\ c.at \in Nat
    BY SeedAssumption DEF SeedFacts, Snapshot, Fact
  <2> QED
    BY <1>3, <2>1, SeedAssumption, SeedSecondType, BoundsAssumption
       DEF Init, RecordedBounded, Bounded
<1> QED
  BY <1>1, <1>2, <1>4, <1>5, <1>6 DEF FactsInv

LEMMA NextFactsInv == FactsInv /\ [Next]_vars => FactsInv'
<1> SUFFICES ASSUME FactsInv, [Next]_vars PROVE FactsInv'
  OBVIOUS
<1>1. ASSUME NEW d \in Device, Edit(d) PROVE FactsInv'
  BY <1>1, EditKeepsFactsInv
<1>2. ASSUME NEW c \in Cycle, NEW k \in Kinds[c], Start(c, k) PROVE FactsInv'
  BY <1>2, StartKeepsFactsInv
<1>3. ASSUME NEW c \in Cycle, CycleStep(c) PROVE FactsInv'
  BY <1>3, ReadLocalKeepsFactsInv, ReadRemoteKeepsFactsInv, DecideKeepsFactsInv,
     WriteLocalKeepsFactsInv, WriteRemoteKeepsFactsInv, DeleteLocalRowsKeepsFactsInv,
     DeleteRemoteRowKeepsFactsInv, DeletedRemoteKeepsFactsInv, JudgeKeepsFactsInv
     DEF CycleStep
<1>4. ASSUME NEW c \in Cycle, Abort(c) PROVE FactsInv'
  BY <1>4, AbortKeepsFactsInv
<1>5. CASE UNCHANGED vars
  BY <1>5 DEF vars, FactsInv, TypeOK, PhaseOfKind, KnownFactsAreStored, Recorded,
              RecordedBounded
<1> QED
  BY <1>1, <1>2, <1>3, <1>4, <1>5 DEF Next

LEMMA FactsInvHolds == Spec => []FactsInv
BY InitFactsInv, NextFactsInv, PTL DEF Spec

-----------------------------------------------------------------------------
\* Theorems.

\* Every variable keeps its type: a cycle always finds a next table and phase,
\* and copies rows and facts, never anything else.
THEOREM TypeCorrect == Spec => []TypeOK
<1>1. FactsInv => TypeOK
  BY DEF FactsInv
<1> QED
  BY <1>1, FactsInvHolds, PTL

\* What the remote database or a task holds is still stored where it came from.
THEOREM KnownFactsStored == Spec => []KnownFactsAreStored
<1>1. FactsInv => KnownFactsAreStored
  BY DEF FactsInv
<1> QED
  BY <1>1, FactsInvHolds, PTL

\* A change id names one fact, in every database and in every snapshot that a
\* task holds: compare_sync_changes never finds two facts under one id.
THEOREM FactsKeepTheirIdentity == Spec => []FactIdentity
<1>1. FactsInv => FactIdentity
  <2> SUFFICES ASSUME FactsInv PROVE FactIdentity
    OBVIOUS
  <2>1. HeldFacts \subseteq Recorded /\ remote.log \subseteq Recorded
    BY OwnerAssumption DEF FactsInv, KnownFactsAreStored, HeldFacts, Recorded
  <2> QED
    BY <2>1 DEF FactsInv, UniqueIds, FactIdentity
<1> QED
  BY <1>1, FactsInvHolds, PTL


\* A running cycle has not answered yet.
RunningHasNoResult == \A c \in Cycle : pc[c] # "idle" => result[c] = "none"

\* A step of a running cycle that does not end it keeps that.
LEMMA RunningStep ==
    ASSUME RunningHasNoResult, NEW c \in Cycle, pc[c] # "idle", result' = result,
           \A o \in Cycle \ {c} : pc'[o] = pc[o]
    PROVE  RunningHasNoResult'
BY DEF RunningHasNoResult

LEMMA FinishedStep ==
    ASSUME TypeOK, RunningHasNoResult, NEW c \in Cycle, NEW outcome,
           Finish(c, outcome)
    PROVE  RunningHasNoResult'
BY DEF RunningHasNoResult, TypeOK, Finish, Put

LEMMA AdvanceStep ==
    ASSUME TypeOK, RunningHasNoResult, NEW c \in Cycle, pc[c] # "idle", Advance(c)
    PROVE  RunningHasNoResult'
BY RunningStep DEF TypeOK, Advance, Put

LEMMA NextRunningHasNoResult ==
    TypeOK /\ RunningHasNoResult /\ [Next]_vars => RunningHasNoResult'
<1> SUFFICES ASSUME TypeOK, RunningHasNoResult, [Next]_vars
             PROVE  RunningHasNoResult'
  OBVIOUS
<1>1. ASSUME NEW d \in Device, Edit(d) PROVE RunningHasNoResult'
  BY <1>1, EditCommits DEF Commits, Commit, cycleVars, RunningHasNoResult
<1>2. ASSUME NEW c \in Cycle, NEW k \in Kinds[c], Start(c, k)
      PROVE  RunningHasNoResult'
  BY <1>2 DEF Start, Put, TypeOK, RunningHasNoResult
<1>3. ASSUME NEW c \in Cycle, CycleStep(c) PROVE RunningHasNoResult'
  <2>1. CASE ReadLocal(c)
    BY <2>1, RunningStep DEF ReadLocal, ReadOn, Put, TypeOK
  <2>2. CASE ReadRemote(c)
    BY <2>2, RunningStep DEF ReadRemote, ReadOn, Put, TypeOK
  <2>3. CASE Decide(c)
    BY <2>3, AdvanceStep, FinishedStep DEF Decide
  <2>4. CASE WriteLocal(c)
    BY <2>4, AdvanceStep, FinishedStep DEF WriteLocal, Fail
  <2>5. CASE WriteRemote(c)
    BY <2>5, AdvanceStep, FinishedStep, RunningStep DEF WriteRemote, Fail
  <2>6. CASE DeleteLocalRows(c)
    BY <2>6, AdvanceStep, FinishedStep DEF DeleteLocalRows, Fail
  <2>7. ASSUME NEW e \in Entity, DeleteRemoteRow(c, e) PROVE RunningHasNoResult'
    BY <2>7, FinishedStep, RunningStep DEF DeleteRemoteRow, Fail
  <2>8. CASE DeletedRemote(c)
    BY <2>8, AdvanceStep DEF DeletedRemote
  <2>9. CASE Judge(c)
    BY <2>9, FinishedStep DEF Judge
  <2> QED
    BY <1>3, <2>1, <2>2, <2>3, <2>4, <2>5, <2>6, <2>7, <2>8, <2>9 DEF CycleStep
<1>4. ASSUME NEW c \in Cycle, Abort(c) PROVE RunningHasNoResult'
  BY <1>4, FinishedStep DEF Abort
<1>5. CASE UNCHANGED vars
  BY <1>5 DEF vars, RunningHasNoResult
<1> QED
  BY <1>1, <1>2, <1>3, <1>4, <1>5 DEF Next

LEMMA RunningHasNoResultHolds == Spec => []RunningHasNoResult
<1>1. Init => RunningHasNoResult
  BY DEF Init, RunningHasNoResult
<1> QED
  BY <1>1, NextRunningHasNoResult, TypeCorrect, PTL DEF Spec

\* A cycle that is to be judged gets its answer from Judge alone.
LEMMA OnlyJudgeAnswersOk ==
    ASSUME TypeOK, RunningHasNoResult, [Next]_vars,
           NEW c \in Cycle, pc[c] = "judge", result'[c] = "ok"
    PROVE  Judge(c) /\ Converged(kind[c], local[c], cloud[c])
<1>1. result[c] = "none"
  BY DEF RunningHasNoResult
<1>2. ASSUME NEW o \in Cycle, NEW outcome, Finish(o, outcome)
      PROVE  o = c /\ outcome = "ok"
  BY <1>1, <1>2 DEF Finish, Put, TypeOK
<1>3. result' # result
  BY <1>1
<1>4. ~\E d \in Device : Edit(d)
  BY <1>3, EditCommits DEF Commits, Commit, cycleVars
<1>5. ASSUME NEW o \in Cycle, NEW k \in Kinds[o] PROVE ~Start(o, k)
  BY <1>1 DEF Start, Put, TypeOK
<1>6. ASSUME NEW o \in Cycle PROVE ~Abort(o)
  BY <1>2 DEF Abort
<1>7. PICK o \in Cycle : CycleStep(o)
  BY <1>3, <1>4, <1>5, <1>6 DEF Next, vars
<1>8. Judge(o)
  <2>1. ~ReadLocal(o) /\ ~ReadRemote(o) /\ ~DeletedRemote(o)
    BY <1>3 DEF ReadLocal, ReadRemote, DeletedRemote, Advance
  <2>2. ~Fail(o)
    BY <1>2 DEF Fail
  <2>3. ~Advance(o)
    BY <1>3 DEF Advance
  <2>4. ~Decide(o)
    BY <1>2, <2>3 DEF Decide
  <2>5. ~WriteLocal(o) /\ ~DeleteLocalRows(o)
    BY <2>2, <2>3 DEF WriteLocal, DeleteLocalRows
  <2>6. ~WriteRemote(o) /\ ~\E e \in Entity : DeleteRemoteRow(o, e)
    BY <1>3, <2>2, <2>3 DEF WriteRemote, DeleteRemoteRow
  <2> QED
    BY <1>7, <2>1, <2>4, <2>5, <2>6 DEF CycleStep
<1> QED
  BY <1>2, <1>8 DEF Judge

\* When an entry point answers ok, the facts it saw on the side it reads from
\* have reached the side it writes to, whatever other tasks did meanwhile.
THEOREM AcknowledgedFactsArrive == Spec => AcknowledgedFacts
<1> DEFINE Arrived ==
       \A c \in Cycle : pc[c] = "judge" /\ result'[c] = "ok" =>
          /\ kind[c] \in {"run", "push"} => local[c].log \subseteq remote.log
          /\ kind[c] \in {"run", "pull"} => cloud[c].log \subseteq db[Owner[c]].log
<1>1. FactsInv /\ RunningHasNoResult /\ [Next]_vars => Arrived
  <2> SUFFICES ASSUME FactsInv, RunningHasNoResult, [Next]_vars,
                      NEW c \in Cycle, pc[c] = "judge", result'[c] = "ok"
               PROVE  /\ kind[c] \in {"run", "push"} =>
                            local[c].log \subseteq remote.log
                      /\ kind[c] \in {"run", "pull"} =>
                            cloud[c].log \subseteq db[Owner[c]].log
    OBVIOUS
  <2>1. Converged(kind[c], local[c], cloud[c])
    BY OnlyJudgeAnswersOk DEF FactsInv
  <2>2. /\ local[c].log \subseteq db[Owner[c]].log
        /\ cloud[c].log \subseteq remote.log
    BY DEF FactsInv, KnownFactsAreStored
  <2>3. FactConflicts(local[c], cloud[c]) = {}
    BY <2>1 DEF Converged, HasConflicts
  <2>4. ASSUME kind[c] \in {"run", "push"} PROVE local[c].log \subseteq cloud[c].log
    <3>1. /\ FactsRemote(local[c], cloud[c]) = {}
          /\ DeleteRemote(local[c], cloud[c]) = {}
      BY <2>1, <2>4 DEF Converged, HasRemoteWork
    <3> QED
      BY <3>1, <2>3, NothingToCopy, FactConflictsSymmetric DEF FactsRemote
  <2>5. ASSUME kind[c] \in {"run", "pull"} PROVE cloud[c].log \subseteq local[c].log
    <3>1. /\ FactsLocal(local[c], cloud[c]) = {}
          /\ DeleteLocal(local[c], cloud[c]) = {}
      BY <2>1, <2>5 DEF Converged, HasLocalWork
    <3> QED
      BY <3>1, <2>3, NothingToCopy DEF FactsLocal
  <2> QED
    BY <2>2, <2>4, <2>5
<1> QED
  BY <1>1, FactsInvHolds, RunningHasNoResultHolds, PTL DEF Spec, AcknowledgedFacts

-----------------------------------------------------------------------------
\* The refinement of FactLog.

Logs == [d \in Device |-> db[d].log]

LEMMA CommitRecords ==
    ASSUME FactsInv,
           NEW d \in Device, NEW t \in Seconds,
           NEW S \in SUBSET Entity, NEW ids \in Stamps(S),
           NEW rows, NEW tombstones, Commit(d, t, ids, rows, tombstones)
    PROVE  Log!Next
<1> DEFINE new == NewFacts(t, ids, tombstones)
<1>1. /\ db' = [db EXCEPT ![d] = [rows |-> rows, log |-> db[d].log \cup new]]
      /\ remote' = remote
  BY DEF Commit
<1>2. db \in [Device -> Snapshot]
  BY DEF FactsInv, TypeOK
<1>3. ids \in [S -> FreeIds] /\ \A e, f \in S : e # f => ids[e] # ids[f]
  BY DEF Stamps
<1>4. \A c \in new : c.id \in FreeIds
  BY <1>3 DEF NewFacts
<1>5. UniqueIds(new)
  BY <1>3 DEF UniqueIds, NewFacts
<1>6. \A c \in new : \A o \in Recorded : o.id # c.id
  BY <1>4 DEF FreeIds
<1>7. Logs'[d] = Logs[d] \cup new
  BY <1>1, <1>2 DEF Logs
<1>8. Logs'[d] \ Logs[d] = new
  <2>1. Logs[d] \subseteq Recorded
    BY DEF Logs, Recorded
  <2> QED
    BY <1>6, <1>7, <2>1
<1>9. Logs' = [Logs EXCEPT ![d] = Logs[d] \cup new]
  BY <1>1, <1>2 DEF Logs
<1>10. UNION {Logs[e] : e \in Device} = Recorded
  BY DEF Logs, Recorded
<1>11. \A c \in new : \A o \in Recorded \cup new : o.id = c.id => o = c
  BY <1>5, <1>6 DEF UniqueIds
<1>12. new \cap Recorded = {}
  BY <1>6
<1>13. Log!Record(d, Logs'[d] \ Logs[d])
  <2> HIDE DEF new
  <2> QED
    BY <1>1, <1>8, <1>9, <1>10, <1>11, <1>12 DEF Log!Record, Log!Known, Logs
<1>14. Log!Step(d)
  BY <1>13, Zenon DEF Log!Step, Logs
<1> QED
  BY <1>14 DEF Log!Next

LEMMA WriteLocalPulls ==
    ASSUME FactsInv, NEW c \in Cycle, WriteLocal(c)
    PROVE  Log!Next \/ UNCHANGED Log!vars
<1> DEFINE d == Owner[c]
           facts == FactsLocal(local[c], cloud[c])
<1>1. CASE Fail(c)
  BY <1>1 DEF Fail, Log!vars
<1>2. CASE ~Fail(c)
  <2>1. PICK rows : db' = [db EXCEPT ![d] =
                              [rows |-> rows, log |-> db[d].log \cup facts]]
                    /\ remote' = remote
    BY <1>2 DEF WriteLocal
  <2>2. d \in Device /\ db \in [Device -> Snapshot]
    BY OwnerAssumption DEF FactsInv, TypeOK
  <2>3. facts \subseteq remote.log
    BY CopiedFactsAreHeld DEF FactsInv, KnownFactsAreStored
  <2>4. Logs'[d] = Logs[d] \cup facts
    BY <2>1, <2>2 DEF Logs
  <2>5. Logs' = [Logs EXCEPT ![d] = Logs[d] \cup facts]
    BY <2>1, <2>2 DEF Logs
  <2>6. Log!Pull(d, Logs'[d] \ Logs[d])
    <3> HIDE DEF facts, d
    <3>1. Logs[d] \cup facts = Logs[d] \cup (Logs'[d] \ Logs[d])
      BY <2>4
    <3>2. Logs'[d] \ Logs[d] \subseteq remote.log
      BY <2>3, <2>4
    <3>3. Logs' = [Logs EXCEPT ![d] = Logs[d] \cup (Logs'[d] \ Logs[d])]
      BY <2>5, <3>1
    <3> QED
      BY <2>1, <3>2, <3>3 DEF Log!Pull, Logs
  <2>7. Log!Step(d)
    BY <2>6, Zenon DEF Log!Step, Logs
  <2> QED
    BY <2>2, <2>7 DEF Log!Next
<1> QED
  BY <1>1, <1>2

LEMMA WriteRemotePushes ==
    ASSUME FactsInv, NEW c \in Cycle, WriteRemote(c)
    PROVE  Log!Next \/ UNCHANGED Log!vars
<1> DEFINE d == Owner[c]
           facts == FactsRemote(local[c], cloud[c])
<1>1. CASE Fail(c)
  BY <1>1 DEF Fail, Log!vars
<1>2. CASE ~Fail(c)
  <2>1. PICK rows : remote' = [rows |-> rows,
                               log |-> IF cursor[c] = SyncChanges
                                       THEN remote.log \cup facts
                                       ELSE remote.log]
    BY <1>2 DEF WriteRemote
  <2>2. db' = db
    BY <1>2 DEF WriteRemote, dbVars
  <2>3. d \in Device
    BY OwnerAssumption
  <2>4. facts \subseteq Logs[d]
    BY <2>3, CopiedFactsAreHeld DEF FactsInv, KnownFactsAreStored, Logs
  <2>5. remote'.log \ remote.log \subseteq Logs[d]
        /\ remote'.log = remote.log \cup (remote'.log \ remote.log)
    BY <2>1, <2>4
  <2>6. Log!Push(d, remote'.log \ remote.log)
    BY <2>2, <2>3, <2>5 DEF Log!Push, Logs
  <2>7. Log!Step(d)
    BY <2>6, Zenon DEF Log!Step
  <2> QED
    BY <2>3, <2>7 DEF Log!Next
<1> QED
  BY <1>1, <1>2

LEMMA OtherStepsKeepLogs ==
    ASSUME FactsInv, NEW c \in Cycle,
           \/ \E k \in Kinds[c] : Start(c, k)
           \/ ReadLocal(c) \/ ReadRemote(c) \/ Decide(c) \/ DeleteLocalRows(c)
           \/ \E e \in Entity : DeleteRemoteRow(c, e)
           \/ DeletedRemote(c) \/ Judge(c) \/ Abort(c)
    PROVE  UNCHANGED Log!vars
<1>1. CASE db' = db /\ remote' = remote
  BY <1>1 DEF Log!vars
<1>2. CASE DeleteLocalRows(c) /\ db' # db
  <2>1. PICK rows : db' = [db EXCEPT ![Owner[c]].rows = rows] /\ remote' = remote
    BY <1>2 DEF DeleteLocalRows, Fail
  <2>2. db \in [Device -> Snapshot]
    BY DEF FactsInv, TypeOK
  <2>3. \A d \in Device : db'[d].log = db[d].log
    BY <2>1, <2>2 DEF Snapshot
  <2> QED
    BY <2>1, <2>3 DEF Log!vars
<1>3. ASSUME NEW e \in Entity, DeleteRemoteRow(c, e), remote' # remote
      PROVE  UNCHANGED Log!vars
  <2>1. remote' = [remote EXCEPT !.rows[e] = Absent] /\ db' = db
    BY <1>3 DEF DeleteRemoteRow, Fail, dbVars
  <2>2. remote'.log = remote.log
    BY <2>1 DEF FactsInv, TypeOK, Snapshot
  <2> QED
    BY <2>1, <2>2 DEF Log!vars
<1>4. CASE Decide(c)
  BY <1>1, <1>4 DEF Decide, dbVars
<1> QED
  BY <1>1, <1>2, <1>3, <1>4 DEF Start, ReadLocal, ReadRemote, DeleteLocalRows,
     DeleteRemoteRow, DeletedRemote, Judge, Abort, Fail, dbVars

LEMMA NextImplementsFactLog ==
    FactsInv /\ [Next]_vars => [Log!Next]_(Log!vars)
<1> SUFFICES ASSUME FactsInv, [Next]_vars
             PROVE  Log!Next \/ UNCHANGED Log!vars
  OBVIOUS
<1>1. ASSUME NEW d \in Device, Edit(d) PROVE Log!Next
  <2>1. PICK t, S, ids, rows, tombstones : Commits(d, t, S, ids, rows, tombstones)
    BY <1>1, EditCommits DEF FactsInv
  <2> QED
    BY <2>1, CommitRecords DEF Commits
<1>2. ASSUME NEW c \in Cycle, NEW k \in Kinds[c], Start(c, k)
      PROVE  UNCHANGED Log!vars
  BY <1>2, OtherStepsKeepLogs
<1>3. ASSUME NEW c \in Cycle, CycleStep(c)
      PROVE  Log!Next \/ UNCHANGED Log!vars
  BY <1>3, WriteLocalPulls, WriteRemotePushes, OtherStepsKeepLogs DEF CycleStep
<1>4. ASSUME NEW c \in Cycle, Abort(c) PROVE UNCHANGED Log!vars
  BY <1>4, OtherStepsKeepLogs
<1>5. CASE UNCHANGED vars
  BY <1>5 DEF vars, Log!vars
<1> QED
  BY <1>1, <1>2, <1>3, <1>4, <1>5 DEF Next

\* Whatever edits, cycles and aborts do, sync_changes is the append-only log
\* that FactLog describes: facts are recorded once, on one device, under a new
\* id, and from then on only copied.
THEOREM SyncImplementsFactLog == Spec => ImplementsFactLog
<1>1. Init => Log!Init
  BY DEF Init, Log!Init
<1> QED
  BY <1>1, NextImplementsFactLog, FactsInvHolds, PTL
     DEF Spec, ImplementsFactLog, Log!Spec
-----------------------------------------------------------------------------
(***************************************************************************)
(* No row goes without a tombstone.                                        *)
(*                                                                         *)
(* A cycle deletes rows by a plan that it made from snapshots which may be *)
(* out of date.  The argument is about the order of its steps: by the time *)
(* it deletes on a side, the tombstones behind the plan have been written  *)
(* to that side, and no step of anybody takes a fact away again.           *)
(***************************************************************************)

\* The facts for the local side have been written.
LocalFactsWritten(c) ==
    pc[c] = "deleteLocal" \/ (pc[c] = "writeRemote" /\ kind[c] = "run") =>
        FactsLocal(local[c], cloud[c]) \subseteq db[Owner[c]].log

\* The facts for the remote side have been written.
RemoteFactsWritten(c) ==
    pc[c] = "deleteRemote" \/ (pc[c] = "deleteLocal" /\ kind[c] = "run") =>
        FactsRemote(local[c], cloud[c]) \subseteq remote.log

\* The rows still to be deleted are those that the comparison found.
TodoIsPlanned(c) ==
    pc[c] \in Writing \ {"decide"} =>
        todo[c] \subseteq DeleteRemote(local[c], cloud[c])

PlanInv(c) == LocalFactsWritten(c) /\ RemoteFactsWritten(c) /\ TodoIsPlanned(c)

DeletionInv == \A c \in Cycle : PlanInv(c)

-----------------------------------------------------------------------------
\* The invariant.

\* No fact is ever taken away.
LogsGrow ==
    /\ \A d \in Device : db[d].log \subseteq db'[d].log
    /\ remote.log \subseteq remote'.log

LEMMA FactLogGrows == Log!Next => LogsGrow
<1> SUFFICES ASSUME Log!Next PROVE LogsGrow
  OBVIOUS
<1>1. PICK d \in Device : Log!Step(d)
  BY DEF Log!Next
<1>2. ASSUME NEW F, Logs' = [Logs EXCEPT ![d] = Logs[d] \cup F]
      PROVE  \A e \in Device : db[e].log \subseteq db'[e].log
  <2>1. \A e \in Device : Logs[e] \subseteq Logs'[e]
    BY <1>2 DEF Logs
  <2> QED
    BY <2>1 DEF Logs
<1>3. CASE Log!Record(d, Logs'[d] \ Logs[d])
  BY <1>2, <1>3 DEF Log!Record, LogsGrow, Logs
<1>4. CASE Log!Pull(d, Logs'[d] \ Logs[d])
  BY <1>2, <1>4 DEF Log!Pull, LogsGrow, Logs
<1>5. CASE Log!Push(d, remote'.log \ remote.log)
  <2>1. Logs' = Logs /\ remote.log \subseteq remote'.log
    BY <1>5 DEF Log!Push, Logs
  <2>2. \A e \in Device : db[e].log = Logs[e] /\ db'[e].log = Logs'[e]
    BY DEF Logs
  <2> QED
    BY <2>1, <2>2 DEF LogsGrow
<1>6. \/ Log!Record(d, Logs'[d] \ Logs[d])
      \/ Log!Pull(d, Logs'[d] \ Logs[d])
      \/ Log!Push(d, remote'.log \ remote.log)
  BY <1>1, Zenon DEF Log!Step, Logs
<1> QED
  BY <1>3, <1>4, <1>5, <1>6

LEMMA NextLogsGrow ==
    ASSUME FactsInv, [Next]_vars
    PROVE  LogsGrow
<1>1. Log!Next \/ UNCHANGED Log!vars
  BY NextImplementsFactLog
<1>2. CASE UNCHANGED Log!vars
  <2>1. Logs' = Logs /\ remote.log' = remote.log
    BY <1>2 DEF Log!vars, Logs
  <2>2. \A e \in Device : db[e].log = Logs[e] /\ db'[e].log = Logs'[e]
    BY DEF Logs
  <2> QED
    BY <2>1, <2>2 DEF LogsGrow
<1> QED
  BY <1>1, <1>2, FactLogGrows

\* The step a task is at and what it holds.
Plan(c) == <<pc[c], kind[c], cursor[c], local[c], cloud[c], todo[c]>>

LEMMA OthersKeepPlan ==
    ASSUME NEW c \in Cycle, PlanInv(c), LogsGrow, Plan(c)' = Plan(c)
    PROVE  PlanInv(c)'
BY OwnerAssumption DEF PlanInv, Plan, LogsGrow, LocalFactsWritten,
   RemoteFactsWritten, TodoIsPlanned

\* Outside the write phases there is no plan to keep.
LEMMA NoPlan ==
    ASSUME NEW c \in Cycle, pc'[c] \notin Writing \ {"decide"}
    PROVE  PlanInv(c)'
BY DEF PlanInv, LocalFactsWritten, RemoteFactsWritten, TodoIsPlanned, Writing

\* A step of one task leaves the others alone.
LEMMA OneTaskMoves ==
    ASSUME TypeOK, NEW o \in Cycle,
           CycleStep(o) \/ Abort(o) \/ \E k \in Kinds[o] : Start(o, k)
    PROVE  \A c \in Cycle \ {o} : Plan(c)' = Plan(c)
<1> SUFFICES ASSUME NEW c \in Cycle \ {o} PROVE Plan(c)' = Plan(c)
  OBVIOUS
<1>1. ASSUME NEW outcome, Finish(o, outcome) PROVE Plan(c)' = Plan(c)
  BY <1>1 DEF Finish, Put, Plan, TypeOK
<1>2. ASSUME Advance(o), todo'[c] = todo[c] PROVE Plan(c)' = Plan(c)
  BY <1>2 DEF Advance, Put, Plan, TypeOK
<1>3. CASE Abort(o) \/ Judge(o) \/ Fail(o)
  BY <1>1, <1>3 DEF Abort, Judge, Fail
<1>4. CASE \E k \in Kinds[o] : Start(o, k)
  BY <1>4 DEF Start, Put, Plan, TypeOK
<1>5. CASE ReadLocal(o)
  BY <1>5 DEF ReadLocal, ReadOn, Put, Plan, TypeOK
<1>6. CASE ReadRemote(o)
  BY <1>6 DEF ReadRemote, ReadOn, Put, Plan, TypeOK
<1>7. CASE Decide(o)
  BY <1>1, <1>2, <1>7 DEF Decide, Put, TypeOK
<1>8. CASE WriteLocal(o) \/ DeleteLocalRows(o) \/ DeletedRemote(o)
  BY <1>2, <1>3, <1>8 DEF WriteLocal, DeleteLocalRows, DeletedRemote
<1>9. CASE WriteRemote(o)
  <2>1. CASE Advance(o) /\ todo' = todo
    BY <1>2, <2>1
  <2>2. CASE UNCHANGED <<pc, kind, local, cloud, todo>> /\ cursor'[c] = cursor[c]
    BY <2>2 DEF Plan
  <2> QED
    BY <1>3, <1>9, <2>1, <2>2 DEF WriteRemote, Put, TypeOK
<1>10. ASSUME NEW e \in Entity, DeleteRemoteRow(o, e) PROVE Plan(c)' = Plan(c)
  BY <1>3, <1>10 DEF DeleteRemoteRow, Put, Plan, TypeOK
<1> QED
  BY <1>3, <1>4, <1>5, <1>6, <1>7, <1>8, <1>9, <1>10 DEF CycleStep

\* What a step of a task does to its own plan.
LEMMA OwnStepKeepsPlan ==
    ASSUME FactsInv, NEW c \in Cycle, PlanInv(c), LogsGrow,
           CycleStep(c) \/ Abort(c) \/ \E k \in Kinds[c] : Start(c, k)
    PROVE  PlanInv(c)'
<1>1. /\ pc \in [Cycle -> Phase] /\ todo \in [Cycle -> SUBSET Entity]
      /\ kind[c] \in Kind /\ pc[c] \in PhasesOf(kind[c])
      /\ db \in [Device -> Snapshot] /\ Owner[c] \in Device
  BY OwnerAssumption DEF FactsInv, TypeOK, PhaseOfKind
<1>2. ASSUME NEW outcome, Finish(c, outcome) PROVE PlanInv(c)'
  BY <1>1, <1>2, NoPlan DEF Finish, Put, Writing
<1>3. ASSUME Advance(c)
      PROVE  /\ pc'[c] = NextPhase[kind[c]][pc[c]]
             /\ UNCHANGED <<kind, local, cloud>>
  BY <1>1, <1>3 DEF Advance, Put
<1>4. CASE Abort(c) \/ Judge(c) \/ Fail(c)
  BY <1>2, <1>4 DEF Abort, Judge, Fail
<1>5. CASE \E k \in Kinds[c] : Start(c, k)
  BY <1>1, <1>5, NoPlan DEF Start, Put, Writing
<1>6. CASE ReadLocal(c)
  BY <1>1, <1>6, NoPlan DEF ReadLocal, ReadOn, Put, Writing
<1>7. CASE ReadRemote(c)
  BY <1>1, <1>7, NoPlan DEF ReadRemote, ReadOn, Put, Writing
<1>8. CASE Decide(c)
  <2>1. CASE Finish(c, "conflict")
    BY <1>2, <2>1
  <2>2. CASE Advance(c) /\ todo' = Put(todo, c, DeleteRemote(local[c], cloud[c]))
    <3>1. todo'[c] = DeleteRemote(local[c], cloud[c])
      BY <1>1, <2>2 DEF Put
    <3>2. \/ kind[c] \in {"run", "pull"} /\ pc'[c] = "writeLocal"
          \/ kind[c] = "push" /\ pc'[c] = "writeRemote"
      BY <1>1, <1>3, <1>8, <2>2 DEF Decide, NextPhase, Kind
    <3> QED
      BY <1>3, <2>2, <3>1, <3>2 DEF PlanInv, LocalFactsWritten,
         RemoteFactsWritten, TodoIsPlanned
  <2> QED
    BY <1>8, <2>1, <2>2 DEF Decide
<1>9. CASE WriteLocal(c) /\ ~Fail(c)
  <2>1. Advance(c) /\ todo' = todo /\ pc[c] = "writeLocal"
    BY <1>9 DEF WriteLocal
  <2>2. FactsLocal(local[c], cloud[c]) \subseteq db'[Owner[c]].log
    BY <1>1, <1>9 DEF WriteLocal
  <2>3. \/ kind[c] = "run" /\ pc'[c] = "writeRemote"
        \/ kind[c] = "pull" /\ pc'[c] = "deleteLocal"
    BY <1>1, <1>3, <2>1 DEF NextPhase, PhasesOf, Kind
  <2> QED
    BY <1>3, <2>1, <2>2, <2>3 DEF PlanInv, LocalFactsWritten,
       RemoteFactsWritten, TodoIsPlanned, Writing
<1>10. CASE WriteRemote(c) /\ ~Fail(c) /\ cursor[c] = SyncChanges
  <2>1. Advance(c) /\ todo' = todo /\ db' = db /\ pc[c] = "writeRemote"
    BY <1>10 DEF WriteRemote, dbVars
  <2>2. FactsRemote(local[c], cloud[c]) \subseteq remote'.log
    BY <1>10 DEF WriteRemote
  <2>3. \/ kind[c] = "run" /\ pc'[c] = "deleteLocal"
        \/ kind[c] = "push" /\ pc'[c] = "deleteRemote"
    BY <1>1, <1>3, <2>1 DEF NextPhase, PhasesOf, Kind
  <2> QED
    BY <1>3, <2>1, <2>2, <2>3 DEF PlanInv, LocalFactsWritten,
       RemoteFactsWritten, TodoIsPlanned, Writing
<1>11. CASE WriteRemote(c) /\ ~Fail(c) /\ cursor[c] # SyncChanges
  <2>1. UNCHANGED <<pc, kind, local, cloud, todo>> /\ pc[c] = "writeRemote"
    BY <1>11 DEF WriteRemote
  <2> QED
    BY <1>1, <2>1 DEF PlanInv, LocalFactsWritten, RemoteFactsWritten, TodoIsPlanned,
       LogsGrow, Writing
<1>12. CASE DeleteLocalRows(c) /\ ~Fail(c)
  <2>1. Advance(c) /\ UNCHANGED <<remote, todo>> /\ pc[c] = "deleteLocal"
    BY <1>12 DEF DeleteLocalRows
  <2>2. \/ kind[c] = "run" /\ pc'[c] = "deleteRemote"
        \/ kind[c] = "pull" /\ pc'[c] = "verifyLocal"
    BY <1>1, <1>3, <2>1 DEF NextPhase, PhasesOf, Kind
  <2> QED
    BY <1>3, <2>1, <2>2 DEF PlanInv, LocalFactsWritten,
       RemoteFactsWritten, TodoIsPlanned, Writing
<1>13. ASSUME NEW e \in Entity, DeleteRemoteRow(c, e), ~Fail(c) PROVE PlanInv(c)'
  <2>1. /\ UNCHANGED <<pc, kind, local, cloud>>
        /\ todo'[c] = todo[c] \ {e}
        /\ pc[c] = "deleteRemote"
    BY <1>1, <1>13 DEF DeleteRemoteRow, Put
  <2> QED
    BY <2>1 DEF PlanInv, LocalFactsWritten, RemoteFactsWritten, TodoIsPlanned,
       LogsGrow, Writing
<1>14. CASE DeletedRemote(c)
  <2>1. pc'[c] = "verifyLocal"
    BY <1>1, <1>3, <1>14 DEF DeletedRemote, NextPhase, PhasesOf, Kind
  <2> QED
    BY <2>1, NoPlan DEF Writing
<1> QED
  BY <1>4, <1>5, <1>6, <1>7, <1>8, <1>9, <1>10, <1>11, <1>12, <1>13, <1>14
     DEF CycleStep

LEMMA NextDeletionInv == FactsInv /\ DeletionInv /\ [Next]_vars => DeletionInv'
<1> SUFFICES ASSUME FactsInv, DeletionInv, [Next]_vars, NEW c \in Cycle
             PROVE  PlanInv(c)'
  BY DEF DeletionInv
<1>1. PlanInv(c) /\ LogsGrow
  BY NextLogsGrow DEF DeletionInv
<1>2. ASSUME NEW d \in Device, Edit(d) PROVE PlanInv(c)'
  <2>1. UNCHANGED <<pc, kind, cursor, local, cloud, todo>>
    BY <1>2, EditCommits DEF FactsInv, Commits, Commit, cycleVars
  <2> QED
    BY <1>1, <2>1, OthersKeepPlan DEF Plan
<1>3. ASSUME NEW o \in Cycle,
             CycleStep(o) \/ Abort(o) \/ \E k \in Kinds[o] : Start(o, k)
      PROVE  PlanInv(c)'
  <2>1. CASE o = c
    BY <1>1, <1>3, <2>1, OwnStepKeepsPlan
  <2>2. CASE o # c
    BY <1>1, <1>3, <2>2, OneTaskMoves, OthersKeepPlan DEF FactsInv
  <2> QED
    BY <2>1, <2>2
<1>4. CASE UNCHANGED vars
  BY <1>1, <1>4, OthersKeepPlan DEF vars, Plan
<1> QED
  BY <1>2, <1>3, <1>4 DEF Next

LEMMA DeletionInvHolds == Spec => []DeletionInv
<1>1. Init => DeletionInv
  BY DEF Init, DeletionInv, PlanInv, LocalFactsWritten, RemoteFactsWritten,
         TodoIsPlanned, Writing
<1> QED
  BY <1>1, NextDeletionInv, FactsInvHolds, PTL DEF Spec

-----------------------------------------------------------------------------
\* What a step may remove.

LEMMA NothingRemoved ==
    ASSUME NEW s, NEW t, \A e \in Entity : s.rows[e] # Absent => t.rows[e] # Absent
    PROVE  RemovalIsRecorded(s, t)
BY DEF RemovalIsRecorded, Removed, Present

\* The latest fact of a tombstoned entity is a tombstone of that entity.
LEMMA TombstoneIsFact ==
    ASSUME NEW log \in SUBSET Fact, NEW b \in Nat, Bounded(log, b), NEW e,
           Tombstoned(log, e)
    PROVE  Latest(log, e).entity = e /\ Latest(log, e).op = "tombstone"
BY LatestIsGreatest DEF Tombstoned, FactsOf

\* Where the facts of a plan are stored, its deletions are recorded.
LEMMA PlannedDeletion ==
    ASSUME NEW from \in Snapshot, NEW to \in Snapshot, NEW b \in Nat,
           Bounded(from.log, b), NEW E, NEW e \in E,
           LosesRow(to, from, e), NEW t, FactsToCopy(from, to, E) \subseteq t.log
    PROVE  /\ Removable(e)
           /\ \E f \in t.log : f.entity = e /\ f.op = "tombstone"
<1>1. Removable(e) /\ Tombstoned(from.log, e)
  BY DEF LosesRow
<1>2. Latest(from.log, e) \in t.log
  BY DEF FactsToCopy
<1>3. Latest(from.log, e).entity = e /\ Latest(from.log, e).op = "tombstone"
  BY <1>1, TombstoneIsFact DEF Snapshot
<1> QED
  BY <1>1, <1>2, <1>3

LEMMA CommitRecordsRemovals ==
    ASSUME TypeOK, NEW d, NEW t, NEW S, NEW ids, NEW rows, NEW tombstones,
           Commits(d, t, S, ids, rows, tombstones)
    PROVE  \A e \in Device : RemovalIsRecorded(db[e], db'[e])
<1>1. /\ d \in Device /\ db \in [Device -> Snapshot]
      /\ db' = [db EXCEPT ![d] =
                  [rows |-> rows, log |-> db[d].log \cup NewFacts(t, ids, tombstones)]]
  BY DEF Commits, Commit, TypeOK
<1>2. \A e \in Device \ {d} : RemovalIsRecorded(db[e], db'[e])
  BY <1>1, NothingRemoved
<1>3. RemovalIsRecorded(db[d], db'[d])
  <2> SUFFICES ASSUME NEW e \in Entity, db[d].rows[e] # Absent, rows[e] = Absent
               PROVE  /\ Removable(e)
                      /\ \E f \in db'[d].log : f.entity = e /\ f.op = "tombstone"
    BY <1>1 DEF RemovalIsRecorded, Removed, Present
  <2>1. e \in tombstones /\ e \in S /\ Removable(e) /\ DOMAIN ids = S
    BY DEF Commits, Stamps
  <2> DEFINE f == [id |-> ids[e], entity |-> e, at |-> t,
                   op |-> IF e \in tombstones THEN "tombstone" ELSE "put"]
  <2>2. f \in NewFacts(t, ids, tombstones)
    BY <2>1 DEF NewFacts
  <2>3. f \in db'[d].log /\ f.entity = e /\ f.op = "tombstone"
    BY <1>1, <2>1, <2>2
  <2> QED
    BY <2>1, <2>3
<1> QED
  BY <1>2, <1>3

\* Upserts write rows, they never take one away.
LEMMA UpsertsRemoveNothing ==
    ASSUME FactsInv, NEW c \in Cycle, WriteLocal(c) \/ WriteRemote(c)
    PROVE  /\ \A d \in Device : RemovalIsRecorded(db[d], db'[d])
           /\ RemovalIsRecorded(remote, remote')
<1> DEFINE L == UpsertLocal(local[c], cloud[c])
           R == UpsertRemote(local[c], cloud[c])
<1>1. /\ \A e \in L : cloud[c].rows[e] # Absent
      /\ \A e \in R : local[c].rows[e] # Absent
  BY DEF UpsertLocal, UpsertRemote, FillsGap, Prevails
<1>2. Owner[c] \in Device /\ db \in [Device -> Snapshot]
  BY OwnerAssumption DEF FactsInv, TypeOK
<1>3. CASE db' = db /\ remote' = remote
  BY <1>3, NothingRemoved
<1>4. CASE WriteLocal(c) /\ ~Fail(c)
  <2>1. /\ db' = [db EXCEPT ![Owner[c]] =
                    [rows |-> Overwrite(db[Owner[c]].rows, L, cloud[c]),
                     log |-> db[Owner[c]].log \cup FactsLocal(local[c], cloud[c])]]
        /\ remote' = remote
    BY <1>4 DEF WriteLocal
  <2>2. \A d \in Device : \A e \in Entity :
            db[d].rows[e] # Absent => db'[d].rows[e] # Absent
    BY <1>1, <1>2, <2>1 DEF Overwrite
  <2> QED
    BY <2>1, <2>2, NothingRemoved
<1>5. CASE WriteRemote(c) /\ ~Fail(c)
  <2> DEFINE E == {e \in R : TableOf[e] = cursor[c]}
  <2>1. db' = db /\ remote'.rows = Overwrite(remote.rows, E, local[c])
    BY <1>5 DEF WriteRemote, dbVars
  <2>2. \A e \in Entity : remote.rows[e] # Absent => remote'.rows[e] # Absent
    BY <1>1, <2>1 DEF Overwrite
  <2> QED
    BY <2>1, <2>2, NothingRemoved
<1>6. CASE Fail(c)
  BY <1>3, <1>6 DEF Fail
<1> QED
  BY <1>4, <1>5, <1>6

LEMMA LocalDeletionsRecorded ==
    ASSUME FactsInv, NEW c \in Cycle, PlanInv(c), DeleteLocalRows(c)
    PROVE  /\ \A d \in Device : RemovalIsRecorded(db[d], db'[d])
           /\ RemovalIsRecorded(remote, remote')
<1> DEFINE d == Owner[c]
           E == DeleteLocal(local[c], cloud[c])
           fs == {f \in E : TableOf[f] = Fields}
           left == WithoutFields(db[d].rows, fs)
           rows == [e \in Entity |-> IF e \in E THEN Absent ELSE left[e]]
<1>1. CASE Fail(c)
  BY <1>1, NothingRemoved DEF Fail
<1>2. CASE ~Fail(c)
  <2>1. db' = [db EXCEPT ![d].rows = rows] /\ remote' = remote
        /\ pc[c] = "deleteLocal"
    BY <1>2 DEF DeleteLocalRows
  <2>2. d \in Device /\ db \in [Device -> Snapshot] /\ db[d] \in Snapshot
        /\ local[c] \in Snapshot /\ cloud[c] \in Snapshot
    BY OwnerAssumption DEF FactsInv, TypeOK
  <2> HIDE DEF rows
  <2>3. db'[d].rows = rows /\ db'[d].log = db[d].log
    BY <2>1, <2>2 DEF Snapshot
  <2>4. \A o \in Device \ {d} : db'[o] = db[o]
    BY <2>1, <2>2
  <2>5. \A e \in Entity : db[d].rows[e] # Absent /\ rows[e] = Absent => e \in E
    <3>1. \A e \in Entity : db[d].rows[e] # Absent /\ left[e] = Absent => e \in fs
      BY <2>2, WithoutFieldsType DEF Snapshot
    <3> HIDE DEF left
    <3> QED
      BY <3>1 DEF rows
  <2>6. FactsToCopy(cloud[c], local[c], E) \subseteq db'[d].log
    BY <2>1, <2>3 DEF PlanInv, LocalFactsWritten, FactsLocal
  <2>7. \A e \in E : LosesRow(local[c], cloud[c], e)
    BY DEF DeleteLocal
  <2>8. RemovalIsRecorded(db[d], db'[d])
    <3> HIDE DEF E
    <3> SUFFICES ASSUME NEW e \in Entity, db[d].rows[e] # Absent, rows[e] = Absent
                 PROVE  /\ Removable(e)
                        /\ \E f \in db'[d].log : f.entity = e /\ f.op = "tombstone"
      BY <2>3 DEF RemovalIsRecorded, Removed, Present
    <3>1. e \in E /\ LosesRow(local[c], cloud[c], e)
      BY <2>5, <2>7
    <3> QED
      BY <2>2, <2>6, <3>1, HeldFactsBounded, PlannedDeletion
  <2> QED
    BY <2>1, <2>4, <2>8, NothingRemoved
<1> QED
  BY <1>1, <1>2

LEMMA RemoteDeletionRecorded ==
    ASSUME FactsInv, NEW c \in Cycle, PlanInv(c), NEW e \in Entity,
           DeleteRemoteRow(c, e)
    PROVE  /\ \A d \in Device : RemovalIsRecorded(db[d], db'[d])
           /\ RemovalIsRecorded(remote, remote')
<1> DEFINE E == DeleteRemote(local[c], cloud[c])
<1>1. CASE Fail(c)
  BY <1>1, NothingRemoved DEF Fail
<1>2. CASE ~Fail(c)
  <2>1. /\ remote' = [remote EXCEPT !.rows[e] = Absent] /\ db' = db
        /\ pc[c] = "deleteRemote" /\ e \in todo[c]
    BY <1>2 DEF DeleteRemoteRow, dbVars
  <2>2. remote \in Snapshot /\ local[c] \in Snapshot /\ cloud[c] \in Snapshot
    BY DEF FactsInv, TypeOK
  <2>3. /\ \A o \in Entity \ {e} : remote'.rows[o] = remote.rows[o]
        /\ remote'.log = remote.log
    BY <2>1, <2>2 DEF Snapshot
  <2>4. e \in E /\ LosesRow(cloud[c], local[c], e)
    BY <2>1 DEF PlanInv, TodoIsPlanned, Writing, DeleteRemote
  <2>5. FactsToCopy(local[c], cloud[c], E) \subseteq remote'.log
    BY <2>1, <2>3 DEF PlanInv, RemoteFactsWritten, FactsRemote
  <2>6. /\ Removable(e)
        /\ \E f \in remote'.log : f.entity = e /\ f.op = "tombstone"
    <3> HIDE DEF E
    <3> QED
      BY <2>2, <2>4, <2>5, HeldFactsBounded, PlannedDeletion
  <2>7. RemovalIsRecorded(remote, remote')
    BY <2>3, <2>6 DEF RemovalIsRecorded, Removed, Present
  <2> QED
    BY <2>1, <2>7, NothingRemoved
<1> QED
  BY <1>1, <1>2

-----------------------------------------------------------------------------
\* A row leaves a device or the remote database only where a tombstone of it
\* is stored, and only if its table lets rows go; torn snapshots, stale plans,
\* overlapping cycles and aborts included.
THEOREM DeletionsHaveTombstones == Spec => DeletionHasTombstone
<1> DEFINE RemovalsRecorded == /\ \A d \in Device : RemovalIsRecorded(db[d], db'[d])
                               /\ RemovalIsRecorded(remote, remote')
<1>1. FactsInv /\ DeletionInv /\ [Next]_vars => RemovalsRecorded
  <2> SUFFICES ASSUME FactsInv, DeletionInv, [Next]_vars PROVE RemovalsRecorded
    OBVIOUS
  <2>1. CASE db' = db /\ remote' = remote
    BY <2>1, NothingRemoved
  <2>2. ASSUME NEW d \in Device, Edit(d) PROVE RemovalsRecorded
    <3>1. PICK t, S, ids, rows, tombstones : Commits(d, t, S, ids, rows, tombstones)
      BY <2>2, EditCommits DEF FactsInv
    <3>2. remote' = remote
      BY <3>1 DEF Commits, Commit
    <3> QED
      BY <3>1, <3>2, CommitRecordsRemovals, NothingRemoved DEF FactsInv
  <2>3. ASSUME NEW c \in Cycle, NEW k \in Kinds[c], Start(c, k) PROVE RemovalsRecorded
    BY <2>1, <2>3 DEF Start, dbVars
  <2>4. ASSUME NEW c \in Cycle, CycleStep(c) PROVE RemovalsRecorded
    <3>1. PlanInv(c)
      BY DEF DeletionInv
    <3>2. CASE ReadLocal(c) \/ ReadRemote(c) \/ DeletedRemote(c) \/ Judge(c)
      BY <2>1, <3>2 DEF ReadLocal, ReadRemote, DeletedRemote, Judge, dbVars
    <3>3. CASE Decide(c)
      BY <2>1, <3>3 DEF Decide, dbVars
    <3> QED
      BY <2>4, <3>1, <3>2, <3>3, UpsertsRemoveNothing, LocalDeletionsRecorded,
         RemoteDeletionRecorded DEF CycleStep
  <2>5. ASSUME NEW c \in Cycle, Abort(c) PROVE RemovalsRecorded
    BY <2>1, <2>5 DEF Abort, dbVars
  <2>6. CASE UNCHANGED vars
    BY <2>1, <2>6 DEF vars
  <2> QED
    BY <2>2, <2>3, <2>4, <2>5, <2>6 DEF Next
<1> QED
  BY <1>1, DeletionInvHolds, FactsInvHolds, PTL DEF Spec, DeletionHasTombstone
-----------------------------------------------------------------------------
(***************************************************************************)
(* No reference dangles and no visible note loses its field.               *)
(*                                                                         *)
(* A cycle writes rows that it read long ago, into a database that others  *)
(* have changed since.  What makes this harmless is a fact about all rows  *)
(* anywhere, the snapshots of running cycles included: rows of the same    *)
(* version of a note agree on everything a visible note shows.  A step     *)
(* either passes on rows that exist somewhere, or clears the field of      *)
(* hidden notes, or writes one row that has a version of its own.          *)
(***************************************************************************)

Places == {remote} \cup {db[d] : d \in Device}
              \cup {local[c] : c \in Cycle} \cup {cloud[c] : c \in Cycle}

RowsOf(e) == {s.rows[e] : s \in Places}

RowsInv ==
    \A e \in Entity : \A r \in RowsOf(e) :
        /\ PossibleRow(Recorded, e, r)
        /\ \A q \in RowsOf(e) : SameVersion(e, q, r)

\* Row r of entity e comes from somewhere, at most without the field of a note
\* that nobody sees.
Passed(e, r) ==
    \/ r = Absent
    \/ r \in RowsOf(e)
    \/ \E q \in RowsOf(e) :
          /\ q # Absent /\ q.state # "visible"
          /\ r.ver = q.ver /\ r.state = q.state /\ r.field = NoField

\* The step records a fact about e under a new id.
Records(e, i) ==
    /\ \A c \in Recorded : c.id # i
    /\ \E c \in FactsOf(Recorded', e) : c.id = i

\* Row w has been written by an edit: the version of a note is new.
Written(e, w) ==
    IF TableOf[e] = Notes
    THEN /\ w.field = NoField \/ w.field \in RowsIn(Fields)
         /\ Records(e, w.ver)
    ELSE w.field = NoField

LEMMA RowsMove ==
    ASSUME RowsInv, Recorded \subseteq Recorded', NEW e \in Entity, NEW w,
           \A r \in RowsOf(e)' : Passed(e, r) \/ (r = w /\ Written(e, w))
    PROVE  \A r \in RowsOf(e)' : /\ PossibleRow(Recorded', e, r)
                                 /\ \A q \in RowsOf(e)' : SameVersion(e, q, r)
<1> DEFINE new == RowsOf(e)'
           old == RowsOf(e)
<1>1. \A r \in old : PossibleRow(Recorded, e, r) /\ \A q \in old : SameVersion(e, q, r)
  BY DEF RowsInv
<1>2. \A r \in new : Passed(e, r) \/ (r = w /\ Written(e, w))
  OBVIOUS
<1> HIDE DEF new
<1>3. ASSUME NEW r \in new PROVE PossibleRow(Recorded', e, r)
  <2>1. CASE r = Absent
    BY <2>1 DEF PossibleRow
  <2>2. CASE r \in old
    BY <1>1, <2>2 DEF PossibleRow, FactsOf
  <2>3. ASSUME NEW q \in old, q # Absent, r.ver = q.ver, r.field = NoField
        PROVE  PossibleRow(Recorded', e, r)
    <3>1. PossibleRow(Recorded, e, q)
      BY <1>1
    <3> QED
      BY <2>3, <3>1 DEF PossibleRow, FactsOf
  <2>4. CASE r = w /\ Written(e, w)
    BY <2>4 DEF Written, Records, PossibleRow, FactsOf
  <2> QED
    BY <1>2, <2>1, <2>2, <2>3, <2>4 DEF Passed
<1>4. ASSUME NEW q \in new, NEW r \in new PROVE SameVersion(e, q, r)
  <2> SUFFICES ASSUME TableOf[e] = Notes, q # Absent, r # Absent, q.ver = r.ver,
                      q.state = "visible"
               PROVE  r.state = "visible" /\ r.field = q.field
    BY DEF SameVersion
  <2>1. q \in old \/ (q = w /\ Written(e, w))
    BY <1>2 DEF Passed
  <2>2. ASSUME NEW u \in old, u # Absent PROVE \E c \in Recorded : c.id = u.ver
    BY <1>1, <2>2 DEF PossibleRow, FactsOf
  <2>3. CASE r = w /\ Written(e, w)
    BY <2>1, <2>2, <2>3 DEF Written, Records
  <2>4. CASE r \in old
    <3>1. q \in old
      BY <2>1, <2>2, <2>4 DEF Written, Records
    <3> QED
      BY <1>1, <2>4, <3>1 DEF SameVersion
  <2>5. ASSUME NEW u \in old, u # Absent, u.state # "visible", r.ver = u.ver
        PROVE  FALSE
    <3>1. q \in old
      BY <2>1, <2>2, <2>5 DEF Written, Records
    <3>2. SameVersion(e, q, u)
      BY <1>1, <3>1
    <3> QED
      BY <2>5, <3>2 DEF SameVersion
  <2> QED
    BY <1>2, <2>3, <2>4, <2>5 DEF Passed
<1> QED
  BY <1>3, <1>4 DEF new

\* The rows of all places pass, so a step only has to account for the place
\* that it changes.
LEMMA PlacesPass ==
    ASSUME NEW e
    PROVE  /\ Passed(e, remote.rows[e])
           /\ \A d \in Device : Passed(e, db[d].rows[e])
           /\ \A c \in Cycle : Passed(e, local[c].rows[e]) /\ Passed(e, cloud[c].rows[e])
BY DEF Passed, RowsOf, Places

LEMMA RowsInvKept ==
    ASSUME RowsInv, Recorded \subseteq Recorded',
           \A e \in Entity :
              /\ Passed(e, remote'.rows[e])
              /\ \A d \in Device : Passed(e, db'[d].rows[e])
              /\ \A c \in Cycle : /\ Passed(e, local'[c].rows[e])
                                  /\ Passed(e, cloud'[c].rows[e])
    PROVE  RowsInv'
<1>1. ASSUME NEW e \in Entity
      PROVE  \A r \in RowsOf(e)' : /\ PossibleRow(Recorded', e, r)
                                   /\ \A q \in RowsOf(e)' : SameVersion(e, q, r)
  <2>1. \A r \in RowsOf(e)' : Passed(e, r)
    BY DEF RowsOf, Places
  <2> QED
    BY <2>1, RowsMove
<1> QED
  BY <1>1 DEF RowsInv
LEMMA InitRowsInv == Init => RowsInv /\ NoDanglingReference
<1> SUFFICES ASSUME Init PROVE RowsInv /\ NoDanglingReference
  OBVIOUS
<1> DEFINE Seeds == {SeedRemote} \cup {SeedDb[d] : d \in Device}
<1>1. \A s \in Seeds :
         /\ ReferencesHold(s.rows, Entity)
         /\ \A e \in Entity : /\ PossibleRow(SeedFacts, e, s.rows[e])
                              /\ \A t \in Seeds : SameVersion(e, s.rows[e], t.rows[e])
  BY SeedRowsAssumption
<1>2. Places \subseteq Seeds \cup {EmptySnapshot}
  BY DEF Init, Places
<1>3. NoDanglingReference
  BY <1>1 DEF Init, NoDanglingReference
<1>4. Recorded = SeedFacts
  BY DEF Init, Recorded, SeedFacts
<1>5. \A e \in Entity : EmptySnapshot.rows[e] = Absent
  BY DEF EmptySnapshot
<1> HIDE DEF Seeds
<1>6. ASSUME NEW e \in Entity, NEW s \in Places, NEW t \in Places
      PROVE  PossibleRow(SeedFacts, e, s.rows[e]) /\ SameVersion(e, t.rows[e], s.rows[e])
  <2>1. CASE s \in Seeds /\ t \in Seeds
    BY <1>1, <2>1
  <2>2. CASE s.rows[e] = Absent
    BY <2>2 DEF PossibleRow, SameVersion
  <2>3. CASE s \in Seeds /\ t.rows[e] = Absent
    BY <1>1, <2>3 DEF SameVersion
  <2> QED
    BY <1>2, <1>5, <2>1, <2>2, <2>3
<1>7. RowsInv
  BY <1>4, <1>6 DEF RowsInv, RowsOf
<1> QED
  BY <1>3, <1>7

\* What an edit has to guarantee.
SoundEdit(d) ==
    /\ UNCHANGED <<remote, local, cloud>>
    /\ \A o \in Device \ {d} : db'[o] = db[o]
    /\ Recorded \subseteq Recorded'
    /\ \A e \in Entity : Passed(e, db'[d].rows[e]) \/ Written(e, db'[d].rows[e])
    /\ ReferencesHold(db'[d].rows, Entity)
    /\ KeepsField(db[d], db'[d])

LEMMA CommitEffect ==
    ASSUME TypeOK, NEW d \in Device, NEW t, NEW S, NEW ids \in Stamps(S), NEW rows,
           NEW tombstones, Commit(d, t, ids, rows, tombstones)
    PROVE  /\ UNCHANGED <<remote, local, cloud>>
           /\ \A o \in Device \ {d} : db'[o] = db[o]
           /\ Recorded \subseteq Recorded'
           /\ db'[d].rows = rows
           /\ \A e \in S : Records(e, ids[e])
<1> DEFINE new == NewFacts(t, ids, tombstones)
<1>1. /\ db \in [Device -> Snapshot]
      /\ db' = [db EXCEPT ![d] = [rows |-> rows, log |-> db[d].log \cup new]]
      /\ UNCHANGED <<remote, local, cloud>>
  BY DEF TypeOK, Commit, cycleVars
<1>2. ids \in [S -> FreeIds]
  BY DEF Stamps
<1>3. ASSUME NEW e \in S PROVE \E c \in new : c.id = ids[e] /\ c.entity = e
  <2> DEFINE c == [id |-> ids[e], entity |-> e, at |-> t,
                   op |-> IF e \in tombstones THEN "tombstone" ELSE "put"]
  <2>1. c \in new
    BY <1>2 DEF NewFacts
  <2>2. c.id = ids[e] /\ c.entity = e
    OBVIOUS
  <2> QED
    BY <2>1, <2>2
<1> HIDE DEF new
<1>4. Recorded \subseteq Recorded' /\ new \subseteq Recorded'
  BY <1>1 DEF Recorded
<1>5. \A e \in S : Records(e, ids[e])
  BY <1>2, <1>3, <1>4 DEF FreeIds, Records, FactsOf
<1> QED
  BY <1>1, <1>4, <1>5

\* The rows of a device, and where its notes' fields are.
LEMMA DeviceRows ==
    ASSUME TypeOK, RowsInv, NoDanglingReference, NEW d \in Device
    PROVE  /\ db[d].rows \in [Entity -> Row \cup {Absent}]
           /\ \A e \in Entity :
                 PossibleRow(Recorded, e, db[d].rows[e]) /\ Passed(e, db[d].rows[e])
           /\ ReferencesHold(db[d].rows, Entity)
<1>1. db[d].rows \in [Entity -> Row \cup {Absent}]
  BY DEF TypeOK, Snapshot
<1>2. \A e \in Entity : db[d].rows[e] \in RowsOf(e)
  BY DEF RowsOf, Places
<1> QED
  BY <1>1, <1>2, PlacesPass DEF RowsInv, NoDanglingReference

LEMMA WriteNoteIsSound ==
    ASSUME TypeOK, RowsInv, NoDanglingReference,
           NEW d \in Device, NEW n \in RowsIn(Notes),
           NEW f \in RowsIn(Fields) \cup {NoField}, NEW X \in SUBSET TagsOf(n),
           WriteNote(d, n, f, X)
    PROVE  SoundEdit(d)
<1> DEFINE s == db[d]
           old == {x \in TagsOf(n) : s.rows[x] # Absent}
           created == {e \in {f} \ {NoField} : s.rows[e] = Absent} \cup NewTags(s, X)
           field == IF f = NoField /\ s.rows[n] # Absent THEN s.rows[n].field ELSE f
           S == {n} \cup created \cup (X \ old) \cup (old \ X)
           Note(t, ids) == [ver |-> ids[n], at |-> t, field |-> field,
                            state |-> "visible"]
           Rows(t, ids) ==
              [e \in Entity |->
                    CASE e = n -> Note(t, ids)
                      [] e \in created \cup (X \ old) -> PlainRow(t)
                      [] e \in old \ X -> Absent
                      [] OTHER -> s.rows[e]]
<1>1. PICK t \in Seconds, ids \in Stamps(S) : Commit(d, t, ids, Rows(t, ids), old \ X)
  BY DEF WriteNote
<1> DEFINE rows == Rows(t, ids)
           note == Note(t, ids)
           plain == PlainRow(t)
<1>2. /\ UNCHANGED <<remote, local, cloud>>
      /\ \A o \in Device \ {d} : db'[o] = db[o]
      /\ Recorded \subseteq Recorded'
      /\ db'[d].rows = rows
      /\ Records(n, ids[n])
  <2>1. n \in S
    OBVIOUS
  <2> HIDE DEF S, Rows, old, created
  <2>2. /\ UNCHANGED <<remote, local, cloud>>
        /\ \A o \in Device \ {d} : db'[o] = db[o]
        /\ Recorded \subseteq Recorded'
        /\ db'[d].rows = rows
        /\ \A e \in S : Records(e, ids[e])
    <3>1. PICK r, g : r = rows /\ g = old \ X
      OBVIOUS
    <3>2. Commit(d, t, ids, r, g)
      BY <1>1, <3>1
    <3> HIDE DEF rows
    <3> QED
      BY <3>1, <3>2, CommitEffect
  <2> QED
    BY <2>1, <2>2
<1>3. /\ s.rows \in [Entity -> Row \cup {Absent}]
      /\ \A e \in Entity :
            PossibleRow(Recorded, e, s.rows[e]) /\ Passed(e, s.rows[e])
      /\ ReferencesHold(s.rows, Entity)
  BY DeviceRows
<1>4. n \in Entity /\ TableOf[n] = Notes
  BY DEF RowsIn
<1>5. \A e \in TagsOf(n) : e \in Entity /\ TableOf[e] = NoteTags /\ n \in Parents[e]
  BY DEF TagsOf
<1>6. \A e \in created : e \in Entity /\ TableOf[e] \in {Fields, Tags}
  <2>1. \A x \in X : Parents[x] \subseteq Entity
    BY <1>5, ParentsAssumption
  <2>2. NewTags(s, X) \subseteq {e \in Entity : TableOf[e] = Tags}
    BY <2>1 DEF NewTags
  <2> HIDE DEF s
  <2> QED
    BY <2>2 DEF RowsIn
<1>7. field = NoField \/ (field \in RowsIn(Fields) /\ (s.rows[field] # Absent \/ field \in created))
  <2>1. CASE f = NoField /\ s.rows[n] # Absent
    BY <1>3, <1>4, <2>1 DEF PossibleRow, ReferencesHold
  <2>2. CASE ~(f = NoField /\ s.rows[n] # Absent)
    BY <2>2
  <2> QED
    BY <2>1, <2>2
<1>8. note # Absent /\ plain # Absent /\ plain.field = NoField
  <2>1. \/ field = NoField
        \/ field \in Entity
    BY <1>7 DEF RowsIn
  <2>2. ids[n] \in Nat /\ t \in Nat
    BY StampType, SecondsType
  <2>3. note \in Row
    BY <2>1, <2>2 DEF Row
  <2> QED
    BY <2>2, <2>3, PlainRowType, AbsentAssumption DEF PlainRow
<1>9. note.ver = ids[n] /\ note.field = field
  OBVIOUS
<1>10. \A x \in X : TableOf[x] = NoteTags => \A p \in Parents[x] :
          p = n \/ s.rows[p] # Absent \/ p \in created
  <2> SUFFICES ASSUME NEW x \in X, NEW p \in Parents[x], p # n, s.rows[p] = Absent
               PROVE  p \in created
    OBVIOUS
  <2>1. TableOf[p] = Tags
    BY <1>4, <1>5, ParentsAssumption
  <2> QED
    BY <2>1 DEF NewTags
<1>17. n \notin created \cup X \cup old /\ created \cap old = {}
  <2> HIDE DEF created
  <2> QED
    BY <1>4, <1>5, <1>6, TablesDiffer
<1>11. ASSUME NEW e \in Entity
       PROVE  /\ e = n => rows[e] = note
              /\ e # n /\ e \in created \cup (X \ old) => rows[e] = plain
              /\ e # n /\ e \notin created \cup (X \ old) /\ e \in old \ X
                    => rows[e] = Absent
              /\ e # n /\ e \notin created \cup (X \ old) /\ e \notin old \ X
                    => rows[e] = s.rows[e]
  <2>1. rows[e] = CASE e = n -> note
                    [] e \in created \cup (X \ old) -> plain
                    [] e \in old \ X -> Absent
                    [] OTHER -> s.rows[e]
    OBVIOUS
  <2> HIDE DEF created, old, note, plain, rows
  <2> QED
    BY <1>17, <2>1
<1>12. old \subseteq TagsOf(n)
  OBVIOUS
<1> HIDE DEF created, old, field, Note, note, plain, Rows, rows, s
<1>13. \A e \in Entity : (s.rows[e] # Absent \/ e \in created) /\ TableOf[e] # NoteTags
                            => rows[e] # Absent
  BY <1>5, <1>8, <1>11, <1>12
<1>14. \A e \in Entity : Passed(e, rows[e]) \/ Written(e, rows[e])
  <2> SUFFICES ASSUME NEW e \in Entity PROVE Passed(e, rows[e]) \/ Written(e, rows[e])
    OBVIOUS
  <2>1. CASE e = n
    BY <1>2, <1>4, <1>7, <1>9, <1>11, <2>1 DEF Written
  <2>2. CASE e # n /\ e \in created \cup (X \ old)
    BY <1>5, <1>6, <1>8, <1>11, <2>2, TablesDiffer DEF Written
  <2>3. CASE e # n /\ e \notin created \cup (X \ old)
    BY <1>3, <1>11, <2>3 DEF Passed
  <2> QED
    BY <2>1, <2>2, <2>3
<1>15. ReferencesHold(rows, Entity)
  <2> SUFFICES ASSUME NEW e \in Entity, rows[e] # Absent
               PROVE  /\ \A p \in Parents[e] : rows[p] # Absent
                      /\ rows[e].field # NoField => rows[rows[e].field] # Absent
    BY DEF ReferencesHold
  <2>1. \A p \in Parents[e] : /\ p \in Entity
                              /\ TableOf[p] # NoteTags
                              /\ TableOf[e] \in {NoteTags, NoteLinks}
    BY ParentsAssumption, TablesDiffer
  <2>2. CASE e = n
    BY <1>4, <1>7, <1>9, <1>11, <1>13, <2>1, <2>2, TablesDiffer DEF RowsIn
  <2>3. CASE e # n /\ e \in created
    BY <1>6, <1>8, <1>11, <2>1, <2>3, TablesDiffer
  <2>4. CASE e # n /\ e \in X \ old
    <3>1. \A p \in Parents[e] : rows[p] # Absent
      BY <1>5, <1>8, <1>10, <1>11, <1>13, <2>1, <2>4
    <3> QED
      BY <1>8, <1>11, <2>4, <3>1
  <2>5. CASE e # n /\ e \notin created \cup (X \ old)
    <3>1. rows[e] = s.rows[e] /\ s.rows[e] # Absent
      BY <1>11, <2>5
    <3>2. \A p \in Parents[e] : s.rows[p] # Absent
      BY <1>3, <3>1 DEF ReferencesHold
    <3>3. s.rows[e].field # NoField =>
             s.rows[e].field \in RowsIn(Fields) /\ s.rows[s.rows[e].field] # Absent
      BY <1>3, <3>1 DEF ReferencesHold, PossibleRow
    <3> QED
      BY <1>13, <2>1, <3>1, <3>2, <3>3, TablesDiffer DEF RowsIn
  <2> QED
    BY <2>2, <2>3, <2>4, <2>5
<1>16. KeepsField(s, db'[d])
  <2> SUFFICES ASSUME NEW m \in RowsIn(Notes), Visible(s, m), rows[m] # Absent,
                      rows[m].ver = s.rows[m].ver
               PROVE  rows[m].field = s.rows[m].field
    BY <1>2 DEF KeepsField
  <2>1. m \in Entity /\ TableOf[m] = Notes /\ s.rows[m] # Absent
    BY DEF RowsIn, Visible
  <2>2. \E c \in Recorded : c.id = s.rows[m].ver
    BY <1>3, <2>1 DEF PossibleRow, FactsOf
  <2>3. m # n
    BY <1>2, <1>9, <1>11, <2>1, <2>2 DEF Records
  <2>4. m \notin created \cup X \cup old
    BY <1>5, <1>6, <1>12, <2>1, TablesDiffer
  <2> QED
    BY <1>11, <2>1, <2>3, <2>4
<1> QED
  BY <1>2, <1>14, <1>15, <1>16 DEF SoundEdit, s
LEMMA HideNoteIsSound ==
    ASSUME TypeOK, RowsInv, NoDanglingReference,
           NEW d \in Device, NEW n \in RowsIn(Notes),
           NEW state \in {"archived", "deleted"}, HideNote(d, n, state)
    PROVE  SoundEdit(d)
<1> DEFINE s == db[d]
           Rows(t, ids) == [s.rows EXCEPT ![n].ver = ids[n], ![n].at = t,
                                          ![n].state = state]
           gone == IF state = "deleted" THEN {n} ELSE {}
<1>1. PICK t \in Seconds, ids \in Stamps({n}) : Commit(d, t, ids, Rows(t, ids), gone)
  BY DEF HideNote
<1>2. PICK rows, g : rows = Rows(t, ids) /\ g = gone
  OBVIOUS
<1>3. /\ UNCHANGED <<remote, local, cloud>>
      /\ \A o \in Device \ {d} : db'[o] = db[o]
      /\ Recorded \subseteq Recorded'
      /\ db'[d].rows = rows
      /\ Records(n, ids[n])
  <2>1. PICK S : S = {n}
    OBVIOUS
  <2>2. ids \in Stamps(S) /\ Commit(d, t, ids, rows, g)
    BY <1>1, <1>2, <2>1
  <2>3. /\ UNCHANGED <<remote, local, cloud>>
        /\ \A o \in Device \ {d} : db'[o] = db[o]
        /\ Recorded \subseteq Recorded'
        /\ db'[d].rows = rows
        /\ \A e \in S : Records(e, ids[e])
    BY <2>2, CommitEffect
  <2>4. Records(n, ids[n])
    BY <2>1, <2>3
  <2> QED
    BY <2>3, <2>4
<1>4. /\ s.rows \in [Entity -> Row \cup {Absent}]
      /\ \A e \in Entity :
            PossibleRow(Recorded, e, s.rows[e]) /\ Passed(e, s.rows[e])
      /\ ReferencesHold(s.rows, Entity)
  BY DeviceRows
<1>5. n \in Entity /\ TableOf[n] = Notes /\ s.rows[n] \in Row
  BY <1>4 DEF RowsIn, HideNote, Visible
<1> HIDE DEF s
<1>6. /\ \A e \in Entity \ {n} : rows[e] = s.rows[e]
      /\ rows[n].ver = ids[n] /\ rows[n].field = s.rows[n].field
  BY <1>2, <1>4, <1>5 DEF Row
<1>7. s.rows[n] # Absent
  BY <1>5, AbsentAssumption
<1>8. rows[n] # Absent
  <2>1. ids[n] \in Nat /\ t \in Nat
    BY StampType, SecondsType
  <2>2. rows[n] = [s.rows[n] EXCEPT !.ver = ids[n], !.at = t, !.state = state]
    BY <1>2, <1>4, <1>5
  <2>3. rows[n] \in Row
    BY <1>5, <2>1, <2>2 DEF Row
  <2> QED
    BY <2>3, AbsentAssumption
<1>9. \A e \in Entity : Passed(e, rows[e]) \/ Written(e, rows[e])
  <2> SUFFICES ASSUME NEW e \in Entity PROVE Passed(e, rows[e]) \/ Written(e, rows[e])
    OBVIOUS
  <2>1. CASE e = n
    BY <1>3, <1>4, <1>5, <1>6, <1>7, <2>1 DEF Written, PossibleRow
  <2>2. CASE e # n
    BY <1>4, <1>6, <2>2
  <2> QED
    BY <2>1, <2>2
<1>10. ReferencesHold(rows, Entity)
  <2>1. \A e \in Entity : /\ rows[e] # Absent <=> s.rows[e] # Absent
                          /\ rows[e].field = s.rows[e].field
    BY <1>6, <1>7, <1>8
  <2>2. \A e \in Entity : Parents[e] \subseteq Entity
    BY ParentsAssumption
  <2>3. ASSUME NEW e \in Entity, s.rows[e] # Absent, s.rows[e].field # NoField
        PROVE  s.rows[e].field \in Entity
    BY <1>4, <2>3 DEF PossibleRow, RowsIn
  <2> QED
    BY <1>4, <2>1, <2>2, <2>3 DEF ReferencesHold
<1>11. KeepsField(s, db'[d])
  BY <1>3, <1>6 DEF KeepsField, RowsIn
<1> QED
  BY <1>3, <1>9, <1>10, <1>11 DEF SoundEdit, s

\* The rows of one place.
SaneRows(s) ==
    /\ s.rows \in [Entity -> Row \cup {Absent}]
    /\ \A e \in Entity : /\ PossibleRow(Recorded, e, s.rows[e])
                         /\ s.rows[e] \in RowsOf(e)

\* The rows of s without the fields fs, which no visible note uses.
FieldsDropped(s, fs, rows) ==
    /\ rows = WithoutFields(s.rows, fs)
    /\ fs \subseteq RowsIn(Fields)
    /\ \A f \in fs : ~InUse(s, f)

\* What dropping fields leaves.
FieldsGone(s, fs, rows) ==
    /\ \A e \in Entity : Passed(e, rows[e])
    /\ \A e \in fs : rows[e] = Absent
    /\ \A e \in Entity \ fs :
          /\ rows[e] # Absent <=> s.rows[e] # Absent
          /\ rows[e] # Absent => rows[e].field = NoField
                \/ (rows[e] = s.rows[e] /\ s.rows[e].field \notin fs)
    /\ \A e \in Entity : s.rows[e] # Absent /\ s.rows[e].state = "visible"
          /\ TableOf[e] = Notes => rows[e] = s.rows[e]

LEMMA DroppedFields ==
    ASSUME NEW s, NEW fs, NEW rows, SaneRows(s), FieldsDropped(s, fs, rows)
    PROVE  FieldsGone(s, fs, rows)
<1>1. ASSUME NEW e \in Entity
      PROVE  rows[e] = IF e \in fs THEN Absent
                       ELSE IF s.rows[e] # Absent /\ s.rows[e].field \in fs
                            THEN [s.rows[e] EXCEPT !.field = NoField]
                            ELSE s.rows[e]
  BY DEF FieldsDropped, WithoutFields
<1>2. ASSUME NEW e \in Entity, s.rows[e] # Absent
      PROVE  LET r == [s.rows[e] EXCEPT !.field = NoField]
             IN  /\ r \in Row /\ r # Absent /\ r.field = NoField
                 /\ r.ver = s.rows[e].ver /\ r.state = s.rows[e].state
  BY <1>2, AbsentAssumption DEF Row, SaneRows
<1>3. ASSUME NEW e \in Entity, s.rows[e] # Absent, s.rows[e].field \in fs
      PROVE  TableOf[e] = Notes /\ s.rows[e].state # "visible"
  <2>1. s.rows[e].field # NoField
    BY <1>3, NoFieldAssumption DEF RowsIn, FieldsDropped
  <2>2. TableOf[e] = Notes
    BY <1>3, <2>1 DEF PossibleRow, SaneRows
  <2> QED
    BY <1>3, <2>2 DEF FieldsDropped, InUse, NotesWith, Present, Visible
<1>4. ASSUME NEW e \in Entity PROVE Passed(e, rows[e])
  BY <1>1, <1>2, <1>3 DEF Passed, SaneRows
<1>5. \A e \in fs : e \in Entity /\ TableOf[e] # Notes
  BY TablesDiffer DEF RowsIn, FieldsDropped
<1>6. \A e \in fs : rows[e] = Absent
  BY <1>1, <1>5
<1>7. \A e \in Entity \ fs :
         /\ rows[e] # Absent <=> s.rows[e] # Absent
         /\ rows[e] # Absent => rows[e].field = NoField
               \/ (rows[e] = s.rows[e] /\ s.rows[e].field \notin fs)
  BY <1>1, <1>2
<1>8. \A e \in Entity : s.rows[e] # Absent /\ s.rows[e].state = "visible"
         /\ TableOf[e] = Notes => rows[e] = s.rows[e]
  BY <1>1, <1>3, <1>5
<1> QED
  BY <1>4, <1>6, <1>7, <1>8 DEF FieldsGone

\* The rows of s without E, whose tables let rows go; the notes that used one
\* of its fields are hidden and have lost it.
RowsGo(s, E, rows) ==
    LET fs == {f \in E : TableOf[f] = Fields}
    IN  /\ E \subseteq Entity
        /\ \A e \in E : Removable(e)
        /\ \A f \in fs : ~InUse(s, f)
        /\ \A e \in Entity :
              rows[e] = IF e \in E THEN Absent ELSE WithoutFields(s.rows, fs)[e]

\* What a step may put in the place of the rows of s: every row comes from
\* somewhere, no reference dangles and visible notes keep their fields.
RowsFit(s, rows) ==
    /\ \A e \in Entity : Passed(e, rows[e])
    /\ ReferencesHold(rows, Entity)
    /\ \A t : t.rows = rows => KeepsField(s, t)

LEMMA RemovedRows ==
    ASSUME NEW s, NEW E, NEW rows, SaneRows(s), ReferencesHold(s.rows, Entity),
           RowsGo(s, E, rows)
    PROVE  RowsFit(s, rows)
<1>1. PICK fs : fs = {f \in E : TableOf[f] = Fields}
  OBVIOUS
<1>2. PICK left : left = WithoutFields(s.rows, fs)
  OBVIOUS
<1>3. FieldsGone(s, fs, left)
  <2>1. FieldsDropped(s, fs, left)
    BY <1>1, <1>2 DEF FieldsDropped, RowsGo, RowsIn
  <2> QED
    BY <2>1, DroppedFields
<1>4. \A e \in E : e \in Entity /\ TableOf[e] \in {Fields, NoteTags, NoteLinks}
  BY RemovableTables DEF RowsGo
<1>5. \A e \in Entity : rows[e] = IF e \in E THEN Absent ELSE left[e]
  BY <1>1, <1>2 DEF RowsGo
<1>6. \A e \in Entity : Passed(e, rows[e])
  BY <1>3, <1>5 DEF Passed, FieldsGone
<1>7. ReferencesHold(rows, Entity)
  <2> SUFFICES ASSUME NEW e \in Entity, rows[e] # Absent
               PROVE  /\ \A p \in Parents[e] : rows[p] # Absent
                      /\ rows[e].field # NoField => rows[rows[e].field] # Absent
    BY DEF ReferencesHold
  <2>1. e \notin E /\ rows[e] = left[e] /\ s.rows[e] # Absent
    BY <1>1, <1>3, <1>5 DEF FieldsGone
  <2>2. ASSUME NEW p \in Parents[e] PROVE rows[p] # Absent
    <3>1. p \in Entity /\ TableOf[p] \in {Notes, Tags}
      BY ParentsAssumption
    <3>2. p \notin E
      BY <1>4, <3>1, TablesDiffer
    <3>3. s.rows[p] # Absent
      BY <2>1 DEF ReferencesHold
    <3> QED
      BY <1>1, <1>3, <1>5, <3>1, <3>2, <3>3 DEF FieldsGone
  <2>3. ASSUME rows[e].field # NoField PROVE rows[rows[e].field] # Absent
    <3> DEFINE g == rows[e].field
    <3>1. rows[e] = s.rows[e] /\ g \notin fs
      BY <1>1, <1>3, <1>5, <2>1, <2>3 DEF FieldsGone
    <3>2. g \in RowsIn(Fields) /\ s.rows[g] # Absent
      BY <2>1, <2>3, <3>1 DEF SaneRows, PossibleRow, ReferencesHold
    <3>3. g \in Entity /\ g \notin E
      BY <1>1, <3>1, <3>2 DEF RowsIn
    <3> QED
      BY <1>1, <1>3, <1>5, <3>1, <3>2, <3>3 DEF FieldsGone
  <2> QED
    BY <2>2, <2>3
<1>8. ASSUME NEW n \in RowsIn(Notes), Visible(s, n), rows[n] # Absent
      PROVE  rows[n].field = s.rows[n].field
  BY <1>3, <1>4, <1>5, <1>8 DEF FieldsGone, Visible, RowsIn
<1>9. ASSUME NEW t, t.rows = rows PROVE KeepsField(s, t)
  BY <1>8, <1>9 DEF KeepsField
<1> QED
  BY <1>6, <1>7, <1>9 DEF RowsFit

\* Where nobody has one of the fields, nothing else changes.
LEMMA NobodyUses ==
    ASSUME NEW s, SaneRows(s), NEW fs, \A e \in fs : NotesWith(s, e) = {},
           NoField \notin fs, NEW e \in Entity, e \notin fs
    PROVE  WithoutFields(s.rows, fs)[e] = s.rows[e]
BY DEF WithoutFields, SaneRows, PossibleRow, NotesWith, Present

\* Rows go and nobody had a field among them.
LEMMA UnusedRowsGo ==
    ASSUME NEW s, SaneRows(s), NEW E \in SUBSET Entity, \A e \in E : Removable(e),
           \A e \in E : TableOf[e] = Fields => NotesWith(s, e) = {}, NEW rows,
           \A e \in Entity : rows[e] = IF e \in E THEN Absent ELSE s.rows[e]
    PROVE  RowsGo(s, E, rows)
<1>1. PICK fs : fs = {f \in E : TableOf[f] = Fields}
  OBVIOUS
<1>2. \A e \in fs : NotesWith(s, e) = {} /\ ~InUse(s, e) /\ e \in E
  BY <1>1 DEF InUse
<1>3. NoField \notin fs
  BY <1>1, NoFieldAssumption
<1>4. \A e \in Entity : e \notin E => WithoutFields(s.rows, fs)[e] = s.rows[e]
  BY <1>2, <1>3, NobodyUses
<1> QED
  BY <1>1, <1>2, <1>4 DEF RowsGo

LEMMA StoredRowsAreSane ==
    ASSUME TypeOK, RowsInv, NoDanglingReference
    PROVE  /\ SaneRows(remote) /\ ReferencesHold(remote.rows, Entity)
           /\ \A d \in Device : SaneRows(db[d]) /\ ReferencesHold(db[d].rows, Entity)
<1>1. /\ remote \in Snapshot /\ remote \in Places
      /\ \A d \in Device : db[d] \in Snapshot /\ db[d] \in Places
  BY DEF TypeOK, Places
<1>2. ASSUME NEW s \in Places, s \in Snapshot PROVE SaneRows(s)
  BY <1>2 DEF Snapshot, RowsInv, RowsOf, SaneRows
<1> QED
  BY <1>1, <1>2 DEF NoDanglingReference

LEMMA DeleteFieldIsSound ==
    ASSUME TypeOK, RowsInv, NoDanglingReference,
           NEW d \in Device, NEW f \in RowsIn(Fields), DeleteField(d, f)
    PROVE  SoundEdit(d)
<1> DEFINE s == db[d]
<1>1. PICK t \in Seconds, ids \in Stamps({f}) :
         Commit(d, t, ids, WithoutFields(s.rows, {f}), {f})
  BY DEF DeleteField
<1>2. PICK rows, g : rows = WithoutFields(s.rows, {f}) /\ g = {f}
  OBVIOUS
<1>3. /\ UNCHANGED <<remote, local, cloud>>
      /\ \A o \in Device \ {d} : db'[o] = db[o]
      /\ Recorded \subseteq Recorded'
      /\ db'[d].rows = rows
      /\ \A e \in g : Records(e, ids[e])
  <2>1. ids \in Stamps(g) /\ Commit(d, t, ids, rows, g)
    BY <1>1, <1>2
  <2> QED
    BY <2>1, CommitEffect
<1>4. f \in Entity /\ TableOf[f] = Fields /\ ~InUse(s, f)
  BY DEF RowsIn, DeleteField
<1>5. \A e \in g : Removable(e)
  BY <1>2, <1>4, RemovableTables
<1>6. RowsGo(s, g, rows)
  <2>1. {h \in g : TableOf[h] = Fields} = {f}
    BY <1>2, <1>4
  <2>2. \A e \in Entity :
           rows[e] = IF e \in g THEN Absent ELSE WithoutFields(s.rows, {f})[e]
    BY <1>2 DEF WithoutFields
  <2> QED
    BY <1>2, <1>4, <1>5, <2>1, <2>2 DEF RowsGo
<1>7. RowsFit(s, rows)
  <2>1. PICK u : u = s
    OBVIOUS
  <2>2. RowsGo(u, g, rows) /\ SaneRows(u) /\ ReferencesHold(u.rows, Entity)
    BY <1>6, <2>1, StoredRowsAreSane
  <2> QED
    BY <2>1, <2>2, RemovedRows
<1> QED
  BY <1>3, <1>7 DEF SoundEdit, RowsFit

LEMMA RemoveTagIsSound ==
    ASSUME TypeOK, RowsInv, NoDanglingReference,
           NEW d \in Device, NEW n \in RowsIn(Notes), NEW x \in TagsOf(n),
           RemoveTag(d, n, x)
    PROVE  SoundEdit(d)
<1> DEFINE s == db[d]
<1>1. PICK t \in Seconds, ids \in Stamps({x}) :
         Commit(d, t, ids, [s.rows EXCEPT ![x] = Absent], {x})
  BY DEF RemoveTag
<1>2. PICK rows, u, g : rows = [s.rows EXCEPT ![x] = Absent] /\ u = s /\ g = {x}
  OBVIOUS
<1>3. /\ UNCHANGED <<remote, local, cloud>>
      /\ \A o \in Device \ {d} : db'[o] = db[o]
      /\ Recorded \subseteq Recorded'
      /\ db'[d].rows = rows
      /\ \A e \in g : Records(e, ids[e])
  <2>1. ids \in Stamps(g) /\ Commit(d, t, ids, rows, g)
    BY <1>1, <1>2
  <2> QED
    BY <2>1, CommitEffect
<1>4. SaneRows(u) /\ ReferencesHold(u.rows, Entity)
  BY <1>2, StoredRowsAreSane
<1>5. x \in Entity /\ TableOf[x] = NoteTags
  BY DEF TagsOf
<1>6. RowsGo(u, g, rows)
  <2>1. \A e \in g : Removable(e) /\ TableOf[e] # Fields
    BY <1>2, <1>5, RemovableTables, TablesDiffer
  <2>2. \A e \in Entity : rows[e] = IF e \in g THEN Absent ELSE u.rows[e]
    BY <1>2, <1>4 DEF SaneRows
  <2> QED
    BY <1>2, <1>4, <1>5, <2>1, <2>2, UnusedRowsGo
<1>7. RowsFit(u, rows)
  BY <1>4, <1>6, RemovedRows
<1> QED
  BY <1>2, <1>3, <1>7 DEF SoundEdit, RowsFit

LEMMA AddTagIsSound ==
    ASSUME TypeOK, RowsInv, NoDanglingReference,
           NEW d \in Device, NEW n \in RowsIn(Notes), NEW x \in TagsOf(n),
           AddTag(d, n, x)
    PROVE  SoundEdit(d)
<1> DEFINE s == db[d]
           created == {x} \cup NewTags(s, {x})
           Rows(t) == [e \in Entity |-> IF e \in created THEN PlainRow(t) ELSE s.rows[e]]
<1>1. PICK t \in Seconds, ids \in Stamps(created) : Commit(d, t, ids, Rows(t), {})
  BY DEF AddTag
<1>2. PICK rows, A, p, g :
         rows = Rows(t) /\ A = created /\ p = PlainRow(t) /\ g = {}
  OBVIOUS
<1>3. /\ UNCHANGED <<remote, local, cloud>>
      /\ \A o \in Device \ {d} : db'[o] = db[o]
      /\ Recorded \subseteq Recorded'
      /\ db'[d].rows = rows
      /\ \A e \in A : Records(e, ids[e])
  <2>1. ids \in Stamps(A) /\ Commit(d, t, ids, rows, g)
    BY <1>1, <1>2
  <2> QED
    BY <2>1, CommitEffect
<1>4. /\ s.rows \in [Entity -> Row \cup {Absent}]
      /\ \A e \in Entity :
            PossibleRow(Recorded, e, s.rows[e]) /\ Passed(e, s.rows[e])
      /\ ReferencesHold(s.rows, Entity)
  BY DeviceRows
<1>5. p # Absent /\ p.field = NoField
  BY <1>2, SecondsType, PlainRowType, AbsentAssumption DEF PlainRow
<1>6. /\ x \in Entity /\ TableOf[x] = NoteTags /\ n \in Parents[x]
      /\ n \in Entity /\ TableOf[n] = Notes /\ s.rows[n] # Absent
  BY DEF TagsOf, RowsIn, AddTag, Visible
<1>7. Parents[x] \subseteq Entity
  BY <1>6, ParentsAssumption
<1>8. A = {x} \cup {t2 \in Parents[x] : TableOf[t2] = Tags /\ s.rows[t2] = Absent}
  BY <1>2 DEF NewTags
<1>9. \A e \in Entity : rows[e] = IF e \in A THEN p ELSE s.rows[e]
  BY <1>2
<1> HIDE DEF created, Rows, s
<1>10. \A e \in A : TableOf[e] \in {NoteTags, Tags}
  BY <1>6, <1>8
<1>11. \A e \in Entity : Passed(e, rows[e]) \/ Written(e, rows[e])
  BY <1>4, <1>5, <1>9, <1>10, TablesDiffer DEF Written
<1>12. \A e \in Entity : s.rows[e] # Absent => rows[e] # Absent
  BY <1>5, <1>9
<1>13. ReferencesHold(rows, Entity)
  <2> SUFFICES ASSUME NEW e \in Entity, rows[e] # Absent
               PROVE  /\ \A q \in Parents[e] : rows[q] # Absent
                      /\ rows[e].field # NoField => rows[rows[e].field] # Absent
    BY DEF ReferencesHold
  <2>1. \A q \in Parents[e] : /\ q \in Entity
                              /\ TableOf[e] \in {NoteTags, NoteLinks}
                              /\ TableOf[q] \in {Notes, Tags}
    BY ParentsAssumption
  <2>2. CASE e = x
    <3>1. \A q \in Parents[x] : TableOf[q] = Notes => q = n
      BY <1>6, ParentsAssumption
    <3>2. \A q \in Parents[x] : q = n \/ s.rows[q] # Absent \/ q \in A
      BY <1>8, <2>1, <2>2, <3>1
    <3>3. \A q \in Parents[x] : rows[q] # Absent
      BY <1>5, <1>6, <1>7, <1>9, <1>12, <3>2
    <3> QED
      BY <1>5, <1>8, <1>9, <2>2, <3>3
  <2>3. CASE e # x /\ e \in A
    BY <1>5, <1>8, <1>9, <2>1, <2>3, TablesDiffer
  <2>4. CASE e \notin A
    <3>1. rows[e] = s.rows[e] /\ s.rows[e] # Absent
      BY <1>9, <2>4
    <3>2. s.rows[e].field # NoField => s.rows[e].field \in Entity
      BY <1>4, <3>1 DEF PossibleRow, RowsIn
    <3> QED
      BY <1>4, <1>12, <2>1, <3>1, <3>2 DEF ReferencesHold
  <2> QED
    BY <2>2, <2>3, <2>4
<1>14. KeepsField(s, db'[d])
  <2>1. \A m \in RowsIn(Notes) : rows[m] = s.rows[m]
    BY <1>9, <1>10, TablesDiffer DEF RowsIn
  <2> QED
    BY <1>3, <2>1 DEF KeepsField
<1> QED
  BY <1>3, <1>11, <1>13, <1>14 DEF SoundEdit, s

LEMMA EditIsSound ==
    ASSUME TypeOK, RowsInv, NoDanglingReference, NEW d \in Device, Edit(d)
    PROVE  SoundEdit(d)
BY WriteNoteIsSound, HideNoteIsSound, DeleteFieldIsSound, AddTagIsSound,
   RemoveTagIsSound DEF Edit
-----------------------------------------------------------------------------
\* The steps of a cycle.

RefInv == RowsInv /\ NoDanglingReference

FieldsKept == (\A d \in Device : KeepsField(db[d], db'[d])) /\ KeepsField(remote, remote')

LEMMA SameFields == \A s : KeepsField(s, s)
BY DEF KeepsField

LEMMA EditKeepsRefInv ==
    ASSUME TypeOK, RefInv, NEW d \in Device, Edit(d)
    PROVE  RefInv' /\ FieldsKept
<1>1. SoundEdit(d)
  BY EditIsSound DEF RefInv
<1>2. RowsInv'
  <2>1. ASSUME NEW e \in Entity
        PROVE  \A r \in RowsOf(e)' : /\ PossibleRow(Recorded', e, r)
                                     /\ \A q \in RowsOf(e)' : SameVersion(e, q, r)
    <3>1. PICK w : w = db'[d].rows[e]
      OBVIOUS
    <3>2. Passed(e, w) \/ Written(e, w)
      BY <1>1, <3>1 DEF SoundEdit
    <3>3. \A r \in RowsOf(e)' : r = w \/ r \in RowsOf(e)
      BY <1>1, <3>1 DEF SoundEdit, RowsOf, Places
    <3>4. \A r \in RowsOf(e)' : Passed(e, r) \/ (r = w /\ Written(e, w))
      BY <3>2, <3>3 DEF Passed
    <3> QED
      BY <1>1, <3>4, RowsMove DEF SoundEdit, RefInv
  <2> QED
    BY <2>1 DEF RowsInv
<1>3. NoDanglingReference'
  BY <1>1 DEF SoundEdit, RefInv, NoDanglingReference
<1>4. FieldsKept
  <2>1. \A o \in Device : o = d \/ db'[o] = db[o]
    BY <1>1 DEF SoundEdit
  <2>2. KeepsField(db[d], db'[d]) /\ remote' = remote
    BY <1>1 DEF SoundEdit
  <2> QED
    BY <2>1, <2>2, SameFields DEF FieldsKept
<1> QED
  BY <1>2, <1>3, <1>4 DEF RefInv

\* The snapshots that tasks hold after the step.
SnapshotsPass ==
    \A e \in Entity, c \in Cycle :
        Passed(e, local'[c].rows[e]) /\ Passed(e, cloud'[c].rows[e])

\* A step that leaves the databases alone.
LEMMA SnapshotStep ==
    ASSUME RefInv, db' = db, remote' = remote, SnapshotsPass
    PROVE  RefInv' /\ FieldsKept
<1>1. Recorded' = Recorded
  BY DEF Recorded
<1>2. RowsInv'
  BY <1>1, PlacesPass, RowsInvKept DEF RefInv, SnapshotsPass
<1>3. NoDanglingReference'
  BY DEF RefInv, NoDanglingReference
<1>4. FieldsKept
  BY SameFields DEF FieldsKept
<1> QED
  BY <1>2, <1>3, <1>4 DEF RefInv

LEMMA SameSnapshotsPass ==
    ASSUME local' = local, cloud' = cloud
    PROVE  SnapshotsPass
BY PlacesPass DEF SnapshotsPass

LEMMA FinishPasses ==
    ASSUME TypeOK, NEW c \in Cycle, NEW outcome, Finish(c, outcome)
    PROVE  SnapshotsPass
<1>1. /\ local' = [local EXCEPT ![c] = EmptySnapshot]
      /\ cloud' = [cloud EXCEPT ![c] = EmptySnapshot]
      /\ local \in [Cycle -> Snapshot] /\ cloud \in [Cycle -> Snapshot]
  BY DEF Finish, Put, TypeOK
<1>2. \A e \in Entity : Passed(e, EmptySnapshot.rows[e])
  BY DEF EmptySnapshot, Passed
<1> QED
  BY <1>1, <1>2, PlacesPass DEF SnapshotsPass

LEMMA ReadPasses ==
    ASSUME TypeOK, NEW c \in Cycle, ReadLocal(c) \/ ReadRemote(c)
    PROVE  SnapshotsPass
<1> DEFINE with(held, s) == WithTable(held, s, cursor[c])
<1>1. ASSUME NEW e \in Entity, NEW held, NEW s,
             Passed(e, held.rows[e]), Passed(e, s.rows[e])
      PROVE  Passed(e, with(held, s).rows[e])
  BY <1>1 DEF WithTable
<1>2. /\ local \in [Cycle -> Snapshot] /\ cloud \in [Cycle -> Snapshot]
      /\ Owner[c] \in Device
  BY OwnerAssumption DEF TypeOK
<1> HIDE DEF with
<1>3. CASE ReadLocal(c)
  <2>1. /\ local' = [local EXCEPT ![c] = with(local[c], db[Owner[c]])]
        /\ cloud' = cloud
    BY <1>3 DEF ReadLocal, Put, with
  <2>2. \A e \in Entity : Passed(e, with(local[c], db[Owner[c]]).rows[e])
    BY <1>1, <1>2, PlacesPass
  <2> QED
    BY <1>2, <2>1, <2>2, PlacesPass DEF SnapshotsPass
<1>4. CASE ReadRemote(c)
  <2>1. /\ cloud' = [cloud EXCEPT ![c] = with(cloud[c], remote)]
        /\ local' = local
    BY <1>4 DEF ReadRemote, Put, with
  <2>2. \A e \in Entity : Passed(e, with(cloud[c], remote).rows[e])
    BY <1>1, PlacesPass
  <2> QED
    BY <1>2, <2>1, <2>2, PlacesPass DEF SnapshotsPass
<1> QED
  BY <1>3, <1>4

\* Rows copied over those of s, once the database has checked the references
\* of what is written.
LEMMA OverwrittenRows ==
    ASSUME RowsInv, NEW s, NEW u, SaneRows(s), SaneRows(u),
           ReferencesHold(s.rows, Entity), NEW E, \A e \in E : u.rows[e] # Absent,
           NEW rows, rows = Overwrite(s.rows, E, u), ReferencesHold(rows, E)
    PROVE  RowsFit(s, rows)
<1>1. \A e \in Entity : rows[e] = IF e \in E THEN u.rows[e] ELSE s.rows[e]
  BY DEF Overwrite
<1>2. \A e \in Entity : Passed(e, rows[e])
  BY <1>1 DEF Passed, SaneRows
<1>3. \A e \in Entity : s.rows[e] # Absent => rows[e] # Absent
  BY <1>1
<1>4. ReferencesHold(rows, Entity)
  <2> SUFFICES ASSUME NEW e \in Entity, rows[e] # Absent, e \notin E
               PROVE  /\ \A p \in Parents[e] : rows[p] # Absent
                      /\ rows[e].field # NoField => rows[rows[e].field] # Absent
    BY DEF ReferencesHold
  <2>1. rows[e] = s.rows[e] /\ Parents[e] \subseteq Entity
    BY <1>1, ParentsAssumption
  <2>2. s.rows[e].field # NoField => s.rows[e].field \in Entity
    BY <2>1 DEF SaneRows, PossibleRow, RowsIn
  <2> QED
    BY <1>3, <2>1, <2>2 DEF ReferencesHold
<1>5. ASSUME NEW n \in RowsIn(Notes), Visible(s, n), rows[n] # Absent,
             rows[n].ver = s.rows[n].ver
      PROVE  rows[n].field = s.rows[n].field
  <2>1. n \in Entity /\ TableOf[n] = Notes
    BY DEF RowsIn
  <2>2. SameVersion(n, s.rows[n], u.rows[n])
    BY <2>1 DEF SaneRows, RowsInv
  <2> QED
    BY <1>1, <1>5, <2>1, <2>2 DEF SameVersion, Visible
<1>6. ASSUME NEW t, t.rows = rows PROVE KeepsField(s, t)
  BY <1>5, <1>6 DEF KeepsField
<1> QED
  BY <1>2, <1>4, <1>6 DEF RowsFit

LEMMA HeldRowsAreSane ==
    ASSUME TypeOK, RowsInv, NEW c \in Cycle
    PROVE  SaneRows(local[c]) /\ SaneRows(cloud[c])
<1>1. /\ local[c] \in Snapshot /\ local[c] \in Places
      /\ cloud[c] \in Snapshot /\ cloud[c] \in Places
  BY DEF TypeOK, Places
<1> QED
  BY <1>1 DEF Snapshot, RowsInv, RowsOf, SaneRows

\* The rows of one device change, or those of the remote database.
LEMMA DeviceStep ==
    ASSUME RefInv, Recorded \subseteq Recorded', remote' = remote,
           local' = local, cloud' = cloud,
           NEW d \in Device, \A o \in Device \ {d} : db'[o] = db[o],
           RowsFit(db[d], db'[d].rows)
    PROVE  RefInv' /\ FieldsKept
<1>1. \A o \in Device : o = d \/ db'[o] = db[o]
  OBVIOUS
<1>2. ASSUME NEW e \in Entity, NEW o \in Device PROVE Passed(e, db'[o].rows[e])
  BY <1>1, PlacesPass DEF RowsFit
<1>3. RowsInv'
  BY <1>2, PlacesPass, RowsInvKept DEF RefInv
<1>4. NoDanglingReference'
  BY <1>1 DEF RowsFit, RefInv, NoDanglingReference
<1>5. FieldsKept
  BY <1>1, SameFields DEF RowsFit, FieldsKept
<1> QED
  BY <1>3, <1>4, <1>5 DEF RefInv

LEMMA RemoteStep ==
    ASSUME RefInv, db' = db, local' = local, cloud' = cloud,
           RowsFit(remote, remote'.rows)
    PROVE  RefInv' /\ FieldsKept
<1>1. Recorded' = Recorded
  BY DEF Recorded
<1>2. RowsInv'
  BY <1>1, PlacesPass, RowsInvKept DEF RefInv, RowsFit
<1>3. NoDanglingReference'
  BY DEF RowsFit, RefInv, NoDanglingReference
<1>4. FieldsKept
  BY SameFields DEF RowsFit, FieldsKept
<1> QED
  BY <1>2, <1>3, <1>4 DEF RefInv

LEMMA UpsertedRowsArePresent ==
    ASSUME NEW l, NEW r
    PROVE  /\ \A e \in UpsertLocal(l, r) : r.rows[e] # Absent
           /\ \A e \in UpsertRemote(l, r) : l.rows[e] # Absent
BY DEF UpsertLocal, UpsertRemote, FillsGap, Prevails

LEMMA FailKeepsRefInv ==
    ASSUME TypeOK, RefInv, NEW c \in Cycle, Fail(c)
    PROVE  RefInv' /\ FieldsKept
BY FinishPasses, SnapshotStep DEF Fail

LEMMA WriteLocalKeepsRefInv ==
    ASSUME FactsInv, RefInv, NEW c \in Cycle, WriteLocal(c)
    PROVE  RefInv' /\ FieldsKept
<1>1. CASE Fail(c)
  BY <1>1, FailKeepsRefInv DEF FactsInv
<1>2. CASE ~Fail(c)
  <2>1. PICK d, E, rows, s, u :
           /\ d = Owner[c] /\ E = UpsertLocal(local[c], cloud[c])
           /\ rows = Overwrite(db[d].rows, E, cloud[c]) /\ s = db[d] /\ u = cloud[c]
    OBVIOUS
  <2>2. /\ db' = [db EXCEPT ![d] =
                    [rows |-> rows, log |-> db[d].log \cup FactsLocal(local[c], cloud[c])]]
        /\ ReferencesHold(rows, E)
        /\ UNCHANGED <<remote, local, cloud>>
    BY <1>2, <2>1 DEF WriteLocal, Advance
  <2>3. d \in Device /\ db \in [Device -> Snapshot]
    BY <2>1, OwnerAssumption DEF FactsInv, TypeOK
  <2>4. SaneRows(s) /\ SaneRows(u) /\ ReferencesHold(s.rows, Entity)
    BY <2>1, <2>3, StoredRowsAreSane, HeldRowsAreSane DEF FactsInv, RefInv
  <2>5. \A e \in E : u.rows[e] # Absent
    BY <2>1, UpsertedRowsArePresent
  <2>6. RowsFit(s, rows)
    <3>1. rows = Overwrite(s.rows, E, u)
      BY <2>1
    <3> QED
      BY <2>2, <2>4, <2>5, <3>1, OverwrittenRows DEF RefInv
  <2>7. /\ db'[d].rows = rows /\ \A o \in Device \ {d} : db'[o] = db[o]
        /\ Recorded \subseteq Recorded'
    BY <2>2, <2>3 DEF Recorded
  <2> QED
    BY <2>1, <2>2, <2>3, <2>6, <2>7, DeviceStep
<1> QED
  BY <1>1, <1>2

LEMMA WriteRemoteKeepsRefInv ==
    ASSUME FactsInv, RefInv, NEW c \in Cycle, WriteRemote(c)
    PROVE  RefInv' /\ FieldsKept
<1>1. CASE Fail(c)
  BY <1>1, FailKeepsRefInv DEF FactsInv
<1>2. CASE ~Fail(c)
  <2>1. PICK E, rows, s, u :
           /\ E = {e \in UpsertRemote(local[c], cloud[c]) : TableOf[e] = cursor[c]}
           /\ rows = Overwrite(remote.rows, E, local[c]) /\ s = remote /\ u = local[c]
    OBVIOUS
  <2>2. /\ remote'.rows = rows
        /\ ReferencesHold(rows, E)
        /\ UNCHANGED <<db, local, cloud>>
    BY <1>2, <2>1 DEF WriteRemote, Advance, dbVars
  <2>3. SaneRows(s) /\ SaneRows(u) /\ ReferencesHold(s.rows, Entity)
    BY <2>1, StoredRowsAreSane, HeldRowsAreSane DEF FactsInv, RefInv
  <2>4. \A e \in E : u.rows[e] # Absent
    BY <2>1, UpsertedRowsArePresent
  <2>5. RowsFit(s, rows)
    <3>1. rows = Overwrite(s.rows, E, u)
      BY <2>1
    <3> QED
      BY <2>2, <2>3, <2>4, <3>1, OverwrittenRows DEF RefInv
  <2> QED
    BY <2>1, <2>2, <2>5, RemoteStep
<1> QED
  BY <1>1, <1>2

LEMMA DeleteLocalRowsKeepsRefInv ==
    ASSUME FactsInv, RefInv, NEW c \in Cycle, DeleteLocalRows(c)
    PROVE  RefInv' /\ FieldsKept
<1>1. CASE Fail(c)
  BY <1>1, FailKeepsRefInv DEF FactsInv
<1>2. CASE ~Fail(c)
  <2>1. PICK d, E, s, fs : /\ d = Owner[c] /\ E = DeleteLocal(local[c], cloud[c])
                           /\ s = db[d] /\ fs = {f \in E : TableOf[f] = Fields}
    OBVIOUS
  <2>2. PICK rows :
           rows = [e \in Entity |-> IF e \in E THEN Absent ELSE WithoutFields(s.rows, fs)[e]]
    OBVIOUS
  <2>3. /\ db' = [db EXCEPT ![d].rows = rows]
        /\ \A f \in fs : ~InUse(s, f)
        /\ UNCHANGED <<remote, local, cloud>>
    BY <1>2, <2>1, <2>2 DEF DeleteLocalRows, Advance
  <2>4. d \in Device /\ db \in [Device -> Snapshot] /\ db[d] \in Snapshot
    BY <2>1, OwnerAssumption DEF FactsInv, TypeOK
  <2>5. SaneRows(s) /\ ReferencesHold(s.rows, Entity)
    BY <2>1, <2>4, StoredRowsAreSane DEF FactsInv, RefInv
  <2>6. \A e \in E : e \in Entity /\ Removable(e)
    BY <2>1 DEF DeleteLocal, LosesRow
  <2>7. RowsFit(s, rows)
    <3>1. \A e \in Entity :
             rows[e] = IF e \in E THEN Absent ELSE WithoutFields(s.rows, fs)[e]
      BY <2>2
    <3>2. RowsGo(s, E, rows)
      BY <2>1, <2>3, <2>6, <3>1 DEF RowsGo
    <3> QED
      BY <2>5, <3>2, RemovedRows
  <2>8. /\ db'[d].rows = rows /\ \A o \in Device \ {d} : db'[o] = db[o]
        /\ \A o \in Device : db'[o].log = db[o].log
    BY <2>3, <2>4 DEF Snapshot
  <2>9. Recorded \subseteq Recorded'
    BY <2>8 DEF Recorded
  <2> QED
    BY <2>1, <2>3, <2>4, <2>7, <2>8, <2>9, DeviceStep
<1> QED
  BY <1>1, <1>2

LEMMA DeleteRemoteRowKeepsRefInv ==
    ASSUME FactsInv, RefInv, NEW c \in Cycle, PlanInv(c), NEW e \in Entity,
           DeleteRemoteRow(c, e)
    PROVE  RefInv' /\ FieldsKept
<1>1. CASE Fail(c)
  BY <1>1, FailKeepsRefInv DEF FactsInv
<1>2. CASE ~Fail(c)
  <2>1. PICK E, s, rows : /\ E = {e} /\ s = remote
                          /\ rows = [remote.rows EXCEPT ![e] = Absent]
    OBVIOUS
  <2>2. /\ remote' = [remote EXCEPT !.rows[e] = Absent]
        /\ NotesWith(s, e) = {}
        /\ UNCHANGED <<db, local, cloud>>
        /\ pc[c] = "deleteRemote" /\ e \in todo[c]
    BY <1>2, <2>1 DEF DeleteRemoteRow, dbVars
  <2>3. SaneRows(s) /\ ReferencesHold(s.rows, Entity) /\ remote \in Snapshot
    BY <2>1, StoredRowsAreSane DEF FactsInv, RefInv, TypeOK
  <2>4. remote'.rows = rows
    BY <2>1, <2>2, <2>3 DEF Snapshot
  <2>5. Removable(e)
    BY <2>2 DEF PlanInv, TodoIsPlanned, Writing, DeleteRemote, LosesRow
  <2>6. RowsGo(s, E, rows)
    <3>1. \A o \in Entity : rows[o] = IF o \in E THEN Absent ELSE s.rows[o]
      BY <2>1, <2>3 DEF SaneRows
    <3> QED
      BY <2>1, <2>2, <2>3, <2>5, <3>1, UnusedRowsGo
  <2>7. RowsFit(s, rows)
    BY <2>3, <2>6, RemovedRows
  <2> QED
    BY <2>1, <2>2, <2>4, <2>7, RemoteStep
<1> QED
  BY <1>1, <1>2

LEMMA NextRefInv ==
    ASSUME FactsInv, DeletionInv, RefInv, [Next]_vars
    PROVE  RefInv' /\ FieldsKept
<1>1. TypeOK
  BY DEF FactsInv
<1>2. ASSUME NEW d \in Device, Edit(d) PROVE RefInv' /\ FieldsKept
  BY <1>1, <1>2, EditKeepsRefInv
<1>3. CASE UNCHANGED <<db, remote, local, cloud>>
  BY <1>3, SameSnapshotsPass, SnapshotStep
<1>4. ASSUME NEW c \in Cycle, NEW k \in Kinds[c], Start(c, k)
      PROVE  RefInv' /\ FieldsKept
  BY <1>3, <1>4 DEF Start, dbVars
<1>5. ASSUME NEW c \in Cycle, CycleStep(c) PROVE RefInv' /\ FieldsKept
  <2>1. PlanInv(c)
    BY DEF DeletionInv
  <2>2. CASE ReadLocal(c) \/ ReadRemote(c)
    BY <1>1, <2>2, ReadPasses, SnapshotStep DEF ReadLocal, ReadRemote, dbVars
  <2>3. CASE Decide(c)
    <3>1. CASE Finish(c, "conflict")
      BY <1>1, <2>3, <3>1, FinishPasses, SnapshotStep DEF Decide, dbVars
    <3>2. CASE Advance(c)
      BY <1>3, <2>3, <3>2 DEF Decide, Advance, dbVars
    <3> QED
      BY <2>3, <3>1, <3>2 DEF Decide
  <2>4. CASE DeletedRemote(c)
    BY <1>3, <2>4 DEF DeletedRemote, Advance, dbVars
  <2>5. CASE Judge(c)
    BY <1>1, <2>5, FinishPasses, SnapshotStep DEF Judge, dbVars
  <2> QED
    BY <1>5, <2>1, <2>2, <2>3, <2>4, <2>5, WriteLocalKeepsRefInv,
       WriteRemoteKeepsRefInv, DeleteLocalRowsKeepsRefInv, DeleteRemoteRowKeepsRefInv
       DEF CycleStep
<1>6. ASSUME NEW c \in Cycle, Abort(c) PROVE RefInv' /\ FieldsKept
  BY <1>1, <1>6, FinishPasses, SnapshotStep DEF Abort, dbVars
<1>7. CASE UNCHANGED vars
  BY <1>3, <1>7 DEF vars
<1> QED
  BY <1>2, <1>4, <1>5, <1>6, <1>7 DEF Next

LEMMA RefInvHolds == Spec => []RefInv
<1>1. Init => RefInv
  BY InitRowsInv DEF RefInv
<1>2. FactsInv /\ DeletionInv /\ RefInv /\ [Next]_vars => RefInv'
  BY NextRefInv
<1> QED
  BY <1>1, <1>2, FactsInvHolds, DeletionInvHolds, PTL DEF Spec

\* No edit, cycle or abort, in whatever order, leaves a row in any database
\* that refers to a row which is not there.
THEOREM ReferencesNeverDangle == Spec => []NoDanglingReference
<1>1. RefInv => NoDanglingReference
  BY DEF RefInv
<1> QED
  BY <1>1, RefInvHolds, PTL

\* A visible note whose version stays keeps its field, whichever device
\* deletes fields and whichever snapshot a cycle writes back.
THEOREM VisibleFieldsAreKept == Spec => VisibleNotesKeepField
<1>1. FactsInv /\ DeletionInv /\ RefInv /\ [Next]_vars => FieldsKept
  BY NextRefInv
<1> QED
  BY <1>1, FactsInvHolds, DeletionInvHolds, RefInvHolds, PTL
     DEF Spec, VisibleNotesKeepField, FieldsKept
-----------------------------------------------------------------------------
(***************************************************************************)
(* A verified run means agreement.                                         *)
(*                                                                         *)
(* Verification reads one table after the other.  While edits and other    *)
(* cycles keep out of the way, a table that has been read stays as it was  *)
(* read, so what is judged at the end is what the databases hold.          *)
(***************************************************************************)

\* The tables before t have been read from s.
ReadUpTo(held, s, t) == \A e \in Entity : TableOf[e] < t => held.rows[e] = s.rows[e]

Current(held, s) == held.log = s.log /\ \A e \in Entity : held.rows[e] = s.rows[e]

VerifyInv(c) ==
    /\ pc[c] = "verifyLocal" => ReadUpTo(local[c], db[Owner[c]], cursor[c])
    /\ pc[c] \in {"verifyRemote", "judge"} => Current(local[c], db[Owner[c]])
    /\ pc[c] = "verifyRemote" => ReadUpTo(cloud[c], remote, cursor[c])
    /\ pc[c] = "judge" => Current(cloud[c], remote)

OneRuns == \A c, o \in Cycle : pc[c] # "idle" /\ pc[o] # "idle" => c = o

AloneInv == OneRuns /\ \A c \in Cycle : VerifyInv(c)

\* Reading table t adds it to what has been read.
LEMMA ReadTable ==
    ASSUME NEW held, NEW s, NEW t \in Table, ReadUpTo(held, s, t)
    PROVE  /\ t # SyncChanges => ReadUpTo(WithTable(held, s, t), s, TableAfter(t))
           /\ t = SyncChanges => Current(WithTable(held, s, t), s)
<1>1. ASSUME NEW e \in Entity
      PROVE  /\ WithTable(held, s, t).rows[e] =
                   IF TableOf[e] = t THEN s.rows[e] ELSE held.rows[e]
             /\ TableOf[e] \in Table /\ TableOf[e] \in Workspaces .. NoteLinks
  BY TableAssumption, TableOfAssumption DEF WithTable
<1>2. Table \subseteq 0 .. 8
  BY TableAssumption DEF Workspaces, SyncChanges
<1>3. CASE t # SyncChanges
  <2>1. ASSUME NEW e \in Entity, TableOf[e] < TableAfter(t)
        PROVE  TableOf[e] = t \/ TableOf[e] < t
    BY <1>1, <1>3, <2>1, TablesBefore
  <2> QED
    BY <1>1, <1>3, <2>1 DEF ReadUpTo
<1>4. CASE t = SyncChanges
  <2>1. WithTable(held, s, t).log = s.log
    BY <1>4 DEF WithTable
  <2>2. ASSUME NEW e \in Entity PROVE TableOf[e] < t /\ TableOf[e] # t
    BY <1>1, <1>4 DEF Workspaces, NoteLinks, SyncChanges
  <2> QED
    BY <1>1, <1>4, <2>1, <2>2 DEF ReadUpTo, Current
<1> QED
  BY <1>3, <1>4

LEMMA NothingReadYet == \A e \in Entity : ~(TableOf[e] < FirstTable)
<1> SUFFICES ASSUME NEW e \in Entity PROVE ~(TableOf[e] < FirstTable)
  OBVIOUS
<1>1. PICK u, f : u = TableOf[e] /\ f = FirstTable
  OBVIOUS
<1>2. Table \subseteq 0 .. 8 /\ u \in Table
  BY <1>1, TableAssumption DEF Workspaces, SyncChanges
<1>3. f \in Table /\ f <= u
  BY <1>1, <1>2, FirstTableType
<1>4. ~(u < f)
  BY <1>2, <1>3
<1> QED
  BY <1>1, <1>4

LEMMA EditsAreQuiet ==
    ASSUME NEW d \in Device, Edit(d)
    PROVE  Quiet
BY DEF Edit, WriteNote, HideNote, DeleteField, AddTag, RemoveTag

\* Outside the verification there is nothing to keep.
LEMMA NotVerifying ==
    ASSUME NEW c, pc'[c] \notin {"verifyLocal", "verifyRemote", "judge"}
    PROVE  VerifyInv(c)'
BY DEF VerifyInv

\* Verification starts with nothing read.
LEMMA AdvanceKeepsVerifyInv ==
    ASSUME TypeOK, PhaseOfKind, NEW c \in Cycle, pc[c] \in Writing, Advance(c)
    PROVE  VerifyInv(c)'
<1>1. pc'[c] = NextPhase[kind[c]][pc[c]] /\ cursor'[c] = FirstTable
  BY DEF Advance, Put, TypeOK
<1>2. kind[c] \in Kind /\ pc[c] \in PhasesOf(kind[c])
  BY DEF TypeOK, PhaseOfKind
<1>3. pc'[c] \in Writing \cup {"verifyLocal"}
  BY <1>1, <1>2 DEF NextPhase, Kind, PhasesOf, Writing
<1> QED
  BY <1>1, <1>3, NothingReadYet DEF VerifyInv, ReadUpTo, Writing

LEMMA ReadLocalKeepsVerifyInv ==
    ASSUME TypeOK, NEW c \in Cycle, VerifyInv(c), ReadLocal(c)
    PROVE  VerifyInv(c)'
<1>1. /\ local' = [local EXCEPT ![c] = WithTable(local[c], db[Owner[c]], cursor[c])]
      /\ UNCHANGED <<db, remote, cloud>>
      /\ local \in [Cycle -> Snapshot] /\ pc \in [Cycle -> Phase]
      /\ cursor \in [Cycle -> Table]
  BY DEF ReadLocal, Put, dbVars, TypeOK
<1>2. CASE pc[c] = "readLocal"
  BY <1>1, <1>2, NotVerifying DEF ReadLocal, ReadOn, Put
<1>3. CASE pc[c] = "verifyLocal"
  <2>1. ReadUpTo(local[c], db[Owner[c]], cursor[c]) /\ cursor[c] \in Table
    BY <1>1, <1>3 DEF VerifyInv
  <2>2. CASE cursor[c] = SyncChanges
    <3>1. pc'[c] = "verifyRemote" /\ cursor'[c] = FirstTable
      BY <1>1, <1>3, <2>2 DEF ReadLocal, ReadOn, Put
    <3>2. Current(local'[c], db[Owner[c]])
      BY <1>1, <2>1, <2>2, ReadTable
    <3> QED
      BY <1>1, <3>1, <3>2, NothingReadYet DEF VerifyInv, ReadUpTo
  <2>3. CASE cursor[c] # SyncChanges
    <3>1. pc'[c] = "verifyLocal" /\ cursor'[c] = TableAfter(cursor[c])
      BY <1>1, <1>3, <2>3 DEF ReadLocal, ReadOn, Put
    <3>2. ReadUpTo(local'[c], db[Owner[c]], TableAfter(cursor[c]))
      BY <1>1, <2>1, <2>3, ReadTable
    <3> QED
      BY <1>1, <3>1, <3>2 DEF VerifyInv
  <2> QED
    BY <2>2, <2>3
<1> QED
  BY <1>2, <1>3 DEF ReadLocal

LEMMA ReadRemoteKeepsVerifyInv ==
    ASSUME TypeOK, NEW c \in Cycle, VerifyInv(c), ReadRemote(c)
    PROVE  VerifyInv(c)'
<1>1. /\ cloud' = [cloud EXCEPT ![c] = WithTable(cloud[c], remote, cursor[c])]
      /\ UNCHANGED <<db, remote, local>>
      /\ cloud \in [Cycle -> Snapshot] /\ pc \in [Cycle -> Phase]
      /\ cursor \in [Cycle -> Table]
  BY DEF ReadRemote, Put, dbVars, TypeOK
<1>2. CASE pc[c] = "readRemote"
  BY <1>1, <1>2, NotVerifying DEF ReadRemote, ReadOn, Put
<1>3. CASE pc[c] = "verifyRemote"
  <2>1. /\ ReadUpTo(cloud[c], remote, cursor[c]) /\ cursor[c] \in Table
        /\ Current(local'[c], db'[Owner[c]])
    BY <1>1, <1>3 DEF VerifyInv
  <2>2. CASE cursor[c] = SyncChanges
    <3>1. pc'[c] = "judge"
      BY <1>1, <1>3, <2>2 DEF ReadRemote, ReadOn, Put
    <3>2. Current(cloud'[c], remote)
      BY <1>1, <2>1, <2>2, ReadTable
    <3> QED
      BY <1>1, <2>1, <3>1, <3>2 DEF VerifyInv
  <2>3. CASE cursor[c] # SyncChanges
    <3>1. pc'[c] = "verifyRemote" /\ cursor'[c] = TableAfter(cursor[c])
      BY <1>1, <1>3, <2>3 DEF ReadRemote, ReadOn, Put
    <3>2. ReadUpTo(cloud'[c], remote, TableAfter(cursor[c]))
      BY <1>1, <2>1, <2>3, ReadTable
    <3> QED
      BY <1>1, <2>1, <3>1, <3>2 DEF VerifyInv
  <2> QED
    BY <2>2, <2>3
<1> QED
  BY <1>2, <1>3 DEF ReadRemote

LEMMA OwnStepKeepsVerifyInv ==
    ASSUME FactsInv, NEW c \in Cycle, VerifyInv(c), CycleStep(c) \/ Abort(c)
    PROVE  VerifyInv(c)'
<1>1. TypeOK /\ PhaseOfKind
  BY DEF FactsInv
<1>2. ASSUME NEW outcome, Finish(c, outcome) PROVE VerifyInv(c)'
  BY <1>1, <1>2, NotVerifying DEF Finish, Put, TypeOK
<1>3. CASE Abort(c) \/ Judge(c) \/ Fail(c)
  BY <1>2, <1>3 DEF Abort, Judge, Fail
<1>4. ASSUME pc[c] \in Writing, Advance(c) PROVE VerifyInv(c)'
  BY <1>1, <1>4, AdvanceKeepsVerifyInv
<1>5. ASSUME pc[c] \in Writing, pc' = pc PROVE VerifyInv(c)'
  BY <1>5, NotVerifying DEF Writing
<1>6. CASE Decide(c)
  BY <1>2, <1>4, <1>6 DEF Decide, Writing
<1>7. CASE WriteLocal(c) \/ DeleteLocalRows(c) \/ DeletedRemote(c)
  BY <1>3, <1>4, <1>7 DEF WriteLocal, DeleteLocalRows, DeletedRemote, Writing
<1>8. CASE WriteRemote(c)
  BY <1>3, <1>4, <1>5, <1>8 DEF WriteRemote, Writing
<1>9. ASSUME NEW e \in Entity, DeleteRemoteRow(c, e) PROVE VerifyInv(c)'
  BY <1>3, <1>5, <1>9 DEF DeleteRemoteRow, Writing
<1> QED
  BY <1>1, <1>3, <1>6, <1>7, <1>8, <1>9, ReadLocalKeepsVerifyInv,
     ReadRemoteKeepsVerifyInv DEF CycleStep

LEMMA NextAloneInv ==
    ASSUME ~EditDuringCycle, ~OverlapCycles, FactsInv, AloneInv, [Next]_vars
    PROVE  AloneInv'
<1>1. TypeOK
  BY DEF FactsInv
<1>2. CASE UNCHANGED vars
  BY <1>2 DEF vars, AloneInv, OneRuns, VerifyInv
<1>3. ASSUME \A c \in Cycle : pc'[c] = "idle" PROVE AloneInv'
  BY <1>3, NotVerifying DEF AloneInv, OneRuns
<1>4. ASSUME NEW d \in Device, Edit(d) PROVE AloneInv'
  <2>1. pc' = pc
    BY <1>1, <1>4, EditCommits DEF Commits, Commit, cycleVars
  <2> QED
    BY <1>3, <1>4, <2>1, EditsAreQuiet DEF Quiet
<1>5. ASSUME NEW c \in Cycle, NEW k \in Kinds[c], Start(c, k) PROVE AloneInv'
  <2>1. pc'[c] = "readLocal" /\ \A o \in Cycle \ {c} : pc'[o] = "idle"
    BY <1>1, <1>5 DEF Start, Put, TypeOK
  <2> QED
    BY <2>1, NotVerifying DEF AloneInv, OneRuns
<1>6. ASSUME NEW c \in Cycle, CycleStep(c) \/ Abort(c) PROVE AloneInv'
  <2>1. pc[c] # "idle"
    BY <1>6 DEF CycleStep, Abort, ReadLocal, ReadRemote, Decide, WriteLocal,
       WriteRemote, DeleteLocalRows, DeleteRemoteRow, DeletedRemote, Judge
  <2>2. \A o \in Cycle \ {c} : pc[o] = "idle"
    BY <2>1 DEF AloneInv, OneRuns
  <2>3. \A o \in Cycle \ {c} : pc'[o] = pc[o]
    BY <1>1, <1>6, OneTaskMoves DEF Plan
  <2>4. \A o \in Cycle \ {c} : pc'[o] = "idle" /\ VerifyInv(o)'
    BY <2>2, <2>3, NotVerifying
  <2>5. VerifyInv(c)'
    BY <1>6, OwnStepKeepsVerifyInv DEF AloneInv
  <2> QED
    BY <2>4, <2>5 DEF AloneInv, OneRuns
<1> QED
  BY <1>2, <1>4, <1>5, <1>6 DEF Next

LEMMA SameDataOfCurrent ==
    ASSUME NEW l, NEW r, NEW s, NEW t, Current(l, s), Current(r, t), SameData(l, r)
    PROVE  SameData(s, t)
BY DEF Current, SameData, StaysLocal, EmptyWorkspace, Present

\* As long as edits and cycles keep out of each other's way, a run that
\* answers ok leaves the device and the remote database with the same rows
\* and facts, for any data and any number of devices and tasks.
THEOREM VerifiedRunsAgree ==
    ASSUME ~EditDuringCycle, ~OverlapCycles
    PROVE  Spec => VerifiedAgreement
<1> DEFINE Agreed ==
       \A c \in Cycle : pc[c] = "judge" /\ result'[c] = "ok" /\ kind[c] = "run" =>
          SameData(db[Owner[c]], remote)
<1>1. Init => AloneInv
  BY DEF Init, AloneInv, OneRuns, VerifyInv
<1>2. FactsInv /\ AloneInv /\ [Next]_vars => AloneInv'
  BY NextAloneInv
<1>3. FactsInv /\ AloneInv /\ RunningHasNoResult /\ [Next]_vars => Agreed
  <2> SUFFICES ASSUME FactsInv, AloneInv, RunningHasNoResult, [Next]_vars,
                      NEW c \in Cycle, pc[c] = "judge", result'[c] = "ok",
                      kind[c] = "run"
               PROVE  SameData(db[Owner[c]], remote)
    OBVIOUS
  <2>1. Converged("run", local[c], cloud[c])
    BY OnlyJudgeAnswersOk DEF FactsInv
  <2>2. InSync(local[c], cloud[c])
    BY <2>1 DEF Converged, InSync
  <2>3. SameData(local[c], cloud[c])
    BY <2>2, EmptyDiffIsAgreement
  <2>4. Current(local[c], db[Owner[c]]) /\ Current(cloud[c], remote)
    BY DEF AloneInv, VerifyInv
  <2> QED
    BY <2>3, <2>4, SameDataOfCurrent
<1> QED
  BY <1>1, <1>2, <1>3, FactsInvHolds, RunningHasNoResultHolds, PTL
     DEF Spec, VerifiedAgreement
-----------------------------------------------------------------------------
(***************************************************************************)
(* The last write of a note wins.                                          *)
(*                                                                         *)
(* The argument follows the device that knows the latest fact about a      *)
(* note: it has the version of that fact, and so has every local snapshot  *)
(* that one of its cycles has taken.  The comparison never puts another    *)
(* version in its place, because the other side has no later fact to show, *)
(* whatever its rows are; so cycles may overlap and stop anywhere.  Edits  *)
(* move the latest fact, and with it the note, to the device that writes.  *)
(***************************************************************************)

\* No fact is later than the clock.
Timely == \A c \in Recorded : c.at <= now

IdleAtFirst == \A c \in Cycle : pc[c] = "idle" => cursor[c] = FirstTable

\* Fact f about note n is in what the task's cycle has read.
Knows(c, n, f) ==
    /\ pc[c] \notin {"idle", "readLocal"} \/ (pc[c] = "readLocal" /\ Notes < cursor[c])
          => local[c].rows[n] # Absent /\ local[c].rows[n].ver = f.id
    /\ pc[c] \notin {"idle", "readLocal"} => f \in local[c].log

\* Device d has note n as fact f made it, and its cycles know.
Keeps(d, n, f) ==
    /\ MadeBy(db[d], n, f)
    /\ \A c \in Cycle : Owner[c] = d => Knows(c, n, f)

LatestKept ==
    \A n \in RowsIn(Notes) : FactsOf(Recorded, n) # {} =>
        \E d \in Device : Keeps(d, n, Latest(Recorded, n))

WritesInv == Timely /\ IdleAtFirst /\ LatestKept

\* The latest fact of an entity that has any.
LEMMA LatestRecorded ==
    ASSUME FactsInv, NEW e, FactsOf(Recorded, e) # {}
    PROVE  /\ Latest(Recorded, e) \in Recorded /\ Latest(Recorded, e) \in Fact
           /\ Latest(Recorded, e).entity = e
           /\ \A c \in FactsOf(Recorded, e) : ~After(c, Latest(Recorded, e))
<1>1. Recorded \in SUBSET Fact
  BY DEF FactsInv, TypeOK, Snapshot, Recorded
<1>2. now + MaxFacts \in Nat /\ Bounded(Recorded, now + MaxFacts)
  BY BoundsAssumption DEF FactsInv, TypeOK, RecordedBounded
<1>3. /\ Latest(Recorded, e) \in FactsOf(Recorded, e)
      /\ \A c \in FactsOf(Recorded, e) : ~After(c, Latest(Recorded, e))
  BY <1>1, <1>2, LatestIsGreatest
<1> QED
  BY <1>1, <1>3 DEF FactsOf

\* A side that knows the latest fact of a note keeps its version of the note:
\* what the comparison brings in is at most the same version without a field.
LEMMA LatestNotReplaced ==
    ASSUME NEW l \in Snapshot, NEW r \in Snapshot, NEW log \in SUBSET Fact,
           NEW b \in Nat, Bounded(log, b), l.log \subseteq log, r.log \subseteq log,
           NEW n \in Entity, NEW f \in l.log, f.entity = n,
           \A c \in FactsOf(log, n) : ~After(c, f),
           l.rows[n] # Absent, n \in UpsertLocal(l, r)
    PROVE  r.rows[n] # Absent /\ r.rows[n].ver = l.rows[n].ver
<1>1. Prevails(r, l, n)
  BY DEF UpsertLocal, FillsGap
<1>2. r.rows[n] # Absent /\ l.rows[n] \in Row /\ r.rows[n] \in Row
  BY <1>1 DEF Prevails, Snapshot
<1>3. CASE FollowsFieldTombstone(r, l, n)
  <2>1. [l.rows[n] EXCEPT !.field = NoField] = r.rows[n]
    BY <1>3 DEF FollowsFieldTombstone
  <2>2. [l.rows[n] EXCEPT !.field = NoField].ver = l.rows[n].ver
    BY <1>2 DEF Row
  <2> QED
    BY <1>2, <2>1, <2>2
<1>4. CASE Newer(r, l, n)
  <2>1. FactsOf(r.log, n) # {} /\ f \in FactsOf(l.log, n)
    BY <1>4 DEF Newer, FactsOf
  <2>2. Bounded(l.log, b) /\ Bounded(r.log, b)
    BY DEF Bounded
  <2>3. l.log \in SUBSET Fact /\ r.log \in SUBSET Fact
    OBVIOUS
  <2>4. PICK g : g = Latest(r.log, n) /\ g \in FactsOf(r.log, n)
    BY <2>1, <2>2, <2>3, LatestIsGreatest
  <2>5. PICK k : k = Latest(l.log, n) /\ k \in FactsOf(l.log, n) /\ ~After(f, k)
    BY <2>1, <2>2, <2>3, LatestIsGreatest
  <2>6. g \in FactsOf(log, n) /\ ~After(g, f)
    BY <2>4 DEF FactsOf
  <2>7. g \in Fact /\ k \in Fact /\ f \in Fact
    BY <2>4, <2>5 DEF FactsOf
  <2>8. g.at <= f.at /\ f.at <= k.at
    BY <2>5, <2>6, <2>7 DEF After, Fact
  <2>9. g.at > k.at
    BY <1>4, <2>1, <2>4, <2>5 DEF Newer
  <2> QED
    BY <2>7, <2>8, <2>9 DEF Fact
<1> QED
  BY <1>1, <1>3, <1>4 DEF Prevails

\* Cycles copy facts, they record none.
LEMMA CyclesRecordNothing ==
    ASSUME FactsInv, NEW c \in Cycle,
           CycleStep(c) \/ Abort(c) \/ \E k \in Kinds[c] : Start(c, k)
    PROVE  Recorded' = Recorded /\ now' = now
<1>1. [Next]_vars
  BY DEF Next
<1>2. \A d \in Device : db[d].log \subseteq db'[d].log
  BY <1>1, NextLogsGrow DEF LogsGrow
<1>3. now' = now
  BY DEF CycleStep, Abort, Start, ReadLocal, ReadRemote, Decide, WriteLocal,
     WriteRemote, DeleteLocalRows, DeleteRemoteRow, DeletedRemote, Judge, Fail, dbVars
<1>4. ASSUME NEW d \in Device PROVE db'[d].log \subseteq Recorded
  <2>1. CASE WriteLocal(c)
    <3>1. db \in [Device -> Snapshot] /\ Owner[c] \in Device
      BY OwnerAssumption DEF FactsInv, TypeOK
    <3>2. FactsLocal(local[c], cloud[c]) \subseteq Recorded
      BY CopiedFactsAreHeld DEF FactsInv, KnownFactsAreStored
    <3>3. db'[d].log \subseteq db[d].log \cup FactsLocal(local[c], cloud[c])
      BY <2>1, <3>1 DEF WriteLocal, Fail
    <3> QED
      BY <3>2, <3>3 DEF Recorded
  <2>2. CASE WriteRemote(c)
    BY <2>2 DEF WriteRemote, Fail, dbVars, Recorded
  <2>3. CASE UNCHANGED Log!vars
    <3>1. Logs' = Logs
      BY <2>3 DEF Log!vars, Logs
    <3>2. db[d].log = Logs[d] /\ db'[d].log = Logs'[d]
      BY DEF Logs
    <3> QED
      BY <3>1, <3>2 DEF Recorded
  <2> QED
    BY <2>1, <2>2, <2>3, OtherStepsKeepLogs DEF CycleStep
<1> QED
  BY <1>2, <1>3, <1>4 DEF Recorded

LEMMA NoteTable ==
    ASSUME NEW n \in RowsIn(Notes)
    PROVE  /\ n \in Entity /\ TableOf[n] = Notes /\ Notes \in Table
           /\ Notes # SyncChanges /\ ~(Notes < FirstTable)
<1>1. n \in Entity /\ TableOf[n] = Notes
  BY DEF RowsIn
<1> QED
  BY <1>1, NothingReadYet, TableAssumption DEF Notes, SyncChanges

\* Nothing is known before the first table has been read.
LEMMA NothingKnown ==
    ASSUME NEW c \in Cycle, NEW n \in RowsIn(Notes), NEW f,
           pc'[c] = "idle" \/ (pc'[c] = "readLocal" /\ cursor'[c] = FirstTable)
    PROVE  Knows(c, n, f)'
BY NoteTable DEF Knows

\* What a task knows it keeps until it reads again.
LEMMA StillKnown ==
    ASSUME NEW c \in Cycle, NEW n, NEW f, Knows(c, n, f),
           pc[c] \notin {"idle", "readLocal"}, local'[c] = local[c]
    PROVE  Knows(c, n, f)'
BY DEF Knows

LEMMA ReadLocalKnows ==
    ASSUME TypeOK, NEW c \in Cycle, NEW n \in RowsIn(Notes), NEW f,
           MadeBy(db[Owner[c]], n, f), Knows(c, n, f), ReadLocal(c)
    PROVE  Knows(c, n, f)'
<1> DEFINE s == db[Owner[c]]
<1>1. /\ local'[c] = WithTable(local[c], s, cursor[c])
      /\ pc \in [Cycle -> Phase] /\ cursor \in [Cycle -> Table]
  BY DEF ReadLocal, Put, TypeOK
<1>2. n \in Entity /\ TableOf[n] = Notes /\ Notes \in Table /\ Notes # SyncChanges
  BY NoteTable
<1>3. /\ local'[c].rows[n] = IF cursor[c] = Notes THEN s.rows[n] ELSE local[c].rows[n]
      /\ local'[c].log = IF cursor[c] = SyncChanges THEN s.log ELSE local[c].log
  BY <1>1, <1>2 DEF WithTable
<1>4. f \in s.log /\ s.rows[n] # Absent /\ s.rows[n].ver = f.id
  BY DEF MadeBy
<1> HIDE DEF s
<1>5. CASE pc[c] = "verifyLocal"
  <2>1. pc'[c] \in {"verifyLocal", "verifyRemote"}
    BY <1>1, <1>5 DEF ReadLocal, ReadOn, Put
  <2> QED
    BY <1>3, <1>4, <1>5, <2>1 DEF Knows
<1>6. CASE pc[c] = "readLocal" /\ cursor[c] = SyncChanges
  <2>1. pc'[c] = "readRemote"
    BY <1>1, <1>6 DEF ReadLocal, ReadOn, Put
  <2>2. Notes < cursor[c]
    BY <1>6 DEF Notes, SyncChanges
  <2> QED
    BY <1>2, <1>3, <1>4, <1>6, <2>1, <2>2 DEF Knows
<1>7. CASE pc[c] = "readLocal" /\ cursor[c] # SyncChanges
  <2>1. pc'[c] = "readLocal" /\ cursor'[c] = TableAfter(cursor[c])
    BY <1>1, <1>7 DEF ReadLocal, ReadOn, Put
  <2>2. Notes < cursor'[c] => Notes = cursor[c] \/ Notes < cursor[c]
    BY <1>1, <1>2, <1>7, <2>1, TablesBefore
  <2> QED
    BY <1>3, <1>4, <1>7, <2>1, <2>2 DEF Knows
<1> QED
  BY <1>5, <1>6, <1>7 DEF ReadLocal

\* A task that returns or starts is at the first table.
LEMMA OwnStepIdle ==
    ASSUME TypeOK, IdleAtFirst, NEW c \in Cycle,
           CycleStep(c) \/ Abort(c) \/ \E k \in Kinds[c] : Start(c, k)
    PROVE  pc'[c] = "idle" => cursor'[c] = FirstTable
<1> SUFFICES ASSUME pc'[c] = "idle" PROVE cursor'[c] = FirstTable
  OBVIOUS
<1>1. pc \in [Cycle -> Phase] /\ cursor \in [Cycle -> Table]
  BY DEF TypeOK
<1>2. ASSUME NEW outcome, Finish(c, outcome) PROVE cursor'[c] = FirstTable
  BY <1>1, <1>2 DEF Finish, Put
<1>3. ASSUME Advance(c) PROVE cursor'[c] = FirstTable
  BY <1>1, <1>3 DEF Advance, Put
<1>4. CASE Abort(c) \/ Judge(c) \/ Fail(c)
  BY <1>2, <1>4 DEF Abort, Judge, Fail
<1>5. ~ReadLocal(c) /\ ~ReadRemote(c) /\ ~\E k \in Kinds[c] : Start(c, k)
  BY <1>1 DEF ReadLocal, ReadRemote, ReadOn, Start, Put
<1>6. CASE Decide(c)
  BY <1>2, <1>3, <1>6 DEF Decide
<1>7. CASE WriteLocal(c) \/ DeleteLocalRows(c) \/ DeletedRemote(c)
  BY <1>3, <1>4, <1>7 DEF WriteLocal, DeleteLocalRows, DeletedRemote
<1>8. CASE WriteRemote(c)
  BY <1>3, <1>4, <1>8 DEF WriteRemote
<1>9. ASSUME NEW e \in Entity, DeleteRemoteRow(c, e) PROVE cursor'[c] = FirstTable
  BY <1>4, <1>9 DEF DeleteRemoteRow
<1> QED
  BY <1>4, <1>5, <1>6, <1>7, <1>8, <1>9 DEF CycleStep

\* A step of a task on what it knows.
LEMMA OwnStepKnows ==
    ASSUME FactsInv, IdleAtFirst, NEW c \in Cycle, NEW n \in RowsIn(Notes), NEW f,
           MadeBy(db[Owner[c]], n, f), Knows(c, n, f),
           CycleStep(c) \/ Abort(c) \/ \E k \in Kinds[c] : Start(c, k)
    PROVE  Knows(c, n, f)'
<1>1. TypeOK
  BY DEF FactsInv
<1>2. ASSUME NEW outcome, Finish(c, outcome)
      PROVE  Knows(c, n, f)'
  <2>1. pc'[c] = "idle" /\ cursor'[c] = FirstTable
    BY <1>1, <1>2 DEF Finish, Put, TypeOK
  <2> QED
    BY <2>1, NothingKnown
<1>3. CASE Abort(c) \/ Judge(c) \/ Fail(c)
  BY <1>2, <1>3 DEF Abort, Judge, Fail
<1>4. ASSUME Advance(c), pc[c] \in Writing
      PROVE  Knows(c, n, f)'
  <2>1. local'[c] = local[c] /\ cursor'[c] = FirstTable
    BY <1>1, <1>4 DEF Advance, Put, TypeOK
  <2> QED
    BY <1>4, <2>1, StillKnown DEF Writing
<1>5. ASSUME pc'[c] \notin {"idle", "readLocal"}, pc[c] \notin {"idle", "readLocal"},
             local'[c] = local[c]
      PROVE  Knows(c, n, f)'
  BY <1>5, StillKnown
<1>6. CASE \E k \in Kinds[c] : Start(c, k)
  <2>1. pc'[c] = "readLocal" /\ cursor'[c] = FirstTable
    BY <1>1, <1>6 DEF Start, Put, TypeOK, IdleAtFirst
  <2> QED
    BY <2>1, NothingKnown
<1>7. CASE ReadLocal(c)
  BY <1>1, <1>7, ReadLocalKnows
<1>8. CASE ReadRemote(c)
  BY <1>1, <1>5, <1>8 DEF ReadRemote, ReadOn, Put, TypeOK
<1>9. CASE Decide(c)
  BY <1>2, <1>4, <1>9 DEF Decide, Writing
<1>10. CASE WriteLocal(c) \/ DeleteLocalRows(c) \/ DeletedRemote(c)
  BY <1>3, <1>4, <1>10 DEF WriteLocal, DeleteLocalRows, DeletedRemote, Writing
<1>11. CASE WriteRemote(c)
  BY <1>3, <1>4, <1>5, <1>11 DEF WriteRemote, Writing
<1>12. ASSUME NEW e \in Entity, DeleteRemoteRow(c, e)
       PROVE  Knows(c, n, f)'
  BY <1>3, <1>5, <1>12 DEF DeleteRemoteRow
<1> QED
  BY <1>3, <1>6, <1>7, <1>8, <1>9, <1>10, <1>11, <1>12 DEF CycleStep

\* Deletions by sync leave the version of every note alone.
LEMMA NotesSurviveDeletion ==
    ASSUME TypeOK, NEW d \in Device, NEW E, \A e \in E : e \in Entity /\ Removable(e),
           NEW n \in RowsIn(Notes)
    PROVE  LET left == WithoutFields(db[d].rows, {f \in E : TableOf[f] = Fields})
           IN  SameNote(db[d].rows[n], IF n \in E THEN Absent ELSE left[n])
<1> DEFINE fs == {f \in E : TableOf[f] = Fields}
<1>1. n \in Entity /\ TableOf[n] = Notes
  BY NoteTable
<1>2. n \notin E
  BY <1>1, RemovableTables, TablesDiffer
<1>3. db[d].rows \in [Entity -> Row \cup {Absent}]
  BY DEF TypeOK, Snapshot
<1>4. n \in Entity \ fs
  BY <1>1, <1>2
<1> HIDE DEF fs
<1>5. SameNote(db[d].rows[n], WithoutFields(db[d].rows, fs)[n])
  BY <1>3, <1>4, WithoutFieldsType
<1> QED
  BY <1>2, <1>5 DEF fs

\* A step of a task on the device that knows the latest fact about a note.
LEMMA KeeperStays ==
    ASSUME FactsInv, NEW d \in Device, NEW n \in RowsIn(Notes),
           NEW f \in FactsOf(Recorded, n), \A c \in FactsOf(Recorded, n) : ~After(c, f),
           Keeps(d, n, f), NEW c \in Cycle,
           CycleStep(c) \/ Abort(c) \/ \E k \in Kinds[c] : Start(c, k)
    PROVE  MadeBy(db[d], n, f)'
<1>1. /\ db \in [Device -> Snapshot] /\ Owner[c] \in Device
      /\ local[c] \in Snapshot /\ cloud[c] \in Snapshot
      /\ n \in Entity /\ f.entity = n
  BY OwnerAssumption, NoteTable DEF FactsInv, TypeOK, FactsOf
<1>2. f \in db[d].log /\ db[d].rows[n] # Absent /\ db[d].rows[n].ver = f.id
  BY DEF Keeps, MadeBy
<1>3. CASE db'[d] = db[d]
  BY <1>2, <1>3 DEF MadeBy
<1>4. CASE WriteLocal(c) /\ ~Fail(c) /\ Owner[c] = d
  <2> DEFINE E == UpsertLocal(local[c], cloud[c])
             rows == Overwrite(db[d].rows, E, cloud[c])
             facts == FactsLocal(local[c], cloud[c])
  <2>1. db'[d] = [rows |-> rows, log |-> db[d].log \cup facts] /\ pc[c] = "writeLocal"
    BY <1>1, <1>4 DEF WriteLocal
  <2>2. f \in local[c].log /\ local[c].rows[n] # Absent /\ local[c].rows[n].ver = f.id
    BY <1>4, <2>1 DEF Keeps, Knows
  <2>3. n \in E => cloud[c].rows[n] # Absent /\ cloud[c].rows[n].ver = f.id
    <3>1. local[c].log \subseteq Recorded /\ cloud[c].log \subseteq Recorded
      BY <1>1 DEF FactsInv, KnownFactsAreStored, Recorded
    <3>2. Recorded \in SUBSET Fact
      BY DEF FactsInv, TypeOK, Snapshot, Recorded
    <3>3. now + MaxFacts \in Nat /\ Bounded(Recorded, now + MaxFacts)
      BY BoundsAssumption DEF FactsInv, TypeOK, RecordedBounded
    <3> QED
      BY <1>1, <2>2, <3>1, <3>2, <3>3, LatestNotReplaced
  <2>4. rows[n] = IF n \in E THEN cloud[c].rows[n] ELSE db[d].rows[n]
    BY <1>1 DEF Overwrite
  <2>5. db'[d].rows = rows /\ f \in db'[d].log
    BY <1>2, <2>1
  <2> HIDE DEF E, rows, facts
  <2> QED
    BY <1>2, <2>3, <2>4, <2>5 DEF MadeBy
<1>5. CASE DeleteLocalRows(c) /\ ~Fail(c) /\ Owner[c] = d
  <2>1. PICK E : E = DeleteLocal(local[c], cloud[c])
    OBVIOUS
  <2>2. PICK left : left = WithoutFields(db[d].rows, {g \in E : TableOf[g] = Fields})
    OBVIOUS
  <2>3. db' = [db EXCEPT ![d].rows =
                  [e \in Entity |-> IF e \in E THEN Absent ELSE left[e]]]
    BY <1>5, <2>1, <2>2 DEF DeleteLocalRows
  <2>4. /\ db'[d].rows[n] = IF n \in E THEN Absent ELSE left[n]
        /\ db'[d].log = db[d].log
    BY <1>1, <2>3 DEF Snapshot
  <2>5. \A e \in E : e \in Entity /\ Removable(e)
    BY <2>1 DEF DeleteLocal, LosesRow
  <2>6. SameNote(db[d].rows[n], db'[d].rows[n])
    BY <2>2, <2>4, <2>5, NotesSurviveDeletion DEF FactsInv
  <2> QED
    BY <1>2, <2>4, <2>6 DEF SameNote, MadeBy
<1>6. CASE (WriteLocal(c) \/ DeleteLocalRows(c)) /\ (Fail(c) \/ Owner[c] # d)
  BY <1>1, <1>3, <1>6 DEF WriteLocal, DeleteLocalRows, Fail
<1> QED
  BY <1>3, <1>4, <1>5, <1>6 DEF CycleStep, Abort, Start, ReadLocal, ReadRemote, Decide,
     WriteRemote, DeleteRemoteRow, DeletedRemote, Judge, Fail, dbVars

\* The facts of an entity that a commit adds: one, if the edit touches it.
LEMMA CommittedFacts ==
    ASSUME FactsInv, NEW d, NEW t, NEW S, NEW ids, NEW rows, NEW tombstones,
           Commits(d, t, S, ids, rows, tombstones), NEW e
    PROVE  /\ db'[d].rows = rows /\ db[d].log \subseteq db'[d].log
           /\ \A o \in Device \ {d} : db'[o] = db[o]
           /\ now' = t
           /\ e \notin S => /\ FactsOf(Recorded', e) = FactsOf(Recorded, e)
                            /\ FactsOf(db'[d].log, e) = FactsOf(db[d].log, e)
           /\ e \in S => \E f \in db'[d].log :
                 /\ f.id = ids[e] /\ f.entity = e /\ f.at = t
                 /\ FactsOf(Recorded', e) = FactsOf(Recorded, e) \cup {f}
                 /\ FactsOf(db'[d].log, e) = FactsOf(db[d].log, e) \cup {f}
<1> DEFINE new == NewFacts(t, ids, tombstones)
           fact(x) == [id |-> ids[x], entity |-> x, at |-> t,
                       op |-> IF x \in tombstones THEN "tombstone" ELSE "put"]
<1>1. /\ db' = [db EXCEPT ![d] = [rows |-> rows, log |-> db[d].log \cup new]]
      /\ now' = t /\ db \in [Device -> Snapshot] /\ d \in Device
  BY DEF Commits, Commit, FactsInv, TypeOK
<1>2. DOMAIN ids = S
  BY DEF Commits, Stamps
<1>3. new = {fact(x) : x \in S}
  BY <1>2 DEF NewFacts
<1> HIDE DEF new
<1>4. db'[d] = [rows |-> rows, log |-> db[d].log \cup new]
  BY <1>1
<1>5. Recorded' = Recorded \cup new
  BY <1>1 DEF Recorded
<1>6. /\ db'[d].rows = rows /\ db[d].log \subseteq db'[d].log
      /\ \A o \in Device \ {d} : db'[o] = db[o]
      /\ now' = t
  BY <1>1, <1>4
<1>7. ASSUME e \notin S
      PROVE  /\ FactsOf(Recorded', e) = FactsOf(Recorded, e)
             /\ FactsOf(db'[d].log, e) = FactsOf(db[d].log, e)
  <2>1. \A c \in new : c.entity # e
    BY <1>3, <1>7
  <2>2. FactsOf(Recorded', e) = FactsOf(Recorded, e)
    BY <1>5, <2>1 DEF FactsOf
  <2>3. FactsOf(db'[d].log, e) = FactsOf(db[d].log, e)
    BY <1>4, <2>1 DEF FactsOf
  <2> QED
    BY <2>2, <2>3
<1>8. ASSUME e \in S
      PROVE  \E f \in db'[d].log :
                /\ f.id = ids[e] /\ f.entity = e /\ f.at = t
                /\ FactsOf(Recorded', e) = FactsOf(Recorded, e) \cup {f}
                /\ FactsOf(db'[d].log, e) = FactsOf(db[d].log, e) \cup {f}
  <2>1. PICK f : f = fact(e)
    OBVIOUS
  <2>2. f.id = ids[e] /\ f.entity = e /\ f.at = t
    BY <2>1
  <2>3. f \in new /\ \A c \in new : c.entity = e => c = f
    BY <1>3, <1>8, <2>1
  <2>4. FactsOf(Recorded', e) = FactsOf(Recorded, e) \cup {f}
    BY <1>5, <2>2, <2>3 DEF FactsOf
  <2>5. FactsOf(db'[d].log, e) = FactsOf(db[d].log, e) \cup {f}
    BY <1>4, <2>2, <2>3 DEF FactsOf
  <2> QED
    BY <1>4, <2>2, <2>3, <2>4, <2>5
<1> QED
  BY <1>6, <1>7, <1>8

\* An edit keeps the latest version where it is or makes a new one.
LEMMA EditKeepsWritesInv ==
    ASSUME ~EditDuringCycle, ~SameSecond, FactsInv, FactsInv', WritesInv,
           NEW d \in Device, Edit(d)
    PROVE  WritesInv'
<1>1. PICK t, S, ids, rows, tombstones : Commits(d, t, S, ids, rows, tombstones)
  BY EditCommits DEF FactsInv
<1>2. \A c \in Cycle : pc[c] = "idle"
  BY EditsAreQuiet DEF Quiet
<1>3. UNCHANGED <<pc, cursor, local>>
  BY <1>1 DEF Commits, Commit, cycleVars
<1>4. t = now + 1 /\ now' = t /\ now \in Nat
  BY <1>1 DEF Commits, Seconds, Commit, FactsInv, TypeOK
<1>5. IdleAtFirst'
  BY <1>3 DEF WritesInv, IdleAtFirst
<1>6. \A c \in Cycle, n \in RowsIn(Notes), f \in Fact : Knows(c, n, f)'
  BY <1>2, <1>3, NothingKnown
<1>7. Timely'
  <2> SUFFICES ASSUME NEW c \in Recorded' PROVE c.at <= t
    BY <1>4 DEF Timely
  <2>1. c \in FactsOf(Recorded', c.entity)
    BY DEF FactsOf
  <2>2. ASSUME NEW g \in Recorded PROVE g.at <= t
    <3>1. g.at <= now /\ g \in Fact
      BY DEF WritesInv, Timely, FactsInv, TypeOK, Snapshot, Recorded
    <3> QED
      BY <1>4, <3>1 DEF Fact
  <2>3. c \in Recorded \/ c.at = t
    <3>1. CASE c.entity \notin S
      <4>1. FactsOf(Recorded', c.entity) = FactsOf(Recorded, c.entity)
        BY <1>1, <3>1, CommittedFacts
      <4> QED
        BY <2>1, <4>1 DEF FactsOf
    <3>2. CASE c.entity \in S
      <4>1. PICK f : /\ f.at = t
                     /\ FactsOf(Recorded', c.entity) = FactsOf(Recorded, c.entity) \cup {f}
        BY <1>1, <3>2, CommittedFacts
      <4> QED
        BY <2>1, <4>1 DEF FactsOf
    <3> QED
      BY <3>1, <3>2
  <2> QED
    BY <1>4, <2>2, <2>3
<1>8. ASSUME NEW n \in RowsIn(Notes), FactsOf(Recorded', n) # {}
      PROVE  \E k \in Device : Keeps(k, n, Latest(Recorded, n))'
  <2>1. CASE n \in S
    <3>1. PICK f \in db'[d].log :
             /\ f.id = ids[n] /\ f.entity = n /\ f.at = t
             /\ FactsOf(Recorded', n) = FactsOf(Recorded, n) \cup {f}
      BY <1>1, <2>1, CommittedFacts
    <3>2. PICK g : /\ g = Latest(Recorded', n) /\ g \in Recorded' /\ g.entity = n
                   /\ g \in Fact
                   /\ \A c \in FactsOf(Recorded', n) : ~After(c, g)
      <4>1. Recorded' \in SUBSET Fact
        <5>1. db' \in [Device -> Snapshot]
          BY DEF FactsInv, TypeOK
        <5>2. \A o \in Device : db'[o].log \in SUBSET Fact
          BY <5>1 DEF Snapshot
        <5> QED
          BY <5>2 DEF Recorded
      <4>2. now' + MaxFacts \in Nat /\ Bounded(Recorded', now' + MaxFacts)
        <5>1. now' + MaxFacts \in Nat
          BY <1>4, BoundsAssumption
        <5>2. RecordedBounded'
          BY DEF FactsInv
        <5> QED
          BY <5>1, <5>2 DEF RecordedBounded
      <4>3. /\ Latest(Recorded', n) \in FactsOf(Recorded', n)
            /\ \A c \in FactsOf(Recorded', n) : ~After(c, Latest(Recorded', n))
        BY <1>8, <4>1, <4>2, LatestIsGreatest
      <4> QED
        BY <4>1, <4>3 DEF FactsOf
    <3>3. g \in FactsOf(Recorded, n) => g.at <= now
      BY DEF FactsOf, WritesInv, Timely
    <3>4. g = f
      <4>1. g \in FactsOf(Recorded, n) \cup {f}
        BY <3>1, <3>2 DEF FactsOf
      <4>2. ~After(f, g)
        BY <3>1, <3>2
      <4> QED
        BY <1>4, <3>1, <3>2, <3>3, <4>1, <4>2 DEF After, Fact
    <3>5. rows[n] # Absent /\ rows[n].ver = ids[n] /\ db'[d].rows = rows
      BY <1>1, <2>1, CommittedFacts DEF Commits, NotesFollow
    <3>6. MadeBy(db'[d], n, g)
      BY <3>1, <3>4, <3>5 DEF MadeBy
    <3> QED
      BY <1>6, <3>2, <3>6 DEF Keeps
  <2>2. CASE n \notin S
    <3>1. FactsOf(Recorded', n) = FactsOf(Recorded, n)
      BY <1>1, <2>2, CommittedFacts
    <3>2. Latest(Recorded', n) = Latest(Recorded, n)
      BY <3>1 DEF Latest
    <3>3. PICK k \in Device : Keeps(k, n, Latest(Recorded, n))
      BY <1>8, <3>1 DEF WritesInv, LatestKept
    <3>4. PICK f : f = Latest(Recorded, n) /\ f \in Fact
      BY <1>8, <3>1, LatestRecorded
    <3>5. MadeBy(db[k], n, f)
      BY <3>3, <3>4 DEF Keeps
    <3>6. MadeBy(db'[k], n, f)
      <4>1. CASE k = d
        <5>1. SameNote(db[d].rows[n], db'[d].rows[n]) /\ db[d].log \subseteq db'[d].log
          BY <1>1, <2>2, CommittedFacts DEF Commits, NotesFollow
        <5> QED
          BY <3>5, <4>1, <5>1 DEF MadeBy, SameNote
      <4>2. CASE k # d
        BY <1>1, <3>5, <4>2, CommittedFacts
      <4> QED
        BY <4>1, <4>2
    <3> QED
      BY <1>6, <3>2, <3>4, <3>6 DEF Keeps
  <2> QED
    BY <2>1, <2>2
<1> QED
  BY <1>5, <1>7, <1>8 DEF WritesInv, LatestKept

\* A step of a cycle leaves the latest version where it is.
LEMMA CycleKeepsWritesInv ==
    ASSUME FactsInv, WritesInv, NEW c \in Cycle,
           CycleStep(c) \/ Abort(c) \/ \E k \in Kinds[c] : Start(c, k)
    PROVE  WritesInv'
<1>1. Recorded' = Recorded /\ now' = now
  BY CyclesRecordNothing
<1>2. \A o \in Cycle \ {c} : Plan(o)' = Plan(o)
  BY OneTaskMoves DEF FactsInv
<1>3. Timely'
  BY <1>1 DEF WritesInv, Timely
<1>4. pc'[c] = "idle" => cursor'[c] = FirstTable
  BY OwnStepIdle DEF FactsInv, WritesInv
<1>5. IdleAtFirst'
  BY <1>2, <1>4 DEF WritesInv, IdleAtFirst, Plan
<1>6. ASSUME NEW n \in RowsIn(Notes), FactsOf(Recorded, n) # {}
      PROVE  \E d \in Device : Keeps(d, n, Latest(Recorded, n))'
  <2>1. PICK f : /\ f = Latest(Recorded, n) /\ f \in FactsOf(Recorded, n)
                 /\ \A g \in FactsOf(Recorded, n) : ~After(g, f)
    BY <1>6, LatestRecorded DEF FactsOf
  <2>2. PICK d \in Device : Keeps(d, n, f)
    BY <1>6, <2>1 DEF WritesInv, LatestKept
  <2>3. MadeBy(db[d], n, f)'
    BY <2>1, <2>2, KeeperStays
  <2>4. ASSUME NEW o \in Cycle, Owner[o] = d PROVE Knows(o, n, f)'
    <3>1. CASE o = c
      BY <2>2, <2>4, <3>1, OwnStepKnows DEF WritesInv, Keeps
    <3>2. CASE o # c
      <4>1. Plan(o)' = Plan(o)
        BY <1>2, <3>2
      <4>2. Knows(o, n, f)
        BY <2>2, <2>4 DEF Keeps
      <4> QED
        BY <4>1, <4>2 DEF Knows, Plan
    <3> QED
      BY <3>1, <3>2
  <2>5. Latest(Recorded, n)' = f
    BY <1>1, <2>1
  <2> QED
    BY <2>3, <2>4, <2>5 DEF Keeps
<1> QED
  BY <1>1, <1>3, <1>5, <1>6 DEF WritesInv, LatestKept

LEMMA InitWritesInv == ~EditDuringCycle /\ ~SameSecond /\ Init => WritesInv
<1> SUFFICES ASSUME ~EditDuringCycle, ~SameSecond, Init PROVE WritesInv
  OBVIOUS
<1>1. Recorded = SeedFacts
  BY DEF Init, Recorded, SeedFacts
<1>2. Timely
  BY <1>1, SeedSecondType DEF Init, Timely
<1>3. IdleAtFirst
  BY DEF Init, IdleAtFirst
<1>4. ASSUME NEW n \in RowsIn(Notes), FactsOf(Recorded, n) # {}
      PROVE  \E d \in Device : Keeps(d, n, Latest(Recorded, n))
  <2>1. PICK d \in Device : MadeBy(SeedDb[d], n, Latest(SeedFacts, n))
    BY <1>1, <1>4, SeedNotesAssumption
  <2>2. \A c \in Cycle : Knows(c, n, Latest(Recorded, n))
    BY DEF Init, Knows
  <2> QED
    BY <1>1, <2>1, <2>2 DEF Init, Keeps
<1> QED
  BY <1>2, <1>3, <1>4 DEF WritesInv, LatestKept

LEMMA NextWritesInv ==
    ASSUME ~EditDuringCycle, ~SameSecond, FactsInv, WritesInv, [Next]_vars
    PROVE  WritesInv'
<1>1. ASSUME NEW d \in Device, Edit(d) PROVE WritesInv'
  BY <1>1, NextFactsInv, EditKeepsWritesInv
<1>2. ASSUME NEW c \in Cycle, CycleStep(c) \/ Abort(c) \/ \E k \in Kinds[c] : Start(c, k)
      PROVE  WritesInv'
  BY <1>2, CycleKeepsWritesInv
<1>3. CASE UNCHANGED vars
  BY <1>3 DEF vars, WritesInv, Timely, IdleAtFirst, LatestKept, Keeps, Knows, Recorded
<1> QED
  BY <1>1, <1>2, <1>3 DEF Next

\* Where the databases agree, every note has the version of its latest fact.
LEMMA SettledNotes ==
    ASSUME FactsInv, RefInv, WritesInv
    PROVE  LatestWriteWins
<1> SUFFICES ASSUME Settled, NEW n \in RowsIn(Notes), remote.rows[n] # Absent
             PROVE  remote.rows[n].ver = Latest(Recorded, n).id
  BY DEF LatestWriteWins
<1>1. n \in Entity /\ TableOf[n] = Notes
  BY NoteTable
<1>2. PossibleRow(Recorded, n, remote.rows[n])
  BY <1>1 DEF RefInv, RowsInv, RowsOf, Places
<1>3. FactsOf(Recorded, n) # {}
  BY <1>1, <1>2 DEF PossibleRow
<1>4. PICK d \in Device : MadeBy(db[d], n, Latest(Recorded, n))
  BY <1>3 DEF WritesInv, LatestKept, Keeps
<1>5. SameData(db[d], remote)
  BY DEF Settled
<1>6. ~StaysLocal(db[d], remote, n)
  BY <1>1 DEF StaysLocal, Notes, Workspaces
<1>7. db[d].rows[n] = remote.rows[n]
  BY <1>1, <1>5, <1>6 DEF SameData
<1> QED
  BY <1>4, <1>7 DEF MadeBy

\* As long as no edit falls into a cycle or into the second of another edit,
\* a note is what its last writer made it whenever all databases agree: no
\* cycle brings an older version back, however cycles overlap and wherever
\* they stop.
THEOREM LastWritesWin ==
    ASSUME ~EditDuringCycle, ~SameSecond
    PROVE  Spec => []LatestWriteWins
<1>1. Init => WritesInv
  BY InitWritesInv
<1>2. FactsInv /\ WritesInv /\ [Next]_vars => WritesInv'
  BY NextWritesInv
<1>3. FactsInv /\ RefInv /\ WritesInv => LatestWriteWins
  BY SettledNotes
<1> QED
  BY <1>1, <1>2, <1>3, FactsInvHolds, RefInvHolds, PTL DEF Spec

\* Every write lasts, at every moment and not only once all agree: as long as
\* no edit falls into a cycle or into the second of another edit, the latest
\* fact about a note has its version on some device, whatever older rows
\* overlapping and interrupted cycles carry around.
THEOREM LastWritesAreKept ==
    ASSUME ~EditDuringCycle, ~SameSecond
    PROVE  Spec => []LastWriteIsKept
<1>1. Init => WritesInv
  BY InitWritesInv
<1>2. FactsInv /\ WritesInv /\ [Next]_vars => WritesInv'
  BY NextWritesInv
<1>3. WritesInv => LastWriteIsKept
  BY DEF WritesInv, LatestKept, Keeps, LastWriteIsKept
<1> QED
  BY <1>1, <1>2, <1>3, FactsInvHolds, PTL DEF Spec
=============================================================================
