------------------------ MODULE SyncDiffRoundsProofs ------------------------
(***************************************************************************)
(* Theorems about SyncDiffRounds: one undisturbed round settles every      *)
(* small pair of snapshots, for any entities, tables and workspaces.  The  *)
(* lemmas hold for all snapshots that the foreign keys allow, not only for *)
(* the ones that the specification starts from.                            *)
(***************************************************************************)
EXTENDS SyncDiffRounds, SyncDiffProofs

\* Two sides whose facts are among finitely many with different ids.
FactsOK(a, b) ==
    /\ a \in Snapshot
    /\ b \in Snapshot
    /\ UniqueIds(a.log \cup b.log)
    /\ \E m \in Nat : Bounded(a.log \cup b.log, m)

\* The latest fact of a side is one of its facts.
LEMMA LatestIsFact ==
    ASSUME NEW s \in Snapshot, NEW m \in Nat, Bounded(s.log, m),
           NEW e, FactsOf(s.log, e) # {}
    PROVE  Latest(s.log, e) \in Fact
<1>1. s.log \in SUBSET Fact
  BY DEF Snapshot
<1>2. Latest(s.log, e) \in FactsOf(s.log, e)
  BY <1>1, LatestIsGreatest
<1> QED
  BY <1>1, <1>2 DEF FactsOf

\* Not each of two sides is newer than the other.
LEMMA NewerIsAsymmetric ==
    ASSUME NEW a, NEW b, FactsOK(a, b), NEW e
    PROVE  ~(Newer(a, b, e) /\ Newer(b, a, e))
<1> SUFFICES ASSUME Newer(a, b, e), Newer(b, a, e)
             PROVE  FALSE
  OBVIOUS
<1>1. PICK m \in Nat : Bounded(a.log \cup b.log, m)
  BY DEF FactsOK
<1>2. Bounded(a.log, m) /\ Bounded(b.log, m)
  BY <1>1 DEF Bounded
<1>3. FactsOf(a.log, e) # {} /\ FactsOf(b.log, e) # {}
  BY DEF Newer
<1>4. Latest(a.log, e) \in Fact /\ Latest(b.log, e) \in Fact
  BY <1>2, <1>3, LatestIsFact DEF FactsOK
<1>5. Latest(a.log, e).at \in Nat /\ Latest(b.log, e).at \in Nat
  BY <1>4 DEF Fact
<1>6. /\ Latest(a.log, e).at > Latest(b.log, e).at
      /\ Latest(b.log, e).at > Latest(a.log, e).at
  BY <1>3 DEF Newer
<1> QED
  BY <1>5, <1>6

\* A row that is to be kept on one side is not to be kept on the other, and a
\* conflict decides for neither.
LEMMA PrevailsOnOneSide ==
    ASSUME NEW a, NEW b, FactsOK(a, b), NEW e
    PROVE  /\ ~(Prevails(a, b, e) /\ Prevails(b, a, e))
           /\ ~(Undecidable(a, b, e) /\ (Prevails(a, b, e) \/ Prevails(b, a, e)))
<1>1. ~(Newer(a, b, e) /\ Newer(b, a, e))
  BY NewerIsAsymmetric
<1>2. ~(FollowsFieldTombstone(a, b, e) /\ FollowsFieldTombstone(b, a, e))
  BY DEF FollowsFieldTombstone
<1> QED
  BY <1>1, <1>2 DEF Prevails, Undecidable

\* The parts of a plan do not contradict each other.
LEMMA PlanParts ==
    ASSUME NEW a, NEW b, FactsOK(a, b)
    PROVE  LET UL == UpsertLocal(a, b)
               UR == UpsertRemote(a, b)
               DL == DeleteLocal(a, b)
               DR == DeleteRemote(a, b)
               RC == RowConflicts(a, b)
           IN  /\ (UL \cup DL) \cap (UR \cup DR) = {}
               /\ UL \cap DL = {}
               /\ UR \cap DR = {}
               /\ RC \cap (UL \cup UR \cup DL \cup DR) = {}
<1> SUFFICES ASSUME NEW e \in Entity
             PROVE  LET UL == FillsGap(b, a, e) \/ Prevails(b, a, e)
                        UR == FillsGap(a, b, e) \/ Prevails(a, b, e)
                        DL == LosesRow(a, b, e)
                        DR == LosesRow(b, a, e)
                        RC == \/ ForbiddenTombstone(a, b, e)
                              \/ ForbiddenTombstone(b, a, e)
                              \/ Undecidable(a, b, e)
                    IN  /\ ~((UL \/ DL) /\ (UR \/ DR))
                        /\ ~(UL /\ DL) /\ ~(UR /\ DR)
                        /\ ~(RC /\ (UL \/ UR \/ DL \/ DR))
  BY DEF UpsertLocal, UpsertRemote, DeleteLocal, DeleteRemote, RowConflicts
<1>1. CASE a.rows[e] # Absent /\ b.rows[e] # Absent
  BY <1>1, PrevailsOnOneSide DEF FillsGap, LosesRow, ForbiddenTombstone
<1>2. CASE a.rows[e] = Absent
  BY <1>2 DEF FillsGap, Prevails, LosesRow, ForbiddenTombstone, Undecidable, Removable
<1>3. CASE b.rows[e] = Absent
  BY <1>3 DEF FillsGap, Prevails, LosesRow, ForbiddenTombstone, Undecidable, Removable
<1> QED
  BY <1>1, <1>2, <1>3

\* The matrix, for every entity of any two sides.
LEMMA Matrix ==
    ASSUME NEW a, NEW b, NEW e \in Entity, Removable(e)
    PROVE  LET p == State(a, e)
               q == State(b, e)
           IN  "Inconsistent" \notin {p, q} =>
               /\ e \in UpsertRemote(a, b) <=>
                     \/ p = "Present" /\ q = "AbsentUnknown"
                     \/ /\ p = "Present" /\ q = "Present"
                        /\ a.rows[e] # b.rows[e]
                        /\ Newer(a, b, e)
               /\ e \in UpsertLocal(a, b) <=>
                     \/ q = "Present" /\ p = "AbsentUnknown"
                     \/ /\ p = "Present" /\ q = "Present"
                        /\ a.rows[e] # b.rows[e]
                        /\ Newer(b, a, e)
               /\ e \in DeleteRemote(a, b) <=> p = "Tombstoned" /\ q = "Present"
               /\ e \in DeleteLocal(a, b) <=> p = "Present" /\ q = "Tombstoned"
<1>1. TableOf[e] \in {Fields, NoteTags, NoteLinks}
  BY RemovableTables
<1>2. TableOf[e] # Notes /\ TableOf[e] # Workspaces
  BY <1>1 DEF Fields, NoteTags, NoteLinks, Notes, Workspaces
<1>3. /\ ~FollowsFieldTombstone(a, b, e) /\ ~FollowsFieldTombstone(b, a, e)
      /\ ~StaysLocal(a, b, e)
      /\ Lifecycle(e) \notin {"SoftDelete", "Workspace"}
  BY <1>2 DEF FollowsFieldTombstone, StaysLocal, Removable
<1>4. /\ e \in UpsertRemote(a, b) <=> FillsGap(a, b, e) \/ Prevails(a, b, e)
      /\ e \in UpsertLocal(a, b) <=> FillsGap(b, a, e) \/ Prevails(b, a, e)
      /\ e \in DeleteRemote(a, b) <=> LosesRow(b, a, e)
      /\ e \in DeleteLocal(a, b) <=> LosesRow(a, b, e)
  BY <1>3 DEF UpsertRemote, UpsertLocal, DeleteRemote, DeleteLocal
<1>5. CASE a.rows[e] # Absent /\ b.rows[e] # Absent
  BY <1>3, <1>4, <1>5 DEF FillsGap, Prevails, LosesRow, State
<1>6. CASE a.rows[e] = Absent
  BY <1>3, <1>4, <1>6 DEF FillsGap, Prevails, LosesRow, State
<1>7. CASE b.rows[e] = Absent
  BY <1>3, <1>4, <1>7 DEF FillsGap, Prevails, LosesRow, State
<1> QED
  BY <1>5, <1>6, <1>7

-----------------------------------------------------------------------------
\* One round.

\* Only notes refer to a field, and to one that is stored.
FieldsStored(s) ==
    \A e \in Present(s) : s.rows[e].field # NoField =>
        /\ TableOf[e] = Notes
        /\ s.rows[s.rows[e].field] # Absent

\* A workspace that the remote side lacks owns nothing there.
OwnersStored(a, b) ==
    \A e \in Entity :
        TableOf[e] = Workspaces /\ a.rows[e] # Absent /\ b.rows[e] = Absent =>
            EmptyWorkspace(b, e)

\* What foreign keys allow of two sides.
KeysOK == FieldsStored(l) /\ FieldsStored(r) /\ OwnersStored(l, r)

\* A round that is carried out.
Settling ==
    /\ FactsOK(l, r)
    /\ KeysOK
    /\ ~HasConflicts(l, r)
    /\ LocalAccepts(LocalRows)
    /\ RemoteAccepts(RemoteRows)

\* Equal rows are left alone.
LEMMA EqualIsKept ==
    ASSUME NEW a, NEW b, NEW e \in Entity, a.rows[e] = b.rows[e]
    PROVE  /\ e \notin UpsertLocal(a, b) \cup UpsertRemote(a, b)
           /\ e \notin DeleteLocal(a, b) \cup DeleteRemote(a, b)
BY DEF UpsertLocal, UpsertRemote, DeleteLocal, DeleteRemote, FillsGap, Prevails, LosesRow

\* A note that the local side is left with does not refer to a field that is
\* deleted there: the remote side does not have the field, so its version of
\* the note, if it differs, is the one that is kept, or the round is refused.
LEMMA NothingIsCleared ==
    ASSUME Settling, NEW e \in Refers(LocalRows, DeleteLocal(l, r))
    PROVE  e \in DeleteLocal(l, r)
<1> SUFFICES ASSUME e \notin DeleteLocal(l, r)
             PROVE  FALSE
  OBVIOUS
<1>1. PICK g : g = LocalRows[e].field
  OBVIOUS
<1>2. /\ e \in Entity /\ LocalRows[e] # Absent
      /\ g \in DeleteLocal(l, r)
  BY <1>1 DEF Refers
<1>3. /\ g \in Entity /\ g # NoField
      /\ l.rows[g] # Absent /\ r.rows[g] = Absent
  BY <1>2, NoFieldAssumption DEF DeleteLocal, LosesRow
<1>4. FieldsStored(l) /\ FieldsStored(r) /\ FactsOK(l, r)
  BY DEF Settling, KeysOK
<1>5. RowConflicts(l, r) = {}
  BY DEF Settling, HasConflicts
<1>6. CASE e \in UpsertLocal(l, r)
  <2>1. LocalRows[e] = r.rows[e]
    BY <1>2, <1>6 DEF LocalRows, Overwrite
  <2> QED
    BY <1>1, <1>2, <1>3, <1>4, <2>1 DEF FieldsStored, Present
<1>7. CASE e \notin UpsertLocal(l, r)
  <2>1. LocalRows[e] = l.rows[e]
    BY <1>2, <1>7 DEF LocalRows, Overwrite
  <2>2. l.rows[e] # r.rows[e]
    BY <1>1, <1>2, <1>3, <1>4, <2>1 DEF FieldsStored, Present
  <2>3. \/ e \in UpsertRemote(l, r)
        \/ e \in DeleteRemote(l, r)
        \/ StaysLocal(l, r, e)
    BY <1>2, <1>5, <1>7, <2>2, DifferenceShows
  <2>4. e \notin DeleteRemote(l, r)
    BY <1>2, <2>1 DEF DeleteRemote, LosesRow
  <2>5. ~StaysLocal(l, r, e)
    BY <1>1, <1>2, <1>3, <1>4, <2>1 DEF FieldsStored, Present, StaysLocal, Notes, Workspaces
  <2>6. e \in UpsertRemote(l, r)
    BY <2>3, <2>4, <2>5
  <2>7. g \notin UpsertRemote(l, r)
    BY <1>2, <1>4, PlanParts
  <2>8. RemoteRows[e] = l.rows[e] /\ RemoteRows[g] = r.rows[g]
    BY <1>2, <1>3, <2>6, <2>7 DEF RemoteRows, Overwrite
  <2>9. RemoteRows[g] # Absent
    BY <1>1, <1>3, <2>1, <2>6, <2>8 DEF Settling, RemoteAccepts, FieldsFound
  <2> QED
    BY <1>3, <2>8, <2>9
<1> QED
  BY <1>6, <1>7

\* The rows of both sides after the round.
LEMMA SettledRows ==
    ASSUME Settling, NEW e \in Entity
    PROVE  /\ Without(LocalRows, DeleteLocal(l, r))[e] =
                 IF e \in DeleteLocal(l, r) THEN Absent
                 ELSE IF e \in UpsertLocal(l, r) THEN r.rows[e] ELSE l.rows[e]
           /\ Without(RemoteRows, DeleteRemote(l, r))[e] =
                 IF e \in DeleteRemote(l, r) THEN Absent
                 ELSE IF e \in UpsertRemote(l, r) THEN l.rows[e] ELSE r.rows[e]
<1>1. e \in DeleteLocal(l, r) \/ e \notin Refers(LocalRows, DeleteLocal(l, r))
  BY NothingIsCleared
<1>2. e \notin Refers(RemoteRows, DeleteRemote(l, r))
  BY DEF Settling, RemoteAccepts
<1>3. /\ LocalRows[e] = IF e \in UpsertLocal(l, r) THEN r.rows[e] ELSE l.rows[e]
      /\ RemoteRows[e] = IF e \in UpsertRemote(l, r) THEN l.rows[e] ELSE r.rows[e]
  BY DEF LocalRows, RemoteRows, Overwrite
<1> QED
  BY <1>1, <1>2, <1>3 DEF Without

\* The logs of both sides after the round.
LEMMA SettledLogs ==
    ASSUME FactsOK(l, r), ~HasConflicts(l, r)
    PROVE  /\ l.log \cup FactsLocal(l, r) = l.log \cup r.log
           /\ r.log \cup FactsRemote(l, r) = l.log \cup r.log
<1>1. PICK m \in Nat : Bounded(l.log \cup r.log, m)
  BY DEF FactsOK
<1>2. Bounded(l.log, m) /\ Bounded(r.log, m)
  BY <1>1 DEF Bounded
<1>3. FactsLocal(l, r) \subseteq r.log /\ FactsRemote(l, r) \subseteq l.log
  BY <1>2, FactsLocalAreRemote, FactsRemoteAreLocal DEF FactsOK
<1>4. \A c \in l.log : \A g \in r.log : g.id = c.id => g = c
  BY DEF HasConflicts, FactConflicts
<1>5. r.log \subseteq l.log \cup FactsLocal(l, r)
  <2> SUFFICES ASSUME NEW c \in r.log, c \notin l.log
               PROVE  c \in FactsLocal(l, r)
    OBVIOUS
  <2>1. \A g \in l.log : g.id # c.id
    BY <1>4
  <2> QED
    BY <2>1 DEF FactsLocal, FactsToCopy
<1>6. l.log \subseteq r.log \cup FactsRemote(l, r)
  <2> SUFFICES ASSUME NEW c \in l.log, c \notin r.log
               PROVE  c \in FactsRemote(l, r)
    OBVIOUS
  <2>1. \A g \in r.log : g.id # c.id
    BY <1>4
  <2> QED
    BY <2>1 DEF FactsRemote, FactsToCopy
<1> QED
  BY <1>3, <1>5, <1>6

\* A round that is carried out leaves both sides with the same data, and so
\* with nothing to do.
LEMMA RoundSettles ==
    ASSUME Settling, NEW a, NEW b,
           a = [rows |-> Without(LocalRows, DeleteLocal(l, r)),
                log |-> l.log \cup FactsLocal(l, r)],
           b = [rows |-> Without(RemoteRows, DeleteRemote(l, r)),
                log |-> r.log \cup FactsRemote(l, r)]
    PROVE  InSync(a, b)
<1>1. FactsOK(l, r) /\ ~HasConflicts(l, r) /\ OwnersStored(l, r)
  BY DEF Settling, KeysOK
<1>2. a.log = l.log \cup r.log /\ b.log = l.log \cup r.log
  BY <1>1, SettledLogs
<1>3. UniqueIds(a.log)
  BY <1>1, <1>2 DEF FactsOK
<1>4. \A e \in Entity :
        /\ a.rows[e] = IF e \in DeleteLocal(l, r) THEN Absent
                       ELSE IF e \in UpsertLocal(l, r) THEN r.rows[e] ELSE l.rows[e]
        /\ b.rows[e] = IF e \in DeleteRemote(l, r) THEN Absent
                       ELSE IF e \in UpsertRemote(l, r) THEN l.rows[e] ELSE r.rows[e]
  BY SettledRows
<1> DEFINE UL == UpsertLocal(l, r)
           UR == UpsertRemote(l, r)
           DL == DeleteLocal(l, r)
           DR == DeleteRemote(l, r)
<1>5. /\ (UL \cup DL) \cap (UR \cup DR) = {}
      /\ UL \cap DL = {} /\ UR \cap DR = {}
  BY <1>1, PlanParts
<1>6. ASSUME NEW e \in Entity
      PROVE  a.rows[e] = b.rows[e] \/ StaysLocal(a, b, e)
  <2>1. CASE l.rows[e] = r.rows[e]
    BY <1>4, <2>1, EqualIsKept
  <2>2. CASE e \in UL \cup UR
    BY <1>4, <1>5, <2>2
  <2>3. CASE e \in DL \cup DR
    <3>1. /\ e \in DL => r.rows[e] = Absent
          /\ e \in DR => l.rows[e] = Absent
      BY DEF DeleteLocal, DeleteRemote, LosesRow
    <3> QED
      BY <1>4, <1>5, <2>3, <3>1
  <2>4. CASE l.rows[e] # r.rows[e] /\ e \notin UL \cup UR \cup DL \cup DR /\ StaysLocal(l, r, e)
    <3>1. /\ TableOf[e] = Workspaces /\ l.rows[e] # Absent /\ r.rows[e] = Absent
          /\ EmptyWorkspace(l, e)
      BY <2>4 DEF StaysLocal
    <3>2. EmptyWorkspace(r, e)
      BY <1>1, <3>1 DEF OwnersStored
    <3>3. b.rows[e] = Absent
      BY <1>4, <2>4, <3>1
    <3>4. Present(a) \subseteq Present(l) \cup Present(r)
      BY <1>4 DEF Present
    <3>5. EmptyWorkspace(a, e)
      BY <1>2, <3>1, <3>2, <3>4 DEF EmptyWorkspace
    <3> QED
      BY <3>1, <3>3, <3>5 DEF StaysLocal
  <2>5. l.rows[e] # r.rows[e] =>
            e \in UL \cup UR \cup DL \cup DR \/ StaysLocal(l, r, e)
    BY <1>1, DifferenceShows DEF HasConflicts
  <2> QED
    BY <2>1, <2>2, <2>3, <2>4, <2>5
<1>7. SameData(a, b)
  BY <1>2, <1>6 DEF SameData
<1> QED
  BY <1>3, <1>7, AgreementIsEmptyDiff

-----------------------------------------------------------------------------
\* The specification.

\* The facts that a run is about.
Facts == FactsAbout(focus) \cup {FieldDeleted}

RoundsInv ==
    /\ TypeOK
    /\ l.log \subseteq Facts
    /\ r.log \subseteq Facts
    /\ phase # "done" => KeysOK
    /\ phase = "done" => InSync(l, r)

LEMMA FactsTyped ==
    ASSUME focus \in Entity
    PROVE  /\ Facts \in SUBSET Fact
           /\ UniqueIds(Facts)
           /\ Bounded(Facts, 5)
BY FieldAssumption DEF Facts, FactsAbout, FieldDeleted, Fact, UniqueIds, Bounded

LEMMA InvFacts ==
    RoundsInv => FactsOK(l, r)
<1> SUFFICES ASSUME RoundsInv
             PROVE  FactsOK(l, r)
  OBVIOUS
<1>1. UniqueIds(Facts) /\ Bounded(Facts, 5)
  BY FactsTyped DEF RoundsInv, TypeOK
<1>2. l.log \cup r.log \subseteq Facts
  BY DEF RoundsInv
<1>3. UniqueIds(l.log \cup r.log) /\ Bounded(l.log \cup r.log, 5)
  BY <1>1, <1>2 DEF UniqueIds, Bounded
<1> QED
  BY <1>3 DEF FactsOK, RoundsInv, TypeOK

LEMMA RowsOfTyped ==
    ASSUME NEW e \in Entity, NEW row \in RowsOf(e)
    PROVE  /\ row \in Row \cup {Absent}
           /\ row # Absent /\ row.field # NoField => TableOf[e] = Notes /\ row.field = Field
<1>1. /\ Plain \in Row /\ Plain.field = NoField
      /\ [Plain EXCEPT !.ver = 2, !.field = Field] \in Row
      /\ [Plain EXCEPT !.ver = 2, !.field = Field].field = Field
      /\ [Plain EXCEPT !.state = "archived"] \in Row
      /\ [Plain EXCEPT !.state = "archived"].field = NoField
      /\ [Plain EXCEPT !.state = "archived", !.field = Field] \in Row
      /\ [Plain EXCEPT !.state = "archived", !.field = Field].field = Field
      /\ [Plain EXCEPT !.at = 2] \in Row
      /\ [Plain EXCEPT !.at = 2].field = NoField
  BY FieldAssumption DEF Plain, Row
<1> HIDE DEF Plain
<1>2. CASE TableOf[e] = Notes
  BY <1>1, <1>2 DEF RowsOf
<1>3. CASE TableOf[e] # Notes
  BY <1>1, <1>3 DEF RowsOf
<1> QED
  BY <1>2, <1>3

LEMMA ContextTyped ==
    ASSUME NEW e \in Entity, NEW ctx \in Context(e)
    PROVE  ctx.rows \subseteq {Field, Dependent} /\ ctx.log \subseteq {FieldDeleted}
<1>1. CASE TableOf[e] = Notes
  BY <1>1 DEF Context
<1>2. CASE TableOf[e] # Notes /\ TableOf[e] = Workspaces
  BY <1>2 DEF Context
<1>3. CASE TableOf[e] # Notes /\ TableOf[e] # Workspaces
  BY <1>3 DEF Context
<1> QED
  BY <1>1, <1>2, <1>3

\* What the sides are that the specification starts from.
LEMMA SidesOK ==
    ASSUME focus \in Entity, NEW s \in Sides(focus)
    PROVE  /\ s \in Snapshot
           /\ s.log \subseteq Facts
           /\ FieldsStored(s)
           /\ \A e \in Entity : TableOf[e] = Workspaces /\ s.rows[e] # Absent => e = focus
           /\ TableOf[focus] = Workspaces =>
                 s.rows[focus] # Absent \/ EmptyWorkspace(s, focus)
<1>1. s \in AllSides(focus) /\ Valid(s)
  BY DEF Sides
<1>2. PICK row \in RowsOf(focus), facts \in SUBSET FactsAbout(focus), ctx \in Context(focus) :
        s = [rows |-> [o \in Entity |-> IF o = focus THEN row
                                        ELSE IF o \in ctx.rows THEN Plain ELSE Absent],
             log |-> facts \cup ctx.log]
  BY <1>1 DEF AllSides
<1>3. ctx.rows \subseteq {Field, Dependent} /\ ctx.log \subseteq {FieldDeleted}
  BY ContextTyped
<1>4. /\ row \in Row \cup {Absent}
      /\ row # Absent /\ row.field # NoField => TableOf[focus] = Notes
  BY RowsOfTyped
<1>5. Plain \in Row /\ Plain.field = NoField
  BY DEF Plain, Row
<1>6. s.log \subseteq Facts
  BY <1>2, <1>3 DEF Facts
<1>7. s \in Snapshot
  <2>1. Facts \in SUBSET Fact
    BY FactsTyped
  <2> HIDE DEF Plain
  <2>2. [o \in Entity |-> IF o = focus THEN row
                          ELSE IF o \in ctx.rows THEN Plain ELSE Absent]
            \in [Entity -> Row \cup {Absent}]
    BY <1>4, <1>5
  <2>3. facts \cup ctx.log \in SUBSET Fact
    BY <1>2, <1>6, <2>1
  <2> QED
    BY <1>2, <2>2, <2>3 DEF Snapshot
<1>8. \A e \in Entity : s.rows[e] = IF e = focus THEN row
                                    ELSE IF e \in ctx.rows THEN Plain ELSE Absent
  BY <1>2
<1>9. FieldsStored(s)
  BY <1>1, <1>4, <1>5, <1>8 DEF FieldsStored, Present, Valid
<1>10. \A e \in Entity : TableOf[e] = Workspaces /\ s.rows[e] # Absent => e = focus
  <2>1. TableOf[Field] # Workspaces /\ TableOf[Dependent] # Workspaces
    BY FieldAssumption, DependentAssumption DEF Fields, Workspaces
  <2> QED
    BY <1>3, <1>8, <2>1
<1> QED
  BY <1>1, <1>6, <1>7, <1>9, <1>10 DEF Valid

LEMMA RoundsInit ==
    Init => RoundsInv
<1> SUFFICES ASSUME Init
             PROVE  RoundsInv
  OBVIOUS
<1>1. focus \in Entity /\ l \in Sides(focus) /\ r \in Sides(focus) /\ phase = "apart"
  BY DEF Init
<1>2. TypeOK /\ l.log \subseteq Facts /\ r.log \subseteq Facts
  BY <1>1, SidesOK DEF TypeOK
<1>3. FieldsStored(l) /\ FieldsStored(r)
  BY <1>1, SidesOK
<1>4. OwnersStored(l, r)
  BY <1>1, SidesOK DEF OwnersStored
<1> QED
  BY <1>1, <1>2, <1>3, <1>4 DEF RoundsInv, KeysOK

\* The tables keep their types.
LEMMA WithoutTyped ==
    ASSUME NEW rows \in [Entity -> Row \cup {Absent}], NEW D
    PROVE  Without(rows, D) \in [Entity -> Row \cup {Absent}]
<1>1. \A e \in Refers(rows, D) : [rows[e] EXCEPT !.field = NoField] \in Row
  BY DEF Refers, Row
<1> QED
  BY <1>1 DEF Without

LEMMA OverwriteTyped ==
    ASSUME NEW a \in Snapshot, NEW b \in Snapshot, NEW E
    PROVE  Overwrite(a, b, E) \in [Entity -> Row \cup {Absent}]
BY DEF Overwrite, Snapshot

\* When there is nothing to do, a round is carried out and changes nothing.
LEMMA SettledRound ==
    ASSUME RoundsInv, InSync(l, r), Round
    PROVE  phase' = "done" /\ UNCHANGED <<focus, l, r>>
<1>1. /\ UpsertLocal(l, r) = {} /\ UpsertRemote(l, r) = {}
      /\ DeleteLocal(l, r) = {} /\ DeleteRemote(l, r) = {}
      /\ FactsLocal(l, r) = {} /\ FactsRemote(l, r) = {}
      /\ ~HasConflicts(l, r)
  BY DEF InSync, HasLocalWork, HasRemoteWork
<1>2. l \in Snapshot /\ r \in Snapshot
  BY DEF RoundsInv, TypeOK
<1>3. LocalRows = l.rows /\ RemoteRows = r.rows
  BY <1>1, <1>2 DEF LocalRows, RemoteRows, Overwrite, Snapshot
<1>4. \A rows : Refers(rows, {}) = {}
  BY DEF Refers
<1>5. LocalAccepts(LocalRows) /\ RemoteAccepts(RemoteRows)
  BY <1>1, <1>4 DEF LocalAccepts, RemoteAccepts, FieldsFound
<1>6. Without(l.rows, {}) = l.rows /\ Without(r.rows, {}) = r.rows
  BY <1>2, <1>4 DEF Without, Snapshot
<1>7. /\ phase' = "done" /\ UNCHANGED focus
      /\ l' = [rows |-> l.rows, log |-> l.log]
      /\ r' = [rows |-> r.rows, log |-> r.log]
  BY <1>1, <1>3, <1>5, <1>6 DEF Round
<1> QED
  BY <1>2, <1>7 DEF Snapshot

\* A round that is carried out.
LEMMA SettlingRound ==
    ASSUME RoundsInv, Settling, Round
    PROVE  RoundsInv'
<1>1. TypeOK /\ l.log \subseteq Facts /\ r.log \subseteq Facts
  BY DEF RoundsInv
<1>2. /\ phase' = "done" /\ focus' = focus
      /\ l' = [rows |-> Without(LocalRows, DeleteLocal(l, r)),
               log |-> l.log \cup FactsLocal(l, r)]
      /\ r' = [rows |-> Without(RemoteRows, DeleteRemote(l, r)),
               log |-> r.log \cup FactsRemote(l, r)]
  BY DEF Round, Settling
<1>3. InSync(l', r')
  BY <1>2, RoundSettles
<1>4. l'.log = l.log \cup r.log /\ r'.log = l.log \cup r.log
  BY <1>2, SettledLogs DEF Settling
<1>5. /\ Without(LocalRows, DeleteLocal(l, r)) \in [Entity -> Row \cup {Absent}]
      /\ Without(RemoteRows, DeleteRemote(l, r)) \in [Entity -> Row \cup {Absent}]
  BY <1>1, OverwriteTyped, WithoutTyped DEF TypeOK, LocalRows, RemoteRows
<1>6. l' \in Snapshot /\ r' \in Snapshot
  <2>1. l.log \cup r.log \in SUBSET Fact
    BY <1>1 DEF TypeOK, Snapshot
  <2> QED
    BY <1>2, <1>4, <1>5, <2>1 DEF Snapshot
<1>7. Facts' = Facts
  BY <1>2 DEF Facts
<1> QED
  BY <1>1, <1>2, <1>3, <1>4, <1>6, <1>7 DEF RoundsInv, TypeOK

LEMMA RoundsStep ==
    RoundsInv /\ [Round]_vars => RoundsInv'
<1> SUFFICES ASSUME RoundsInv, [Round]_vars
             PROVE  RoundsInv'
  OBVIOUS
<1>1. ASSUME UNCHANGED <<focus, l, r>>, phase' \in {"apart", "done", "conflict", "refused"},
             phase' = "done" => InSync(l, r), phase' # "done" => KeysOK
      PROVE  RoundsInv'
  <2>1. Facts' = Facts /\ (KeysOK => KeysOK')
    BY <1>1 DEF Facts, KeysOK
  <2> QED
    BY <1>1, <2>1 DEF RoundsInv, TypeOK
<1>2. CASE UNCHANGED vars
  BY <1>1, <1>2 DEF vars, RoundsInv, TypeOK
<1>3. CASE Round /\ phase = "done"
  <2>1. InSync(l, r)
    BY <1>3 DEF RoundsInv
  <2>2. phase' = "done" /\ UNCHANGED <<focus, l, r>>
    BY <1>3, <2>1, SettledRound
  <2> QED
    BY <1>1, <2>1, <2>2
<1>4. CASE Round /\ phase # "done"
  <2>1. KeysOK /\ FactsOK(l, r)
    BY <1>4, InvFacts DEF RoundsInv
  <2>2. CASE HasConflicts(l, r)
    BY <1>1, <1>4, <2>1, <2>2 DEF Round
  <2>3. CASE ~HasConflicts(l, r) /\ (~LocalAccepts(LocalRows) \/ ~RemoteAccepts(RemoteRows))
    BY <1>1, <1>4, <2>1, <2>3 DEF Round
  <2>4. CASE Settling
    BY <1>4, <2>4, SettlingRound
  <2> QED
    BY <2>1, <2>2, <2>3, <2>4 DEF Settling
<1> QED
  BY <1>2, <1>3, <1>4

LEMMA RoundsInductive ==
    Spec => []RoundsInv
<1> QED
  BY RoundsInit, RoundsStep, PTL DEF Spec

-----------------------------------------------------------------------------
\* The types of the two sides, also of what a round leaves.
THEOREM TypeCorrect ==
    Spec => []TypeOK
<1>1. RoundsInv => TypeOK
  BY DEF RoundsInv
<1> QED
  BY <1>1, RoundsInductive, PTL

\* A round that is carried out leaves nothing to do: what it writes does not
\* call for another plan and does not raise a conflict.
THEOREM RoundsSettle ==
    Spec => []OneRoundSettles
<1>1. RoundsInv => OneRoundSettles
  BY DEF RoundsInv, OneRoundSettles
<1> QED
  BY <1>1, RoundsInductive, PTL

\* The comparison is empty exactly when both sides hold the same data.
THEOREM EmptyMeansAgreed ==
    Spec => []EmptyDiffMeansAgreement
<1>1. RoundsInv => EmptyDiffMeansAgreement
  <2> SUFFICES ASSUME RoundsInv
               PROVE  InSync(l, r) <=> SameData(l, r)
    BY DEF EmptyDiffMeansAgreement
  <2>1. UniqueIds(l.log)
    BY InvFacts DEF FactsOK, UniqueIds
  <2> QED
    BY <2>1, EmptyDiffIsAgreement, AgreementIsEmptyDiff
<1> QED
  BY <1>1, RoundsInductive, PTL

\* No row is to be written and deleted, or repaired on both sides, and a row
\* in conflict is left alone.
THEOREM PlansAreConsistent ==
    Spec => []PlanIsConsistent
<1>1. RoundsInv => PlanIsConsistent
  BY InvFacts, PlanParts DEF PlanIsConsistent
<1> QED
  BY <1>1, RoundsInductive, PTL

\* What is done to a removable row follows the matrix of r037.
THEOREM MatrixIsFollowed ==
    Spec => []FollowsMatrix
<1>1. RoundsInv => FollowsMatrix
  <2> SUFFICES ASSUME RoundsInv, Removable(focus)
               PROVE  FollowsMatrix
    BY DEF FollowsMatrix
  <2>1. focus \in Entity
    BY DEF RoundsInv, TypeOK
  <2> QED
    BY <2>1, Matrix DEF FollowsMatrix
<1> QED
  BY <1>1, RoundsInductive, PTL
=============================================================================
