--------------------------- MODULE SyncDiffProofs ---------------------------
(***************************************************************************)
(* What the comparison of SyncDiff guarantees for all snapshots.           *)
(***************************************************************************)
EXTENDS SyncDiff, WellFoundedInduction, TLAPS

\* A nonempty set of natural numbers has a least element.
LEMMA LeastNatural ==
    ASSUME NEW S \in SUBSET Nat, S # {}
    PROVE  \E m \in S : \A k \in S : m <= k
<1>1. \E m \in S : \A k \in S : <<k, m>> \notin OpToRel(<, Nat)
  <2> HIDE DEF OpToRel
  <2> QED
    BY NatLessThanWellFounded, WFMin
<1>2. PICK m \in S : \A k \in S : <<k, m>> \notin OpToRel(<, Nat)
  BY <1>1
<1>3. \A k \in S : ~(k < m)
  BY <1>2 DEF OpToRel
<1> QED
  BY <1>3

\* A nonempty bounded set of natural numbers has a greatest element.
LEMMA GreatestNatural ==
    ASSUME NEW S \in SUBSET Nat, S # {}, NEW b \in Nat, \A k \in S : k <= b
    PROVE  \E m \in S : \A k \in S : k <= m
<1> DEFINE T == {b - k : k \in S}
<1>1. T \in SUBSET Nat /\ T # {}
  <2>1. \A k \in S : b - k \in Nat
    OBVIOUS
  <2> QED
    BY <2>1
<1>2. PICK t \in T : \A u \in T : t <= u
  <2> HIDE DEF T
  <2> QED
    BY <1>1, LeastNatural
<1>3. PICK m \in S : t = b - m
  BY <1>2
<1>4. \A k \in S : b - m <= b - k
  BY <1>2, <1>3
<1> QED
  BY <1>4

-----------------------------------------------------------------------------
\* Facts.

\* All facts of `log` have ids and seconds up to `b`.  A table of facts is
\* finite; a bound is the form of it that the proofs use.
Bounded(log, b) == \A c \in log : c.id <= b /\ c.at <= b

UniqueIds(log) == \A c, d \in log : c.id = d.id => c = d

\* The latest fact of an entity is one of its facts and none comes after it.
LEMMA LatestIsGreatest ==
    ASSUME NEW log \in SUBSET Fact, NEW b \in Nat, Bounded(log, b),
           NEW e, FactsOf(log, e) # {}
    PROVE  /\ Latest(log, e) \in FactsOf(log, e)
           /\ \A d \in FactsOf(log, e) : ~After(d, Latest(log, e))
<1> DEFINE F == FactsOf(log, e)
           Times == {c.at : c \in F}
<1>1. F \in SUBSET Fact /\ F \subseteq log
  BY DEF FactsOf
<1>2. PICK t \in Times : \A u \in Times : u <= t
  <2>1. Times \in SUBSET Nat /\ Times # {}
    BY <1>1 DEF Fact
  <2>2. \A u \in Times : u <= b
    BY <1>1 DEF Bounded
  <2> HIDE DEF Times
  <2> QED
    BY <2>1, <2>2, GreatestNatural
<1> DEFINE Ids == {c.id : c \in {d \in F : d.at = t}}
<1>3. PICK i \in Ids : \A j \in Ids : j <= i
  <2>1. Ids \in SUBSET Nat
    BY <1>1 DEF Fact
  <2>2. Ids # {}
    BY <1>2
  <2>3. \A j \in Ids : j <= b
    BY <1>1 DEF Bounded
  <2> HIDE DEF Ids
  <2> QED
    BY <2>1, <2>2, <2>3, GreatestNatural
<1>4. PICK c \in F : c.at = t /\ c.id = i
  BY <1>3
<1>5. \A d \in F : ~After(d, c)
  <2> SUFFICES ASSUME NEW d \in F, After(d, c) PROVE FALSE
    OBVIOUS
  <2>1. d.at <= t /\ d.at \in Nat /\ c.at \in Nat /\ d.id \in Nat /\ c.id \in Nat
    BY <1>1, <1>2 DEF Fact
  <2>2. d.at = t => d.id <= i
    BY <1>3
  <2> QED
    BY <2>1, <2>2, <1>4 DEF After
<1>6. \E g \in F : \A d \in F : ~After(d, g)
  BY <1>5
<1>7. Latest(log, e) = CHOOSE g \in F : \A d \in F : ~After(d, g)
  BY DEF Latest
<1> QED
  BY <1>6, <1>7

\* Where ids are unique, only the latest fact has none after it.
LEMMA LatestIs ==
    ASSUME NEW log \in SUBSET Fact, NEW b \in Nat, Bounded(log, b), UniqueIds(log),
           NEW e, NEW c \in FactsOf(log, e), \A d \in FactsOf(log, e) : ~After(d, c)
    PROVE  Latest(log, e) = c
<1>1. PICK g : /\ g = Latest(log, e) /\ g \in FactsOf(log, e)
               /\ \A d \in FactsOf(log, e) : ~After(d, g)
  BY LatestIsGreatest
<1>2. c \in log /\ g \in log /\ c \in Fact /\ g \in Fact
  BY <1>1 DEF FactsOf
<1>3. ~After(c, g) /\ ~After(g, c)
  BY <1>1
<1>4. c.id = g.id
  BY <1>2, <1>3 DEF After, Fact
<1> QED
  BY <1>1, <1>2, <1>4 DEF UniqueIds

\* What is copied was on the side it is copied from: the tombstones behind the
\* deletions are facts of that side.
LEMMA CopiedFacts ==
    ASSUME NEW from \in Snapshot, NEW to \in Snapshot, NEW b \in Nat,
           Bounded(from.log, b), NEW E, \A e \in E : Tombstoned(from.log, e)
    PROVE  FactsToCopy(from, to, E) \subseteq from.log
<1>1. \A e \in E : Latest(from.log, e) \in from.log
  <2> SUFFICES ASSUME NEW e \in E PROVE Latest(from.log, e) \in from.log
    OBVIOUS
  <2>1. FactsOf(from.log, e) # {} /\ from.log \in SUBSET Fact
    BY DEF Tombstoned, Snapshot
  <2>2. Latest(from.log, e) \in FactsOf(from.log, e)
    BY <2>1, LatestIsGreatest
  <2> QED
    BY <2>2 DEF FactsOf
<1> QED
  BY <1>1 DEF FactsToCopy

\* Both directions of the comparison copy facts that the other side holds.
LEMMA FactsLocalAreRemote ==
    ASSUME NEW l \in Snapshot, NEW r \in Snapshot, NEW b \in Nat, Bounded(r.log, b)
    PROVE  FactsLocal(l, r) \subseteq r.log
<1>1. \A e \in DeleteLocal(l, r) : Tombstoned(r.log, e)
  BY DEF DeleteLocal, LosesRow
<1> QED
  BY <1>1, CopiedFacts DEF FactsLocal

LEMMA FactsRemoteAreLocal ==
    ASSUME NEW l \in Snapshot, NEW r \in Snapshot, NEW b \in Nat, Bounded(l.log, b)
    PROVE  FactsRemote(l, r) \subseteq l.log
<1>1. \A e \in DeleteRemote(l, r) : Tombstoned(l.log, e)
  BY DEF DeleteRemote, LosesRow
<1> QED
  BY <1>1, CopiedFacts DEF FactsRemote

\* Where ids are unique, copying leaves the facts of both sides.
LEMMA CopyCompletes ==
    ASSUME NEW l \in Snapshot, NEW r \in Snapshot, NEW b \in Nat,
           Bounded(l.log, b), Bounded(r.log, b), UniqueIds(l.log \cup r.log)
    PROVE  /\ l.log \cup FactsLocal(l, r) = l.log \cup r.log
           /\ r.log \cup FactsRemote(l, r) = l.log \cup r.log
<1>1. FactsLocal(l, r) \subseteq r.log /\ FactsRemote(l, r) \subseteq l.log
  BY FactsLocalAreRemote, FactsRemoteAreLocal
<1>2. \A c \in r.log : c \in l.log \/ c \in FactsLocal(l, r)
  BY DEF UniqueIds, FactsLocal, FactsToCopy
<1>3. \A c \in l.log : c \in r.log \/ c \in FactsRemote(l, r)
  BY DEF UniqueIds, FactsRemote, FactsToCopy
<1> QED
  BY <1>1, <1>2, <1>3

-----------------------------------------------------------------------------
\* An empty difference.

\* Where nothing is to be copied and no id clashes, one log holds the other.
LEMMA NothingToCopy ==
    ASSUME NEW l, NEW r,
           FactsToCopy(r, l, {}) = {}, FactConflicts(l, r) = {}
    PROVE  r.log \subseteq l.log
<1> SUFFICES ASSUME NEW c \in r.log PROVE c \in l.log
  OBVIOUS
<1>1. PICK d \in l.log : d.id = c.id
  BY DEF FactsToCopy
<1>2. \A g \in l.log : \A h \in r.log : ~(h.id = g.id /\ h # g)
  BY DEF FactConflicts
<1> QED
  BY <1>1, <1>2

LEMMA FactConflictsSymmetric ==
    ASSUME NEW l, NEW r, FactConflicts(l, r) = {}
    PROVE  FactConflicts(r, l) = {}
<1>1. \A g \in l.log : \A h \in r.log : ~(h.id = g.id /\ h # g)
  BY DEF FactConflicts
<1> QED
  BY <1>1 DEF FactConflicts

\* Every table has a lifecycle.
LEMMA LifecycleCases ==
    ASSUME NEW e \in Entity
    PROVE  \/ Lifecycle(e) \in {"SoftDelete", "Workspace"}
           \/ Removable(e)
           \/ Lifecycle(e) \in {"Preserved", "AppendOnlyProjection"}
<1>1. TableOf[e] \in Workspaces .. NoteLinks
  BY TableOfAssumption
<1>2. TableOf[e] \in {Workspaces, Devices, Fields, Tags, Notes, NoteRevisions,
                      NoteTags, NoteLinks}
  BY <1>1 DEF Workspaces, Devices, Fields, Tags, Notes, NoteRevisions, NoteTags,
              NoteLinks
<1> QED
  BY <1>2 DEF Lifecycle, Removable, Workspaces, Devices, Fields, Tags, Notes,
              NoteRevisions, NoteTags, NoteLinks

LEMMA RemovableTables ==
    ASSUME NEW e \in Entity
    PROVE  Removable(e) <=> TableOf[e] \in {Fields, NoteTags, NoteLinks}
BY DEF Lifecycle, Removable, Devices, Fields, Tags, Notes, NoteRevisions, NoteTags,
       NoteLinks

\* A difference in one row always shows, as work or as a conflict, except for
\* the workspace that stays local.
LEMMA DifferenceShows ==
    ASSUME NEW l, NEW r, NEW e \in Entity, l.rows[e] # r.rows[e]
    PROVE  \/ e \in UpsertLocal(l, r) \cup UpsertRemote(l, r)
           \/ e \in DeleteLocal(l, r) \cup DeleteRemote(l, r)
           \/ e \in RowConflicts(l, r)
           \/ StaysLocal(l, r, e)
<1>1. CASE r.rows[e] = Absent
  <2>1. FillsGap(l, r, e) \/ LosesRow(r, l, e) \/ LosesRow(l, r, e)
           \/ ForbiddenTombstone(l, r, e)
    BY <1>1, LifecycleCases DEF FillsGap, LosesRow, ForbiddenTombstone
  <2> QED
    BY <2>1 DEF UpsertRemote, DeleteLocal, DeleteRemote, RowConflicts
<1>2. CASE l.rows[e] = Absent
  <2>1. FillsGap(r, l, e) \/ LosesRow(r, l, e) \/ LosesRow(l, r, e)
           \/ ForbiddenTombstone(r, l, e)
    BY <1>2, LifecycleCases DEF FillsGap, LosesRow, ForbiddenTombstone
  <2> QED
    BY <2>1 DEF UpsertLocal, DeleteLocal, DeleteRemote, RowConflicts
<1>3. CASE l.rows[e] # Absent /\ r.rows[e] # Absent
  <2>1. Prevails(l, r, e) \/ Prevails(r, l, e) \/ Undecidable(l, r, e)
    BY <1>3 DEF Prevails, Undecidable
  <2>2. ~StaysLocal(l, r, e)
    BY <1>3 DEF StaysLocal
  <2> QED
    BY <2>1, <2>2 DEF UpsertLocal, UpsertRemote, RowConflicts
<1> QED
  BY <1>1, <1>2, <1>3

\* When the comparison finds no work and no conflict, both sides hold the same
\* rows and facts: verify_converged never certifies a difference.
THEOREM EmptyDiffIsAgreement ==
    ASSUME NEW l, NEW r, InSync(l, r)
    PROVE  SameData(l, r)
<1>1. /\ UpsertLocal(l, r) = {} /\ DeleteLocal(l, r) = {} /\ FactsLocal(l, r) = {}
      /\ UpsertRemote(l, r) = {} /\ DeleteRemote(l, r) = {}
      /\ FactsRemote(l, r) = {}
      /\ RowConflicts(l, r) = {} /\ FactConflicts(l, r) = {}
  BY DEF InSync, HasLocalWork, HasRemoteWork, HasConflicts
<1>2. \A e \in Entity : l.rows[e] = r.rows[e] \/ StaysLocal(l, r, e)
  BY <1>1, DifferenceShows
<1>3. r.log \subseteq l.log
  BY <1>1, NothingToCopy DEF FactsLocal
<1>4. l.log \subseteq r.log
  BY <1>1, NothingToCopy, FactConflictsSymmetric DEF FactsRemote
<1> QED
  BY <1>2, <1>3, <1>4 DEF SameData

\* Equal sides leave nothing to do, provided that ids are unique: the cycle
\* does not invent work, so a settled system stays settled.
THEOREM AgreementIsEmptyDiff ==
    ASSUME NEW l, NEW r, SameData(l, r), UniqueIds(l.log)
    PROVE  InSync(l, r)
<1>1. l.log = r.log
  BY DEF SameData
<1>2. \A e \in Entity : l.rows[e] = r.rows[e] \/ StaysLocal(l, r, e)
  BY DEF SameData
<1>3. \A e \in Entity : StaysLocal(l, r, e) =>
          /\ r.rows[e] = Absent
          /\ Lifecycle(e) = "Workspace"
          /\ ~Removable(e)
  BY DEF StaysLocal, Lifecycle, Removable, Workspaces, Fields, Notes, NoteTags,
         NoteLinks, Devices, Tags, NoteRevisions
<1>4. /\ UpsertLocal(l, r) = {} /\ UpsertRemote(l, r) = {}
      /\ DeleteLocal(l, r) = {} /\ DeleteRemote(l, r) = {}
      /\ RowConflicts(l, r) = {}
  <2> SUFFICES ASSUME NEW e \in Entity
               PROVE  /\ e \notin UpsertLocal(l, r) /\ e \notin UpsertRemote(l, r)
                      /\ e \notin DeleteLocal(l, r) /\ e \notin DeleteRemote(l, r)
                      /\ e \notin RowConflicts(l, r)
    BY DEF UpsertLocal, UpsertRemote, DeleteLocal, DeleteRemote, RowConflicts
  <2>1. CASE l.rows[e] = r.rows[e]
    BY <2>1 DEF UpsertLocal, UpsertRemote, DeleteLocal, DeleteRemote, RowConflicts,
                FillsGap, Prevails, LosesRow, ForbiddenTombstone, Undecidable
  <2>2. CASE StaysLocal(l, r, e)
    BY <2>2, <1>3 DEF UpsertLocal, UpsertRemote, DeleteLocal, DeleteRemote,
                RowConflicts, FillsGap, Prevails, LosesRow, ForbiddenTombstone,
                Undecidable
  <2> QED
    BY <2>1, <2>2, <1>2
<1>5. FactsLocal(l, r) = {} /\ FactsRemote(l, r) = {}
  BY <1>1, <1>4 DEF FactsLocal, FactsRemote, FactsToCopy
<1>6. FactConflicts(l, r) = {}
  BY <1>1 DEF FactConflicts, UniqueIds
<1> QED
  BY <1>4, <1>5, <1>6 DEF InSync, HasLocalWork, HasRemoteWork, HasConflicts
=============================================================================
