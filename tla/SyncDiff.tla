------------------------------ MODULE SyncDiff ------------------------------
(***************************************************************************)
(* The snapshot comparison of src/src/sync/diff.rs: a pure function of two *)
(* table snapshots, the local SQLite one and the remote Supabase one.      *)
(*                                                                         *)
(* Every synchronized row is an entity.  TableOf says which of the nine    *)
(* tables (numbered in the write order of the code) the entity lives in,   *)
(* so that the nine tables and their lifecycles share one comparison.  A   *)
(* row keeps the columns the comparison tells apart: `ver` stands for the  *)
(* content and the revision a note points at, `at` for the row's own       *)
(* timestamps, `field` for notes.field_id, `state` for archived_at and     *)
(* deleted_at.  A fact is a row of sync_changes; its operation is reduced  *)
(* to "tombstone" (delete, detach, remove, unlink) or "put" (any other).   *)
(*                                                                         *)
(* An operator marked Variant is a wrong version of the one that follows   *)
(* it; the specification does not use it.                                  *)
(***************************************************************************)
EXTENDS Naturals

CONSTANTS
    Entity,       \* rows that can exist, identified by their primary key
    TableOf,      \* the table of each entity
    WorkspaceOf,  \* the workspace entity that owns each entity
    Absent,       \* no row under this key
    NoField,      \* notes.field_id IS NULL
    NoFact        \* no sync_changes row for the entity

\* The nine tables, numbered by SyncTableName::write_order.
Workspaces == 0
Devices == 1
Fields == 2
Tags == 3
Notes == 4
NoteRevisions == 5
NoteTags == 6
NoteLinks == 7
SyncChanges == 8

ASSUME TableOfAssumption == TableOf \in [Entity -> Workspaces .. NoteLinks]
ASSUME WorkspaceOfAssumption == WorkspaceOf \in [Entity -> Entity]
ASSUME NoFieldAssumption == NoField \notin Entity

Row == [ver : Nat, at : Nat, field : Entity \cup {NoField},
        state : {"visible", "archived", "deleted"}]

Fact == [id : Nat, entity : Entity, op : {"put", "tombstone"}, at : Nat]

ASSUME AbsentAssumption == Absent \notin Row
ASSUME NoFactAssumption == NoFact \notin Fact

Snapshot == [rows : [Entity -> Row \cup {Absent}], log : SUBSET Fact]

EmptySnapshot == [rows |-> [e \in Entity |-> Absent], log |-> {}]

Present(s) == {e \in Entity : s.rows[e] # Absent}

-----------------------------------------------------------------------------
\* Facts of one entity.

Lifecycle(e) ==
    CASE TableOf[e] = Notes -> "SoftDelete"
      [] TableOf[e] = Fields -> "PhysicalDelete"
      [] TableOf[e] \in {NoteTags, NoteLinks} -> "Relation"
      [] TableOf[e] \in {Devices, Tags} -> "Preserved"
      [] TableOf[e] = NoteRevisions -> "AppendOnlyProjection"
      [] OTHER -> "Workspace"

FactsOf(log, e) == {c \in log : c.entity = e}

\* `c` comes after `d`: created_at first, the change id decides a tie.
After(c, d) == c.at > d.at \/ (c.at = d.at /\ c.id > d.id)

Latest(log, e) ==
    IF FactsOf(log, e) = {} THEN NoFact
    ELSE CHOOSE c \in FactsOf(log, e) : \A d \in FactsOf(log, e) : ~After(d, c)

Tombstoned(log, e) ==
    /\ FactsOf(log, e) # {}
    /\ Latest(log, e).op = "tombstone"

\* Variant: the comparison the wrong way round.
NewerReversed(a, b, e) ==
    /\ FactsOf(a.log, e) # {}
    /\ \/ FactsOf(b.log, e) = {}
       \/ Latest(a.log, e).at < Latest(b.log, e).at

\* Side `a` holds the newer fact of `e`: strictly later, or the only one.
Newer(a, b, e) ==
    /\ FactsOf(a.log, e) # {}
    /\ \/ FactsOf(b.log, e) = {}
       \/ Latest(a.log, e).at > Latest(b.log, e).at

-----------------------------------------------------------------------------
\* One entity, seen from side `a` towards side `b`.

\* Variant: the field's tombstone is looked up on the wrong side.
FollowsFieldTombstoneOfOther(a, b, e) ==
    /\ TableOf[e] = Notes
    /\ a.rows[e].field = NoField
    /\ b.rows[e].field # NoField
    /\ [b.rows[e] EXCEPT !.field = NoField] = a.rows[e]
    /\ Tombstoned(b.log, b.rows[e].field)

\* The two versions of a note differ in the field alone, `a` has cleared it
\* and `a` knows that the field was deleted.
FollowsFieldTombstone(a, b, e) ==
    /\ TableOf[e] = Notes
    /\ a.rows[e].field = NoField
    /\ b.rows[e].field # NoField
    /\ [b.rows[e] EXCEPT !.field = NoField] = a.rows[e]
    /\ Tombstoned(a.log, b.rows[e].field)

Removable(e) == Lifecycle(e) \in {"PhysicalDelete", "Relation"}

\* Variant: a missing row is always taken for a gap.
FillsAnyGap(a, b, e) == a.rows[e] # Absent /\ b.rows[e] = Absent

\* `b` lacks the row of `a` and nothing says it was removed there.
FillsGap(a, b, e) ==
    /\ a.rows[e] # Absent
    /\ b.rows[e] = Absent
    /\ Lifecycle(e) \in {"SoftDelete", "Workspace"} \/ ~Tombstoned(b.log, e)

\* Both sides have a row, the rows differ and the one of `a` is to be kept.
Prevails(a, b, e) ==
    /\ a.rows[e] # Absent
    /\ b.rows[e] # Absent
    /\ a.rows[e] # b.rows[e]
    /\ \/ FollowsFieldTombstone(a, b, e)
       \/ ~FollowsFieldTombstone(b, a, e) /\ Newer(a, b, e)

\* Variant: any tombstone in the history counts, not the latest fact.
LosesRowToAnyTombstone(a, b, e) ==
    /\ a.rows[e] # Absent
    /\ b.rows[e] = Absent
    /\ Removable(e)
    /\ \E c \in FactsOf(b.log, e) : c.op = "tombstone"

\* `b` lacks the row of `a` and its latest fact is a tombstone.
LosesRow(a, b, e) ==
    /\ a.rows[e] # Absent
    /\ b.rows[e] = Absent
    /\ Removable(e)
    /\ Tombstoned(b.log, e)

\* A tombstone for a row that the contract never deletes.
ForbiddenTombstone(a, b, e) ==
    /\ a.rows[e] # Absent
    /\ b.rows[e] = Absent
    /\ Lifecycle(e) \in {"Preserved", "AppendOnlyProjection"}
    /\ Tombstoned(b.log, e)

\* Variant: facts of the same second are not reported.
UndecidableWithoutFacts(a, b, e) ==
    /\ a.rows[e] # Absent
    /\ b.rows[e] # Absent
    /\ a.rows[e] # b.rows[e]
    /\ ~FollowsFieldTombstone(a, b, e) /\ ~FollowsFieldTombstone(b, a, e)
    /\ FactsOf(a.log, e) = {} /\ FactsOf(b.log, e) = {}

\* Both sides have a row, the rows differ and no fact tells which is newer.
Undecidable(a, b, e) ==
    /\ a.rows[e] # Absent
    /\ b.rows[e] # Absent
    /\ a.rows[e] # b.rows[e]
    /\ ~FollowsFieldTombstone(a, b, e) /\ ~FollowsFieldTombstone(b, a, e)
    /\ ~Newer(a, b, e) /\ ~Newer(b, a, e)

\* local_workspace_is_empty: nothing else in the snapshot belongs to `w`.
EmptyWorkspace(s, w) ==
    /\ \A e \in Present(s) \ {w} : WorkspaceOf[e] # w
    /\ \A c \in s.log : WorkspaceOf[c.entity] # w

\* The workspace a fresh installation creates is not pushed.
StaysLocal(l, r, e) ==
    /\ TableOf[e] = Workspaces
    /\ r.rows[e] = Absent
    /\ EmptyWorkspace(l, e)

-----------------------------------------------------------------------------
\* The outcome of diff_snapshots, one set per action kind.

UpsertLocal(l, r) == {e \in Entity : FillsGap(r, l, e) \/ Prevails(r, l, e)}

UpsertRemote(l, r) ==
    {e \in Entity : /\ FillsGap(l, r, e) \/ Prevails(l, r, e)
                    /\ ~StaysLocal(l, r, e)}

DeleteLocal(l, r) == {e \in Entity : LosesRow(l, r, e)}

\* Variant: only the deletion of fields is carried to the remote side.
DeleteRemoteFields(l, r) ==
    {e \in Entity : LosesRow(r, l, e) /\ Lifecycle(e) = "PhysicalDelete"}

DeleteRemote(l, r) == {e \in Entity : LosesRow(r, l, e)}

\* Variant: the tombstone is looked up on the side that loses the row.
FactsToCopyFromWrongSide(from, to, deleted) ==
    {c \in from.log : \A d \in to.log : d.id # c.id}
        \cup {Latest(to.log, e) : e \in deleted}

\* Facts of `from` whose id `to` does not have, and the tombstones behind the
\* deletions on side `to`, which are sent again even when `to` has them.
FactsToCopy(from, to, deleted) ==
    {c \in from.log : \A d \in to.log : d.id # c.id}
        \cup {Latest(from.log, e) : e \in deleted}

FactsLocal(l, r) == FactsToCopy(r, l, DeleteLocal(l, r))

\* Variant: only the tombstones behind deletions are sent.
TombstonesRemote(l, r) == {Latest(l.log, e) : e \in DeleteRemote(l, r)}

FactsRemote(l, r) == FactsToCopy(l, r, DeleteRemote(l, r))

RowConflicts(l, r) ==
    {e \in Entity : \/ ForbiddenTombstone(l, r, e)
                    \/ ForbiddenTombstone(r, l, e)
                    \/ Undecidable(l, r, e)}

\* One change id, two different facts.
FactConflicts(l, r) ==
    {c.id : c \in {c \in l.log : \E d \in r.log : d.id = c.id /\ d # c}}

HasConflicts(l, r) == RowConflicts(l, r) # {} \/ FactConflicts(l, r) # {}

HasLocalWork(l, r) ==
    UpsertLocal(l, r) # {} \/ DeleteLocal(l, r) # {} \/ FactsLocal(l, r) # {}

\* Variant: missing facts do not count as work.
HasRemoteRowWork(l, r) == UpsertRemote(l, r) # {} \/ DeleteRemote(l, r) # {}

HasRemoteWork(l, r) ==
    UpsertRemote(l, r) # {} \/ DeleteRemote(l, r) # {} \/ FactsRemote(l, r) # {}

\* verify_converged: no action and no conflict is left.
InSync(l, r) ==
    ~HasLocalWork(l, r) /\ ~HasRemoteWork(l, r) /\ ~HasConflicts(l, r)

\* The two sides hold the same data, an unused fresh workspace aside.
SameData(l, r) ==
    /\ \A e \in Entity : l.rows[e] = r.rows[e] \/ StaysLocal(l, r, e)
    /\ l.log = r.log
=============================================================================
