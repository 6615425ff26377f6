--------------------------- MODULE SyncDiffRounds ---------------------------
(***************************************************************************)
(* The comparison of SyncDiff judged by what it leads to: any two small    *)
(* snapshots are compared, the outcome is carried out undisturbed on both  *)
(* sides, and the results are compared again.  It is the write part of     *)
(* sync_tables in src/src/services/sync.rs without the steps in between,   *)
(* which SyncService takes apart.                                          *)
(*                                                                         *)
(* The snapshots vary in one entity, `focus`, and in what the comparison   *)
(* looks up for it: the field of a note, a dependent of a workspace.       *)
(***************************************************************************)
EXTENDS SyncDiff

CONSTANTS
    Field,     \* the field that a note in focus refers to
    Dependent  \* a row that keeps a workspace in focus from being empty

ASSUME FieldAssumption == Field \in Entity /\ TableOf[Field] = Fields
ASSUME DependentAssumption ==
    Dependent \in Entity /\ TableOf[Dependent] # Workspaces

VARIABLES
    focus,  \* the entity the snapshots differ in
    l,      \* the local database
    r,      \* the remote database
    phase   \* "apart", then what the last round returned

vars == <<focus, l, r, phase>>

Plain == [ver |-> 1, at |-> 1, field |-> NoField, state |-> "visible"]

\* Bound: two versions of a row; for a note, with and without the field.
RowsOf(e) ==
    {Absent, Plain} \cup
    IF TableOf[e] = Notes
    THEN {[Plain EXCEPT !.ver = 2, !.field = Field],
          [Plain EXCEPT !.state = "archived"],
          [Plain EXCEPT !.state = "archived", !.field = Field]}
    ELSE {[Plain EXCEPT !.at = 2]}

\* Bound: four facts about the entity, two in each of two seconds.
FactsAbout(e) ==
    {[id |-> 1, entity |-> e, op |-> "put", at |-> 1],
     [id |-> 2, entity |-> e, op |-> "tombstone", at |-> 1],
     [id |-> 3, entity |-> e, op |-> "tombstone", at |-> 2],
     [id |-> 4, entity |-> e, op |-> "put", at |-> 2]}

FieldDeleted == [id |-> 5, entity |-> Field, op |-> "tombstone", at |-> 1]

Context(e) ==
    CASE TableOf[e] = Notes -> {[rows |-> {Field}, log |-> {}],
                                [rows |-> {}, log |-> {FieldDeleted}]}
      [] TableOf[e] = Workspaces -> {[rows |-> {Dependent}, log |-> {}],
                                     [rows |-> {}, log |-> {}]}
      [] OTHER -> {[rows |-> {}, log |-> {}]}

AllSides(e) ==
    {[rows |-> [o \in Entity |-> IF o = e THEN row
                                 ELSE IF o \in ctx.rows THEN Plain ELSE Absent],
      log |-> facts \cup ctx.log] :
        row \in RowsOf(e), facts \in SUBSET FactsAbout(e), ctx \in Context(e)}

\* What foreign keys allow: a note's field is stored, and so is the workspace
\* of any fact or row.
Valid(s) ==
    /\ \A e \in Present(s) :
          s.rows[e].field # NoField => s.rows[s.rows[e].field] # Absent
    /\ TableOf[focus] = Workspaces =>
          s.rows[focus] # Absent \/ EmptyWorkspace(s, focus)

Sides(e) == {s \in AllSides(e) : Valid(s)}

Init ==
    /\ focus \in Entity
    /\ l \in Sides(focus)
    /\ r \in Sides(focus)
    /\ phase = "apart"

Overwrite(mine, theirs, E) ==
    [e \in Entity |-> IF e \in E THEN theirs.rows[e] ELSE mine.rows[e]]

\* The notes of E find their fields.
FieldsFound(rows, E) ==
    \A e \in E : rows[e].field # NoField => rows[rows[e].field] # Absent

Refers(rows, D) == {e \in Entity : rows[e] # Absent /\ rows[e].field \in D}

\* SQLite accepts the repair of the local side.  A field goes when only hidden
\* notes refer to it, and they are cleared.
LocalAccepts(rows) ==
    /\ FieldsFound(rows, UpsertLocal(l, r))
    /\ \A e \in Refers(rows, DeleteLocal(l, r)) : rows[e].state # "visible"

\* Postgres accepts the repair of the remote side.
RemoteAccepts(rows) ==
    /\ FieldsFound(rows, UpsertRemote(l, r))
    /\ Refers(rows, DeleteRemote(l, r)) = {}

Without(rows, D) ==
    [e \in Entity |-> IF e \in D THEN Absent
                      ELSE IF e \in Refers(rows, D)
                           THEN [rows[e] EXCEPT !.field = NoField]
                           ELSE rows[e]]

\* The tables after the upserts of a plan.
LocalRows == Overwrite(l, r, UpsertLocal(l, r))
RemoteRows == Overwrite(r, l, UpsertRemote(l, r))

\* What one cycle does to the two sides when nothing interrupts it.
Round ==
    /\ UNCHANGED focus
    /\ IF HasConflicts(l, r) THEN phase' = "conflict" /\ UNCHANGED <<l, r>>
       ELSE IF ~LocalAccepts(LocalRows) \/ ~RemoteAccepts(RemoteRows)
       THEN phase' = "refused" /\ UNCHANGED <<l, r>>
       ELSE /\ phase' = "done"
            /\ l' = [rows |-> Without(LocalRows, DeleteLocal(l, r)),
                     log |-> l.log \cup FactsLocal(l, r)]
            /\ r' = [rows |-> Without(RemoteRows, DeleteRemote(l, r)),
                     log |-> r.log \cup FactsRemote(l, r)]

Spec == Init /\ [][Round]_vars

TypeOK ==
    /\ focus \in Entity
    /\ l \in Snapshot
    /\ r \in Snapshot
    /\ phase \in {"apart", "done", "conflict", "refused"}

-----------------------------------------------------------------------------
\* A round that finds no conflict leaves nothing to do: the plan is complete,
\* and what it writes does not call for another plan or raise a conflict.
OneRoundSettles == phase = "done" => InSync(l, r)

\* The comparison finds nothing exactly when the two sides hold the same data;
\* this is what entitles verify_converged to call an empty diff convergence.
EmptyDiffMeansAgreement == InSync(l, r) <=> SameData(l, r)

\* No row is to be written and deleted, or repaired on both sides, and a row
\* in conflict is to be left alone.
PlanIsConsistent ==
    LET UL == UpsertLocal(l, r)
        UR == UpsertRemote(l, r)
        DL == DeleteLocal(l, r)
        DR == DeleteRemote(l, r)
        RC == RowConflicts(l, r)
    IN  /\ (UL \cup DL) \cap (UR \cup DR) = {}
        /\ UL \cap DL = {}
        /\ UR \cap DR = {}
        /\ RC \cap (UL \cup UR \cup DL \cup DR) = {}

\* The states and the matrix of r037-sync-entity-lifecycle.md, for the rows
\* that sync may delete.
State(s, e) ==
    IF s.rows[e] # Absent
    THEN IF Tombstoned(s.log, e) THEN "Inconsistent" ELSE "Present"
    ELSE IF Tombstoned(s.log, e) THEN "Tombstoned" ELSE "AbsentUnknown"

\* For rows whose state is not contradictory the code follows the matrix.
FollowsMatrix ==
    LET a == State(l, focus)
        b == State(r, focus)
    IN  Removable(focus) /\ "Inconsistent" \notin {a, b} =>
        /\ focus \in UpsertRemote(l, r) <=>
              \/ a = "Present" /\ b = "AbsentUnknown"
              \/ /\ a = "Present" /\ b = "Present"
                 /\ l.rows[focus] # r.rows[focus]
                 /\ Newer(l, r, focus)
        /\ focus \in UpsertLocal(l, r) <=>
              \/ b = "Present" /\ a = "AbsentUnknown"
              \/ /\ a = "Present" /\ b = "Present"
                 /\ l.rows[focus] # r.rows[focus]
                 /\ Newer(r, l, focus)
        /\ focus \in DeleteRemote(l, r) <=> a = "Tombstoned" /\ b = "Present"
        /\ focus \in DeleteLocal(l, r) <=> a = "Present" /\ b = "Tombstoned"
=============================================================================
