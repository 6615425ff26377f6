---------------------------- MODULE SyncService ----------------------------
(***************************************************************************)
(* Devices that share one remote database: the edits each device makes to  *)
(* its SQLite database and the synchronization cycles that compare it with *)
(* Supabase and repair both sides (src/src/services/sync.rs, the           *)
(* repositories and the Supabase client it calls).                         *)
(*                                                                         *)
(* An edit is one SQLite transaction.  A cycle is not: it reads the local  *)
(* tables one query at a time, then the remote tables one request at a     *)
(* time, decides, and writes each side in steps of its own, so edits and   *)
(* other cycles fall between any two of its steps.  A cycle is started by  *)
(* the background worker or by an HTTP request, and no lock keeps two      *)
(* cycles of one device apart.                                             *)
(*                                                                         *)
(* An operator marked Variant is a wrong version of the one that follows   *)
(* it; the specification does not use it.                                  *)
(***************************************************************************)
EXTENDS SyncDiff, FiniteSets

CONSTANTS
    Device,           \* backends, each with its own SQLite database
    Cycle,            \* tasks that can run a cycle
    Owner,            \* the device a task belongs to
    Kinds,            \* the entry points a task uses
    Table,            \* the tables that some entity lives in, and sync_changes
    Parents,          \* the rows a relation row refers to
    SeedDb,           \* what each device holds initially
    SeedRemote,       \* what the remote database holds initially
    MaxFacts,         \* bound: facts ever recorded, the seeds' included
    MaxAborts,        \* bound: cycles cut short
    EditDuringCycle,  \* edits may fall into a running cycle
    OverlapCycles,    \* a cycle may start while another one runs
    SameSecond        \* two edits may fall into the same second

Kind == {"run", "push", "pull"}

ASSUME OwnerAssumption == Owner \in [Cycle -> Device]
ASSUME KindsAssumption == Kinds \in [Cycle -> (SUBSET Kind) \ {{}}]
ASSUME TableAssumption ==
    /\ Table \subseteq Workspaces .. SyncChanges
    /\ SyncChanges \in Table
    /\ \A e \in Entity : TableOf[e] \in Table

\* The foreign keys of relation rows; note_tags has one for the note and one
\* for the tag.
ASSUME ParentsAssumption ==
    /\ Parents \in [Entity -> SUBSET Entity]
    /\ \A e \in Entity : \A p \in Parents[e] :
          TableOf[e] \in {NoteTags, NoteLinks} /\ TableOf[p] \in {Notes, Tags}
    /\ \A e \in Entity : TableOf[e] = NoteTags =>
          \A m, n \in Parents[e] : TableOf[m] = Notes /\ TableOf[n] = Notes => m = n

SeedFacts == UNION {SeedDb[d].log : d \in Device}

ASSUME SeedAssumption ==
    /\ SeedDb \in [Device -> Snapshot]
    /\ SeedRemote \in Snapshot
    /\ SeedRemote.log \subseteq SeedFacts
    /\ \A c, d \in SeedFacts : c.id = d.id => c = d
    /\ \A c \in SeedFacts : c.id <= MaxFacts /\ c.at <= MaxFacts

\* Every row of E finds the rows it refers to.
ReferencesHold(rows, E) ==
    \A e \in E : rows[e] # Absent =>
        /\ \A p \in Parents[e] : rows[p] # Absent
        /\ rows[e].field # NoField => rows[rows[e].field] # Absent

RowsIn(t) == {e \in Entity : TableOf[e] = t}

\* Only a note has a field, and its version is that of a fact about it in `log`.
PossibleRow(log, e, r) ==
    r # Absent => /\ r.field # NoField => TableOf[e] = Notes /\ r.field \in RowsIn(Fields)
                  /\ TableOf[e] = Notes => \E c \in FactsOf(log, e) : c.id = r.ver

\* Rows of one version of a note: visible in all places or in none, and with
\* the same field while it is visible.
SameVersion(e, q, r) ==
    TableOf[e] = Notes /\ Absent \notin {q, r} /\ q.ver = r.ver =>
        (q.state = "visible" => r.state = "visible" /\ r.field = q.field)

\* The initial databases are those of a system that has been running.
ASSUME SeedRowsAssumption ==
    LET Seeds == {SeedRemote} \cup {SeedDb[d] : d \in Device}
    IN  \A s \in Seeds :
          /\ ReferencesHold(s.rows, Entity)
          /\ \A e \in Entity :
                /\ PossibleRow(SeedFacts, e, s.rows[e])
                /\ \A t \in Seeds : SameVersion(e, s.rows[e], t.rows[e])

\* Database `s` has note `n` as fact `c` made it.
MadeBy(s, n, c) == c \in s.log /\ s.rows[n] # Absent /\ s.rows[n].ver = c.id

\* Where no edit falls into a cycle or the second of another one, the device
\* that has written a note last has it so.
ASSUME SeedNotesAssumption ==
    ~EditDuringCycle /\ ~SameSecond =>
        \A n \in RowsIn(Notes) : FactsOf(SeedFacts, n) # {} =>
            \E d \in Device : MadeBy(SeedDb[d], n, Latest(SeedFacts, n))

ASSUME BoundsAssumption == MaxFacts \in Nat /\ MaxAborts \in Nat
ASSUME EnvironmentAssumption ==
    {EditDuringCycle, OverlapCycles, SameSecond} \subseteq BOOLEAN

VARIABLES
    db,      \* the SQLite database of each device
    remote,  \* the Supabase database
    now,     \* the second of the latest edit
    pc,      \* the step each task is at
    kind,    \* the entry point of each task's cycle
    cursor,  \* the table a task reads or writes next
    local,   \* the local snapshot a task holds
    cloud,   \* the remote snapshot a task holds
    todo,    \* the remote rows a task has yet to delete
    result,  \* what each task's last cycle returned
    aborts   \* cycles cut short so far

dbVars == <<db, now>>
cycleVars == <<pc, kind, cursor, local, cloud, todo, result, aborts>>
vars == <<db, remote, now, pc, kind, cursor, local, cloud, todo, result, aborts>>

Phase == {"idle", "readLocal", "readRemote", "decide", "writeLocal",
          "writeRemote", "deleteLocal", "deleteRemote", "verifyLocal",
          "verifyRemote", "judge"}

Outcome == {"none", "ok", "conflict", "notConverged", "failed"}

TypeOK ==
    /\ db \in [Device -> Snapshot]
    /\ remote \in Snapshot
    /\ now \in Nat
    /\ pc \in [Cycle -> Phase]
    /\ kind \in [Cycle -> Kind]
    /\ cursor \in [Cycle -> Table]
    /\ local \in [Cycle -> Snapshot]
    /\ cloud \in [Cycle -> Snapshot]
    /\ todo \in [Cycle -> SUBSET Entity]
    /\ result \in [Cycle -> Outcome]
    /\ aborts \in 0 .. MaxAborts

FirstTable == CHOOSE t \in Table : \A u \in Table : t <= u

TableAfter(t) == CHOOSE u \in Table : u > t /\ \A v \in Table : v > t => u <= v

\* The second of the seeds' latest fact.
SeedSecond ==
    IF SeedFacts = {} THEN 0
    ELSE CHOOSE t \in 0 .. MaxFacts : /\ \E c \in SeedFacts : c.at = t
                                      /\ \A c \in SeedFacts : c.at <= t

Init ==
    /\ db = SeedDb
    /\ remote = SeedRemote
    /\ now = SeedSecond
    /\ pc = [c \in Cycle |-> "idle"]
    /\ kind = [c \in Cycle |-> "run"]
    /\ cursor = [c \in Cycle |-> FirstTable]
    /\ local = [c \in Cycle |-> EmptySnapshot]
    /\ cloud = [c \in Cycle |-> EmptySnapshot]
    /\ todo = [c \in Cycle |-> {}]
    /\ result = [c \in Cycle |-> "none"]
    /\ aborts = 0

-----------------------------------------------------------------------------
\* Edits: each is one SQLite transaction on one device.

Recorded == UNION {db[d].log : d \in Device}

\* Variant: an id counts as free until the remote database has it.
IdsFreeRemotely == {i \in 1 .. MaxFacts : \A c \in remote.log : c.id # i}

FreeIds == {i \in 1 .. MaxFacts : \A c \in Recorded : c.id # i}

\* A key nobody has used: the program draws a new uuid for the row.
Fresh(e) ==
    /\ \A c \in Recorded : c.entity # e
    /\ \A d \in Device : db[d].rows[e] = Absent

\* Change ids are uuids, so facts of one second are ordered at random.  When
\* seconds are distinct the order of the ids is that of the seconds.
Stamps(S) ==
    {ids \in [S -> FreeIds] :
        /\ \A e, f \in S : e # f => ids[e] # ids[f]
        /\ ~SameSecond => \A e \in S : \A i \in FreeIds :
                              i < ids[e] => \E f \in S : ids[f] = i}

Seconds == IF SameSecond THEN {now, now + 1} ELSE {now + 1}

Quiet == EditDuringCycle \/ \A c \in Cycle : pc[c] = "idle"

\* One fact per entity in DOMAIN ids.
NewFacts(t, ids, tombstones) ==
    {[id |-> ids[e], entity |-> e, at |-> t,
      op |-> IF e \in tombstones THEN "tombstone" ELSE "put"] : e \in DOMAIN ids}

\* Variant: a deletion also purges the history of what it deletes.
CommitAndPurge(d, t, ids, rows, tombstones) ==
    /\ db' = [db EXCEPT ![d] =
                [rows |-> rows,
                 log |-> {c \in db[d].log : c.entity \notin tombstones}
                            \cup NewFacts(t, ids, tombstones)]]
    /\ now' = t
    /\ UNCHANGED <<remote, cycleVars>>

\* The transaction writes the rows together with their facts.
Commit(d, t, ids, rows, tombstones) ==
    /\ db' = [db EXCEPT ![d] =
                [rows |-> rows,
                 log |-> db[d].log \cup NewFacts(t, ids, tombstones)]]
    /\ now' = t
    /\ UNCHANGED <<remote, cycleVars>>

Visible(s, n) == s.rows[n] # Absent /\ s.rows[n].state = "visible"

NotesWith(s, f) ==
    {n \in Present(s) : TableOf[n] = Notes /\ s.rows[n].field = f}

\* Variant: the visibility test is inverted.
InUseHidden(s, f) == \E n \in NotesWith(s, f) : ~Visible(s, n)

InUse(s, f) == \E n \in NotesWith(s, f) : Visible(s, n)

TagsOf(n) == {x \in Entity : TableOf[x] = NoteTags /\ n \in Parents[x]}

\* Missing tags of the relations X, created by get_or_create_tag.
NewTags(s, X) ==
    {t \in UNION {Parents[x] : x \in X} : TableOf[t] = Tags /\ s.rows[t] = Absent}

PlainRow(t) == [ver |-> 0, at |-> t, field |-> NoField, state |-> "visible"]

\* create_note and update_note: content, the field when one is named, and the
\* tags, which become exactly X.  The revision the write appends is part of
\* `ver`, its fact part of the note's.
WriteNote(d, n, f, X) ==
    LET s == db[d]
        old == {x \in TagsOf(n) : s.rows[x] # Absent}
        created == {e \in {f} \ {NoField} : s.rows[e] = Absent} \cup NewTags(s, X)
        field == IF f = NoField /\ s.rows[n] # Absent THEN s.rows[n].field ELSE f
    IN  /\ Quiet
        /\ Visible(s, n) \/ Fresh(n)
        /\ \A e \in created : Fresh(e)
        /\ \E t \in Seconds,
              ids \in Stamps({n} \cup created \cup (X \ old) \cup (old \ X)) :
             Commit(d, t, ids,
                 [e \in Entity |->
                    CASE e = n -> [ver |-> ids[n], at |-> t, field |-> field,
                                   state |-> "visible"]
                      [] e \in created \cup (X \ old) -> PlainRow(t)
                      [] e \in old \ X -> Absent
                      [] OTHER -> s.rows[e]],
                 old \ X)

\* archive_note and delete_note.  A deletion's fact is a tombstone although
\* the row stays.
HideNote(d, n, state) ==
    /\ Quiet
    /\ Visible(db[d], n)
    /\ \E t \in Seconds, ids \in Stamps({n}) :
         Commit(d, t, ids,
             [db[d].rows EXCEPT ![n].ver = ids[n], ![n].at = t, ![n].state = state],
             IF state = "deleted" THEN {n} ELSE {})

\* Variant: the fields go, the notes keep referring to them.
WithoutFieldRows(rows, fs) ==
    [e \in Entity |-> IF e \in fs THEN Absent ELSE rows[e]]

\* The notes of `fs` lose their field, then the fields go.
WithoutFields(rows, fs) ==
    [e \in Entity |->
        IF e \in fs THEN Absent
        ELSE IF rows[e] # Absent /\ rows[e].field \in fs
             THEN [rows[e] EXCEPT !.field = NoField]
             ELSE rows[e]]

\* delete_unused_field: no note fact tells that hidden notes lost the field.
DeleteField(d, f) ==
    /\ Quiet
    /\ db[d].rows[f] # Absent
    /\ ~InUse(db[d], f)
    /\ \E t \in Seconds, ids \in Stamps({f}) :
         Commit(d, t, ids, WithoutFields(db[d].rows, {f}), {f})

\* add_tag_to_note; attaching what is attached changes nothing.
AddTag(d, n, x) ==
    LET created == {x} \cup NewTags(db[d], {x})
    IN  /\ Quiet
        /\ Visible(db[d], n)
        /\ db[d].rows[x] = Absent
        /\ \A e \in created \ {x} : Fresh(e)
        /\ \E t \in Seconds, ids \in Stamps(created) :
             Commit(d, t, ids,
                 [e \in Entity |-> IF e \in created THEN PlainRow(t)
                                   ELSE db[d].rows[e]],
                 {})

\* remove_tag_from_note
RemoveTag(d, n, x) ==
    /\ Quiet
    /\ Visible(db[d], n)
    /\ db[d].rows[x] # Absent
    /\ \E t \in Seconds, ids \in Stamps({x}) :
         Commit(d, t, ids, [db[d].rows EXCEPT ![x] = Absent], {x})

-----------------------------------------------------------------------------
\* Synchronization cycles.

Put(f, c, v) == [f EXCEPT ![c] = v]

\* Variant: each side's deletions come before its upserts and facts.
DeletionsFirst ==
    [run  |-> [decide |-> "deleteLocal", deleteLocal |-> "deleteRemote",
               deleteRemote |-> "writeLocal", writeLocal |-> "writeRemote",
               writeRemote |-> "verifyLocal"],
     push |-> [decide |-> "deleteRemote", deleteRemote |-> "writeRemote",
               writeRemote |-> "verifyLocal"],
     pull |-> [decide |-> "deleteLocal", deleteLocal |-> "writeLocal",
               writeLocal |-> "verifyLocal"]]

\* Variant: a run forgets the local deletions.
NoLocalDeletions ==
    [run  |-> [decide |-> "writeLocal", writeLocal |-> "writeRemote",
               writeRemote |-> "deleteRemote", deleteRemote |-> "verifyLocal"],
     push |-> [decide |-> "writeRemote", writeRemote |-> "deleteRemote",
               deleteRemote |-> "verifyLocal"],
     pull |-> [decide |-> "writeLocal", writeLocal |-> "deleteLocal",
               deleteLocal |-> "verifyLocal"]]

\* The write steps of each entry point, in the order the code takes them.
NextPhase ==
    [run  |-> [decide |-> "writeLocal", writeLocal |-> "writeRemote",
               writeRemote |-> "deleteLocal", deleteLocal |-> "deleteRemote",
               deleteRemote |-> "verifyLocal"],
     push |-> [decide |-> "writeRemote", writeRemote |-> "deleteRemote",
               deleteRemote |-> "verifyLocal"],
     pull |-> [decide |-> "writeLocal", writeLocal |-> "deleteLocal",
               deleteLocal |-> "verifyLocal"]]

Advance(c) ==
    /\ pc' = Put(pc, c, NextPhase[kind[c]][pc[c]])
    /\ cursor' = Put(cursor, c, FirstTable)
    /\ UNCHANGED <<kind, local, cloud, result, aborts>>

\* The task returns: what it held in memory is gone.
Finish(c, outcome) ==
    /\ pc' = Put(pc, c, "idle")
    /\ cursor' = Put(cursor, c, FirstTable)
    /\ local' = Put(local, c, EmptySnapshot)
    /\ cloud' = Put(cloud, c, EmptySnapshot)
    /\ todo' = Put(todo, c, {})
    /\ result' = Put(result, c, outcome)
    /\ UNCHANGED kind

Fail(c) == Finish(c, "failed") /\ UNCHANGED <<db, remote, now, aborts>>

Start(c, k) ==
    /\ pc[c] = "idle"
    /\ OverlapCycles \/ \A o \in Cycle : pc[o] = "idle"
    /\ pc' = Put(pc, c, "readLocal")
    /\ kind' = Put(kind, c, k)
    /\ result' = Put(result, c, "none")
    /\ UNCHANGED <<dbVars, remote, cursor, local, cloud, todo, aborts>>

\* Snapshot `held` after table `t` has been read from database `s`.
WithTable(held, s, t) ==
    [rows |-> [e \in Entity |-> IF TableOf[e] = t THEN s.rows[e] ELSE held.rows[e]],
     log |-> IF t = SyncChanges THEN s.log ELSE held.log]

\* Moves on to the next table, or to `phase` after the last one.
ReadOn(c, phase) ==
    IF cursor[c] = SyncChanges
    THEN pc' = Put(pc, c, phase) /\ cursor' = Put(cursor, c, FirstTable)
    ELSE pc' = pc /\ cursor' = Put(cursor, c, TableAfter(cursor[c]))

\* read_local_table_snapshot, one query; also the read before verification.
ReadLocal(c) ==
    /\ pc[c] \in {"readLocal", "verifyLocal"}
    /\ local' = Put(local, c, WithTable(local[c], db[Owner[c]], cursor[c]))
    /\ ReadOn(c, IF pc[c] = "readLocal" THEN "readRemote" ELSE "verifyRemote")
    /\ UNCHANGED <<dbVars, remote, kind, cloud, todo, result, aborts>>

\* fetch_table_snapshot, one table.
ReadRemote(c) ==
    /\ pc[c] \in {"readRemote", "verifyRemote"}
    /\ cloud' = Put(cloud, c, WithTable(cloud[c], remote, cursor[c]))
    /\ ReadOn(c, IF pc[c] = "readRemote" THEN "decide" ELSE "judge")
    /\ UNCHANGED <<dbVars, remote, kind, local, todo, result, aborts>>

\* diff_snapshots and ensure_no_conflicts.
Decide(c) ==
    /\ pc[c] = "decide"
    /\ IF HasConflicts(local[c], cloud[c])
       THEN Finish(c, "conflict") /\ UNCHANGED <<dbVars, remote, aborts>>
       ELSE /\ Advance(c)
            /\ todo' = Put(todo, c, DeleteRemote(local[c], cloud[c]))
            /\ UNCHANGED <<dbVars, remote>>

\* `rows` with the entities E taken from snapshot `s`.
Overwrite(rows, E, s) == [e \in Entity |-> IF e \in E THEN s.rows[e] ELSE rows[e]]

\* write_local_table_snapshot: rows and facts in one transaction.
WriteLocal(c) ==
    LET d == Owner[c]
        E == UpsertLocal(local[c], cloud[c])
        rows == Overwrite(db[d].rows, E, cloud[c])
    IN  /\ pc[c] = "writeLocal"
        /\ IF ReferencesHold(rows, E)
           THEN /\ db' = [db EXCEPT ![d] =
                            [rows |-> rows,
                             log |-> db[d].log \cup FactsLocal(local[c], cloud[c])]]
                /\ Advance(c)
                /\ UNCHANGED <<remote, now, todo>>
           ELSE Fail(c)

\* upsert_table_snapshot: one request per table, sync_changes last.
WriteRemote(c) ==
    LET table == cursor[c]
        E == {e \in UpsertRemote(local[c], cloud[c]) : TableOf[e] = table}
        rows == Overwrite(remote.rows, E, local[c])
    IN  /\ pc[c] = "writeRemote"
        /\ IF ReferencesHold(rows, E)
           THEN /\ remote' = [rows |-> rows,
                              log |-> IF table = SyncChanges
                                      THEN remote.log \cup FactsRemote(local[c], cloud[c])
                                      ELSE remote.log]
                /\ IF table = SyncChanges THEN Advance(c)
                   ELSE /\ cursor' = Put(cursor, c, TableAfter(table))
                        /\ UNCHANGED <<pc, kind, local, cloud, result, aborts>>
                /\ UNCHANGED <<dbVars, todo>>
           ELSE Fail(c)

\* delete_local_actions: one transaction, refused while a visible note uses a
\* field that is to go.
DeleteLocalRows(c) ==
    LET d == Owner[c]
        E == DeleteLocal(local[c], cloud[c])
        fs == {f \in E : TableOf[f] = Fields}
        left == WithoutFields(db[d].rows, fs)
    IN  /\ pc[c] = "deleteLocal"
        /\ IF \A f \in fs : ~InUse(db[d], f)
           THEN /\ db' = [db EXCEPT ![d].rows =
                            [e \in Entity |-> IF e \in E THEN Absent ELSE left[e]]]
                /\ Advance(c)
                /\ UNCHANGED <<remote, now, todo>>
           ELSE Fail(c)

\* One request of delete_remote_actions.  Postgres refuses to delete a field
\* that a note still refers to.
DeleteRemoteRow(c, e) ==
    /\ pc[c] = "deleteRemote"
    /\ e \in todo[c]
    /\ \A o \in todo[c] : TableOf[e] <= TableOf[o]
    /\ IF NotesWith(remote, e) = {}
       THEN /\ remote' = [remote EXCEPT !.rows[e] = Absent]
            /\ todo' = Put(todo, c, todo[c] \ {e})
            /\ UNCHANGED <<dbVars, pc, kind, cursor, local, cloud, result, aborts>>
       ELSE Fail(c)

DeletedRemote(c) ==
    /\ pc[c] = "deleteRemote"
    /\ todo[c] = {}
    /\ Advance(c)
    /\ UNCHANGED <<dbVars, remote, todo>>

\* verify_converged and verify_direction_converged.
Converged(k, l, r) ==
    /\ ~HasConflicts(l, r)
    /\ k \in {"run", "push"} => ~HasRemoteWork(l, r)
    /\ k \in {"run", "pull"} => ~HasLocalWork(l, r)

Judge(c) ==
    /\ pc[c] = "judge"
    /\ Finish(c, IF Converged(kind[c], local[c], cloud[c]) THEN "ok"
                 ELSE "notConverged")
    /\ UNCHANGED <<dbVars, remote, aborts>>

\* The process dies, a request fails or its answer is lost, or the client
\* that asked for the cycle goes away.
Abort(c) ==
    /\ pc[c] # "idle"
    /\ aborts < MaxAborts
    /\ aborts' = aborts + 1
    /\ Finish(c, "failed")
    /\ UNCHANGED <<dbVars, remote>>

CycleStep(c) ==
    \/ ReadLocal(c)
    \/ ReadRemote(c)
    \/ Decide(c)
    \/ WriteLocal(c)
    \/ WriteRemote(c)
    \/ DeleteLocalRows(c)
    \/ \E e \in Entity : DeleteRemoteRow(c, e)
    \/ DeletedRemote(c)
    \/ Judge(c)

Edit(d) ==
    \/ \E n \in RowsIn(Notes), f \in RowsIn(Fields) \cup {NoField} :
          \E X \in SUBSET TagsOf(n) : WriteNote(d, n, f, X)
    \/ \E n \in RowsIn(Notes), state \in {"archived", "deleted"} :
          HideNote(d, n, state)
    \/ \E f \in RowsIn(Fields) : DeleteField(d, f)
    \/ \E n \in RowsIn(Notes) : \E x \in TagsOf(n) :
          AddTag(d, n, x) \/ RemoveTag(d, n, x)

Next ==
    \/ \E d \in Device : Edit(d)
    \/ \E c \in Cycle : \E k \in Kinds[c] : Start(c, k)
    \/ \E c \in Cycle : CycleStep(c) \/ Abort(c)

Spec == Init /\ [][Next]_vars

\* Tasks that call run_once: the background workers, and the clients of a
\* device whose cycles its worker's do not overlap.
Worker == {c \in Cycle : "run" \in Kinds[c]}

\* A worker starts a cycle again after every sleep, and a started cycle goes
\* on.  Strong fairness of the start only matters when cycles are kept apart.
FairSpec ==
    /\ Spec
    /\ \A c \in Cycle : WF_vars(CycleStep(c))
    /\ \A c \in Worker : SF_vars(Start(c, "run"))

-----------------------------------------------------------------------------
\* Properties.

HeldFacts == UNION {local[c].log \cup cloud[c].log : c \in Cycle}

\* A change id names one fact wherever it is found, also in the snapshots that
\* tasks hold, so the conflict of compare_sync_changes is never raised by what
\* this program does.
FactIdentity ==
    \A f, g \in Recorded \cup remote.log \cup HeldFacts : f.id = g.id => f = g

\* Facts travel by copying only: what the remote database or a task holds came
\* from a log that still has it.
KnownFactsAreStored ==
    /\ remote.log \subseteq Recorded
    /\ \A c \in Cycle : /\ local[c].log \subseteq db[Owner[c]].log
                        /\ cloud[c].log \subseteq remote.log

\* sync_changes is an append-only log that devices exchange (see FactLog).
Log == INSTANCE FactLog WITH
          InitialRecorded <- [d \in Device |-> SeedDb[d].log],
          InitialShared <- SeedRemote.log,
          recorded <- [d \in Device |-> db[d].log],
          shared <- remote.log

ImplementsFactLog == Log!Spec

\* Sync and edits remove a row only where a tombstone of the row is stored, so
\* that a removal can always be told from a row that has not arrived yet; and
\* only rows of the tables that the lifecycle contract lets go.
Removed(s, t) == Present(s) \ Present(t)

RemovalIsRecorded(s, t) ==
    \A e \in Removed(s, t) :
        /\ Removable(e)
        /\ \E f \in t.log : f.entity = e /\ f.op = "tombstone"

DeletionHasTombstone ==
    [][/\ \A d \in Device : RemovalIsRecorded(db[d], db'[d])
       /\ RemovalIsRecorded(remote, remote')]_vars

\* When an entry point answers ok, the facts that it saw on the side it reads
\* from are on the side it writes to, whatever happened in between.
AcknowledgedFacts ==
    [][\A c \in Cycle : pc[c] = "judge" /\ result'[c] = "ok" =>
        /\ kind[c] \in {"run", "push"} => local[c].log \subseteq remote.log
        /\ kind[c] \in {"run", "pull"} => cloud[c].log \subseteq db[Owner[c]].log]_vars

\* While edits and cycles keep out of each other's way, a run that answers ok
\* leaves the device and the remote database with the same rows and facts.
VerifiedAgreement ==
    [][\A c \in Cycle :
        pc[c] = "judge" /\ result'[c] = "ok" /\ kind[c] = "run" =>
            SameData(db[Owner[c]], remote)]_vars

Settled ==
    /\ \A c \in Cycle : pc[c] = "idle"
    /\ \A d \in Device : SameData(db[d], remote)

\* Once everybody agrees, a note is what the last write of any device made it.
LatestWriteWins ==
    Settled => \A n \in RowsIn(Notes) : remote.rows[n] # Absent =>
                  remote.rows[n].ver = Latest(Recorded, n).id

\* The latest write of a note, of all devices, is never lost: as long as it is
\* the latest, some device has the note just as that write made it, however
\* many cycles are under way or have been cut short.
LastWriteIsKept ==
    \A n \in RowsIn(Notes) : FactsOf(Recorded, n) # {} =>
        \E d \in Device : MadeBy(db[d], n, Latest(Recorded, n))

\* Sync never puts an older version of a note in the place of a newer one.
NotesNeverGoBack ==
    [][\A n \in RowsIn(Notes) :
        /\ \A d \in Device : db[d].rows[n] # Absent =>
              db'[d].rows[n].ver >= db[d].rows[n].ver
        /\ remote.rows[n] # Absent => remote'.rows[n].ver >= remote.rows[n].ver]_vars

\* Neither edits nor sync ever leave a row that refers to a missing one: the
\* checks before a field is deleted miss no reference.
NoDanglingReference ==
    /\ \A d \in Device : ReferencesHold(db[d].rows, Entity)
    /\ ReferencesHold(remote.rows, Entity)

\* A visible note never loses its field behind its author's back: as long as
\* nobody rewrites the note, deleting fields on any device leaves it alone.
KeepsField(s, t) ==
    \A n \in RowsIn(Notes) :
        Visible(s, n) /\ t.rows[n] # Absent /\ t.rows[n].ver = s.rows[n].ver =>
            t.rows[n].field = s.rows[n].field

VisibleNotesKeepField ==
    [][(\A d \in Device : KeepsField(db[d], db'[d])) /\ KeepsField(remote, remote')]_vars

\* Once edits and interruptions stop, the workers bring every device and the
\* remote database together, for good.
Settles == <>[](\A d \in Device : SameData(db[d], remote))

-----------------------------------------------------------------------------
\* What documents and comments of the repository say and the code does not do.

\* r037: a detach tombstone wins over the old relation row; a relation attached
\* again afterwards is not the old one.
RelationFollowsLatestFact ==
    Settled => \A x \in RowsIn(NoteTags) :
        FactsOf(Recorded, x) # {} =>
            (remote.rows[x] # Absent <=> Latest(Recorded, x).op = "put")
=============================================================================
