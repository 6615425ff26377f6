---------------------------- MODULE MCTwoDevices ----------------------------
(***************************************************************************)
(* Two devices that share a note n, its tag t and their relation x, or a   *)
(* note and its field f; smaller instances leave the tag's own row or the  *)
(* relation out.  No instance has workspace rows.                          *)
(***************************************************************************)
EXTENDS SyncService

CONSTANTS d1, d2, w1, w2, f, t, n, x

TaggedNote == {t, n, x}

NoteAndRelation == {n, x}

NoteAndField == {n, f}

BareNote == {n}

MCTableOf == [e \in Entity |-> CASE e = f -> Fields [] e = t -> Tags
                                 [] e = n -> Notes [] e = x -> NoteTags]

MCWorkspaceOf == [e \in Entity |-> e]

MCParents == [e \in Entity |-> IF e = x THEN {n, t} \cap Entity ELSE {}]

MCDevice == {d1, d2}

MCCycle == {w1, w2}

MCOwner == [c \in MCCycle |-> IF c = w1 THEN d1 ELSE d2]

RunOnly == [c \in MCCycle |-> {"run"}]

\* One device is asked to push, the other one runs.
MixedKinds == [c \in MCCycle |-> IF c = w1 THEN {"push"} ELSE {"run"}]

MCTable == {TableOf[e] : e \in Entity} \cup {SyncChanges}

Created(i, e) == [id |-> i, entity |-> e, op |-> "put", at |-> 0]

Number(e) == CASE e = n -> 1 [] e \in {f, x} -> 2 [] e = t -> 3

\* Everything was created and synchronized in second 0.
InSyncSeed ==
    [rows |-> [e \in Entity |->
                IF e = n
                THEN [PlainRow(0) EXCEPT !.ver = 1,
                                         !.field = IF f \in Entity THEN f ELSE NoField]
                ELSE PlainRow(0)],
     log |-> {Created(Number(e), e) : e \in Entity}]

MCSeedDb == [d \in MCDevice |-> InSyncSeed]

\* The same, but device d1 has rewritten the note and d2 has removed the tag.
Rewritten == Cardinality(Entity) + 1
Detached == Cardinality(Entity) + 2

ApartSeedDb ==
    [d \in MCDevice |->
        IF d = d1
        THEN [rows |-> [InSyncSeed.rows EXCEPT ![n].ver = Rewritten, ![n].at = 1],
              log |-> InSyncSeed.log \cup {[Created(Rewritten, n) EXCEPT !.at = 1]}]
        ELSE [rows |-> [InSyncSeed.rows EXCEPT ![x] = Absent],
              log |-> InSyncSeed.log \cup
                        {[Created(Detached, x) EXCEPT !.op = "tombstone", !.at = 1]}]]
=============================================================================
