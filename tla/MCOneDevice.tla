---------------------------- MODULE MCOneDevice ----------------------------
(***************************************************************************)
(* One device and its remote database: a workspace w, a field f, a tag t,  *)
(* a note n and the relation x of n and t.  The device starts with the     *)
(* workspace that initialization creates and an empty remote database.     *)
(***************************************************************************)
EXTENDS SyncService

CONSTANTS d1, worker, w, f, t, n, x

MCEntity == {w, f, t, n, x}

MCTableOf ==
    [e \in MCEntity |-> CASE e = w -> Workspaces
                          [] e = f -> Fields
                          [] e = t -> Tags
                          [] e = n -> Notes
                          [] e = x -> NoteTags]

MCWorkspaceOf == [e \in MCEntity |-> w]

MCParents == [e \in MCEntity |-> IF e = x THEN {n, t} ELSE {}]

MCDevice == {d1}

MCCycle == {worker}

MCOwner == [c \in MCCycle |-> d1]

RunOnly == [c \in MCCycle |-> {"run"}]

AnyKind == [c \in MCCycle |-> Kind]

MCTable == {Workspaces, Fields, Tags, Notes, NoteTags, SyncChanges}

FreshInstall == [EmptySnapshot EXCEPT !.rows[w] = PlainRow(0)]

MCSeedDb == [d \in MCDevice |-> FreshInstall]
=============================================================================
