-------------------------- MODULE MCSyncDiffRounds --------------------------
(***************************************************************************)
(* One entity of every table, all in the workspace w.                      *)
(***************************************************************************)
EXTENDS SyncDiffRounds

CONSTANTS w, d, f, t, n, v, x, k

MCEntity == {w, d, f, t, n, v, x, k}

MCTableOf ==
    [e \in MCEntity |-> CASE e = w -> Workspaces
                          [] e = d -> Devices
                          [] e = f -> Fields
                          [] e = t -> Tags
                          [] e = n -> Notes
                          [] e = v -> NoteRevisions
                          [] e = x -> NoteTags
                          [] e = k -> NoteLinks]

MCWorkspaceOf == [e \in MCEntity |-> w]
=============================================================================
