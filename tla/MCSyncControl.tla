--------------------------- MODULE MCSyncControl ---------------------------
(***************************************************************************)
(* Instances of SyncControl.                                               *)
(***************************************************************************)
EXTENDS SyncControl, TLC

CONSTANTS a, b, ka, kb

MCKeyOf == ka :> a @@ kb :> b

\* Enable project a with its key, move to project b with the key that is saved
\* or with its own, and disable.
MCBody ==
    {[enabled |-> TRUE, url |-> a, key |-> ka],
     [enabled |-> TRUE, url |-> b, key |-> Keep],
     [enabled |-> TRUE, url |-> b, key |-> kb],
     [enabled |-> FALSE, url |-> a, key |-> Keep]}

\* A user has put the password of project b into the file, or there is no
\* section [sync] yet.
MCSeedFile ==
    {[rest |-> TRUE, sync |-> NoSection],
     [rest |-> TRUE,
      sync |-> [enabled |-> TRUE, url |-> a, key |-> ka, password |-> b]]}

MCSeedRemote == {(a :> "target" @@ b :> "empty"), (a :> "empty" @@ b :> "old")}
=============================================================================
