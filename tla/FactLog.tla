------------------------------ MODULE FactLog ------------------------------
(***************************************************************************)
(* What the sync_changes table promises, whatever the cycles do: an        *)
(* append-only set of facts on every device and in the shared database.    *)
(* A fact enters the system once, on the device that recorded it, under an *)
(* id nobody has used; afterwards it is only copied, never changed, never  *)
(* dropped, and never known to the shared database alone.                  *)
(***************************************************************************)
CONSTANTS Device, InitialRecorded, InitialShared

VARIABLES
    recorded,  \* the facts each device holds
    shared     \* the facts of the shared database

vars == <<recorded, shared>>

Init ==
    /\ recorded = InitialRecorded
    /\ shared = InitialShared

Known == UNION {recorded[d] : d \in Device}

\* Device `d` commits new facts, each under an id of its own.
Record(d, F) ==
    /\ \A c \in F : \A o \in Known \cup F : o.id = c.id => o = c
    /\ F \cap Known = {}
    /\ recorded' = [recorded EXCEPT ![d] = recorded[d] \cup F]
    /\ shared' = shared

\* Device `d` takes over facts of the shared database.
Pull(d, F) ==
    /\ F \subseteq shared
    /\ recorded' = [recorded EXCEPT ![d] = recorded[d] \cup F]
    /\ shared' = shared

\* Facts of device `d` reach the shared database.
Push(d, F) ==
    /\ F \subseteq recorded[d]
    /\ shared' = shared \cup F
    /\ recorded' = recorded

\* A step that involves device `d`; the facts are those that appear in it.
Step(d) ==
    \/ Record(d, recorded'[d] \ recorded[d])
    \/ Pull(d, recorded'[d] \ recorded[d])
    \/ Push(d, shared' \ shared)

Next == \E d \in Device : Step(d)

Spec == Init /\ [][Next]_vars
=============================================================================
