----------------------------- MODULE MCStartup -----------------------------
(***************************************************************************)
(* Instances of Startup.                                                   *)
(***************************************************************************)
EXTENDS Startup, TLC

CONSTANTS p1, p2, a, b

\* A database of version k as another program has left it: with or without the
\* table schema_migrations, with or without notes.
Legacy(k, withMeta, withNotes) ==
    [made |-> TRUE, has |-> UNION {Adds(i) : i \in 1 .. k}, meta |-> withMeta,
     versions |-> IF withMeta THEN 1 .. k ELSE {},
     spaces |-> IF k >= 3 THEN {FixedWorkspace} ELSE {},
     notes |-> IF ~withNotes THEN NoNotes ELSE IF k >= 3 THEN Fixed ELSE NoSpace]

\* No database at home, or one of version 2 with notes.
MCHomeSeed == {NoDatabase, Legacy(2, FALSE, TRUE)}

MCTyped == p1 :> a @@ p2 :> b

\* Either process may set the installation up; beside that one may be the server,
\* and the other one write a second configuration, or be started by the unit.
MCOffered ==
    {<<p1, "init", FALSE>>, <<p1, "serve", FALSE>>,
     <<p2, "init", FALSE>>, <<p2, "service", TRUE>>, <<p2, "unit", FALSE>>}
=============================================================================
