------------------------------ MODULE Startup ------------------------------
(***************************************************************************)
(* The commands that set an installation up and the server that uses it:   *)
(* `init`, `config init`, `init service` and the server itself, as         *)
(* processes that share the configuration file ~/.zembra.env, the unit of  *)
(* the service manager and the SQLite files the configuration may name.    *)
(*                                                                         *)
(* A process does one file operation or one database call in a step, so    *)
(* that others come in between, and may be killed after any of them; that  *)
(* a part of the schema is there is looked up in the step that uses it,    *)
(* since parts are only added.  What is abstracted: a database is the      *)
(* parts of the schema it has, the versions registered in it, its          *)
(* workspaces and whether it holds notes.                                  *)
(*                                                                         *)
(* The migration scripts are files of another repository.  Of them this    *)
(* module knows what database.rs relies on: script k adds the parts that   *)
(* column_exists and table_exists ask for and registers version k last,    *)
(* and a part that is there already makes it fail.  A script is one step:  *)
(* whether a kill can leave half of it is not known here.  The reference   *)
(* of a note to its workspace follows no change of the workspace's id.     *)
(*                                                                         *)
(* An operator marked Variant is a wrong version of the one that follows   *)
(* it; the specification does not use it.                                  *)
(***************************************************************************)
EXTENDS Naturals

CONSTANTS
    Proc,        \* processes of this user
    HomeDb,      \* ~/.zembra/zembra.sqlite3, which `init` makes
    ServiceDb,   \* zembra.db in the data directory, which `init service` names
    FallbackDb,  \* the path of config/default.toml
    Fixed,       \* the workspace id that the scripts insert
    Uuid,        \* the ids that a new workspace may draw
    Name,        \* workspace names
    Typed,       \* the name that the user of a process types
    Offered,     \* who runs which command, and whether with --force
    Packaged,    \* the ways to start the server in a directory with config/default.toml
    Absent,      \* no configuration file
    Blank,       \* a configuration file that has been truncated
    Garbled,     \* a configuration file that does not parse
    NoName,      \* workspace_name IS NULL; no name has been read
    NoNotes,     \* the notes table is empty
    NoSpace,     \* notes older than workspaces
    HomeSeed,    \* what may be at HomeDb from the start
    MaxCrashes   \* how many processes are killed

Path == {HomeDb, ServiceDb, FallbackDb}

\* The server is started by its user, or by the service manager with the unit
\* that `init service` has written.
Server == {"serve", "unit"}

Command == {"init", "config", "service"} \cup Server

\* Version k of the schema contract, 0.k.0.
Version == 1 .. 5

Part == {"base", "role", "space", "tree"}

\* What the script of a version adds; the last one only registers itself.
Adds(k) == CASE k = 1 -> {"base"} [] k = 2 -> {"role"} [] k = 3 -> {"space"}
             [] k = 4 -> {"tree"} [] k = 5 -> {}

Workspace == [id : Uuid \cup {Fixed}, name : Name \cup {NoName}]

\* made: the file exists; meta: it has the table schema_migrations; notes: the
\* workspace of its notes.
Database ==
    [made : BOOLEAN, has : SUBSET Part, meta : BOOLEAN, versions : SUBSET Version,
     spaces : SUBSET Workspace, notes : Uuid \cup {Fixed, NoNotes, NoSpace}]

NoDatabase ==
    [made |-> FALSE, has |-> {}, meta |-> FALSE, versions |-> {}, spaces |-> {},
     notes |-> NoNotes]

FixedWorkspace == [id |-> Fixed, name |-> NoName]

\* What is registered is there; schema_migrations never comes alone.
Sound(d) ==
    /\ \A k \in d.versions : Adds(k) \subseteq d.has
    /\ d.meta => "base" \in d.has

\* Where there are workspaces there is one: the script that adds their table
\* inserts the fixed one, and nothing deletes a workspace.
Peopled(d) == "space" \in d.has => d.spaces # {}

ASSUME SeedAssumption == HomeSeed \subseteq {d \in Database : Sound(d) /\ Peopled(d)}
ASSUME ConfigAssumption ==
    /\ Garbled \notin Path \cup {Absent, Blank}
    /\ Blank \notin Path \cup {Absent}
ASSUME CrashAssumption == MaxCrashes \in Nat
ASSUME TypedAssumption == Typed \in [Proc -> Name]
ASSUME PackagedAssumption == Packaged \subseteq Server
ASSUME OfferedAssumption == Offered \subseteq Proc \X Command \X BOOLEAN

VARIABLES
    config,   \* ~/.zembra.env: the database path it names, Absent, Blank or Garbled
    unit,     \* the unit of the service manager
    db,       \* the SQLite files
    pc,       \* where each process is
    cmd,      \* what it was started for
    force,    \* its option --force
    path,     \* the database it works on
    level,    \* the version it is about to look at
    name,     \* the workspace name it has read
    crashes

fileVars == <<config, unit, db>>
procVars == <<pc, cmd, force, path, level, name>>
vars == <<config, unit, db, pc, cmd, force, path, level, name, crashes>>

Label == {"idle", "look", "lookConfig", "lookAgain", "ask", "load", "open", "meta", "base",
          "boot", "bootRecord", "bootLook", "check", "script", "record", "legacy", "fixed",
          "renumber", "name", "bind", "config", "truncate", "fill",
          "unit", "unitTruncate", "unitFill", "serving"}

TypeOK ==
    /\ config \in Path \cup {Absent, Blank, Garbled}
    /\ unit \in {"absent", "blank", "written"}
    /\ db \in [Path -> Database]
    /\ pc \in [Proc -> Label]
    /\ cmd \in [Proc -> Command]
    /\ force \in [Proc -> BOOLEAN]
    /\ path \in [Proc -> Path]
    /\ level \in [Proc -> Version]
    /\ name \in [Proc -> Name \cup {NoName}]
    /\ crashes \in 0 .. MaxCrashes

Init ==
    /\ config = Absent
    /\ unit = "absent"
    /\ \E d \in HomeSeed : db = [q \in Path |-> IF q = HomeDb THEN d ELSE NoDatabase]
    /\ pc = [p \in Proc |-> "idle"]
    /\ cmd = [p \in Proc |-> "init"]
    /\ force = [p \in Proc |-> FALSE]
    /\ path = [p \in Proc |-> HomeDb]
    /\ level = [p \in Proc |-> 1]
    /\ name = [p \in Proc |-> NoName]
    /\ crashes = 0

Goto(p, l) == pc' = [pc EXCEPT ![p] = l]

\* The command of p is over, whatever it has told its user.
End(p) ==
    /\ Goto(p, "idle")
    /\ cmd' = [cmd EXCEPT ![p] = "init"]
    /\ force' = [force EXCEPT ![p] = FALSE]
    /\ path' = [path EXCEPT ![p] = HomeDb]
    /\ level' = [level EXCEPT ![p] = 1]
    /\ name' = [name EXCEPT ![p] = NoName]

The(p) == db[path[p]]

\* What a step on the schema, or of a mere look, leaves as it is.
Unchanged == UNCHANGED <<config, unit, cmd, force, path, name, crashes>>

-----------------------------------------------------------------------------
\* Commands

\* main: one command line is one process.  The service manager has to have a unit.
Start(p, c) ==
    /\ pc[p] = "idle"
    /\ c = "unit" => unit = "written"
    /\ \E f \in BOOLEAN :
         /\ <<p, c, f>> \in Offered
         /\ force' = [force EXCEPT ![p] = f]
    /\ cmd' = [cmd EXCEPT ![p] = c]
    /\ Goto(p, CASE c = "init" -> "look" [] c \in Server -> "load" [] OTHER -> "config")
    /\ path' = [path EXCEPT ![p] = IF c = "service" THEN ServiceDb ELSE HomeDb]
    /\ UNCHANGED <<fileVars, level, name, crashes>>

\* init_global: nothing to do when both files exist ...
Look(p) ==
    /\ pc[p] = "look"
    /\ Goto(p, IF The(p).made THEN "lookConfig" ELSE "lookAgain")
    /\ UNCHANGED <<db, level>> /\ Unchanged

LookConfig(p) ==
    /\ pc[p] = "lookConfig"
    /\ IF config # Absent
       THEN End(p) /\ UNCHANGED <<fileVars, crashes>>
       ELSE Goto(p, "lookAgain") /\ UNCHANGED <<db, level>> /\ Unchanged

\* ... and a workspace name is asked for only when the database, at a second
\* look, does not.
LookAgain(p) ==
    /\ pc[p] = "lookAgain"
    /\ Goto(p, IF The(p).made THEN "open" ELSE "ask")
    /\ UNCHANGED <<db, level>> /\ Unchanged

\* One of three attempts gives a valid name, or none does.
ReadName(p) ==
    /\ pc[p] = "ask"
    /\ name' = [name EXCEPT ![p] = Typed[p]]
    /\ Goto(p, "open")
    /\ UNCHANGED <<fileVars, cmd, force, path, level, crashes>>

RefuseName(p) ==
    /\ pc[p] = "ask"
    /\ End(p)
    /\ UNCHANGED <<fileVars, crashes>>

\* Variant: the user's file has to be there, and to have a text, as well.
LoadBoth(p) ==
    /\ pc[p] = "load"
    /\ IF cmd[p] \notin Packaged \/ config \notin Path
       THEN End(p) /\ UNCHANGED <<fileVars, crashes>>
       ELSE /\ path' = [path EXCEPT ![p] = config]
            /\ Goto(p, "open")
            /\ UNCHANGED <<fileVars, cmd, force, level, name, crashes>>

\* Settings::load: the user's file goes over config/default.toml, which has a
\* database path of its own.  The latter is looked for in the working directory
\* and has to be there, and the former has to parse.
Load(p) ==
    /\ pc[p] = "load"
    /\ IF cmd[p] \notin Packaged \/ config = Garbled
       THEN End(p) /\ UNCHANGED <<fileVars, crashes>>
       ELSE /\ path' = [path EXCEPT ![p] = IF config \in Path THEN config ELSE FallbackDb]
            /\ Goto(p, "open")
            /\ UNCHANGED <<fileVars, cmd, force, level, name, crashes>>

-----------------------------------------------------------------------------
\* Database::connect

\* A step of p on the schema of its database.
Change(p, d, l) == db' = [db EXCEPT ![path[p]] = d] /\ Goto(p, l)

\* create_if_missing: from here on the file exists.
Open(p) ==
    /\ pc[p] = "open"
    /\ Change(p, [The(p) EXCEPT !.made = TRUE], "meta")
    /\ UNCHANGED level /\ Unchanged

\* migrate: is there schema_migrations?
LookForMeta(p) ==
    /\ pc[p] = "meta"
    /\ \/ The(p).meta /\ Goto(p, "check") /\ level' = [level EXCEPT ![p] = 2]
       \/ ~The(p).meta /\ Goto(p, "base") /\ UNCHANGED level
    /\ UNCHANGED db /\ Unchanged

\* If not, tables of before it are bootstrapped, and without any table the first
\* script is run.
LookForNotes(p) ==
    /\ pc[p] = "base"
    /\ Goto(p, IF "base" \in The(p).has THEN "boot" ELSE "script")
    /\ UNCHANGED <<db, level>> /\ Unchanged

\* bootstrap_schema_migrations: the table, version 1, and then every version
\* whose parts are there.
CreateMeta(p) ==
    /\ pc[p] = "boot"
    /\ Change(p, [The(p) EXCEPT !.meta = TRUE], "bootRecord")
    /\ UNCHANGED level /\ Unchanged

\* Variant: the parts of version 3 count as those of version 4.
ShownEarly(d, k) == Adds(IF k >= 4 THEN 3 ELSE k) \subseteq d.has

\* What is taken as proof that version k is there.
Shown(d, k) == Adds(IF k = 5 THEN 4 ELSE k) \subseteq d.has

\* Variant: the level is not set back for the second pass.
OnwardOnly(p, l, last) ==
    /\ level' = [level EXCEPT ![p] = @ + 1]
    /\ Goto(p, IF level[p] < 5 THEN l ELSE last)

\* Variant: the last version is forgotten.
OnwardToFour(p, l, last) ==
    IF level[p] < 4
    THEN level' = [level EXCEPT ![p] = @ + 1] /\ Goto(p, l)
    ELSE level' = [level EXCEPT ![p] = 2] /\ Goto(p, last)

\* From version to version at label l, and from the last one to label last.
Onward(p, l, last) ==
    IF level[p] < 5
    THEN level' = [level EXCEPT ![p] = @ + 1] /\ Goto(p, l)
    ELSE level' = [level EXCEPT ![p] = 2] /\ Goto(p, last)

Register(d, k) == [d EXCEPT !.versions = @ \cup {k}]

BootRecord(p) ==
    /\ pc[p] = "bootRecord"
    /\ db' = [db EXCEPT ![path[p]] = Register(@, level[p])]
    /\ Onward(p, "bootLook", "check")
    /\ Unchanged

\* ensure_default_workspace inserts a row that is not there.
AddFixed(d) ==
    [d EXCEPT !.spaces = IF \E w \in @ : w.id = Fixed THEN @ ELSE @ \cup {FixedWorkspace}]

BootLook(p) ==
    /\ pc[p] = "bootLook"
    /\ IF Shown(The(p), level[p])
       THEN /\ Change(p, IF level[p] = 3 THEN AddFixed(The(p)) ELSE The(p), "bootRecord")
            /\ UNCHANGED level
       ELSE Onward(p, "bootLook", "check") /\ UNCHANGED db
    /\ Unchanged

\* The rest of migrate: a version that is not registered is registered if its
\* parts are there, else its script is run.
CheckVersion(p) ==
    /\ pc[p] = "check"
    /\ \/ /\ level[p] \in The(p).versions
          /\ Onward(p, "check", "legacy")
       \/ /\ level[p] \notin The(p).versions
          /\ Goto(p, IF level[p] < 5 /\ Adds(level[p]) \subseteq The(p).has
                     THEN "record" ELSE "script")
          /\ UNCHANGED level
    /\ UNCHANGED db /\ Unchanged

Record(p) ==
    /\ pc[p] = "record"
    /\ db' = [db EXCEPT ![path[p]] = Register(@, level[p])]
    /\ Onward(p, "check", "legacy")
    /\ Unchanged

\* What script k makes of a database.  The third one brings the workspaces, and
\* the notes that are there go to the fixed one.
Scripted(d, k) ==
    LET with == Register([d EXCEPT !.has = @ \cup Adds(k), !.meta = TRUE], k)
    IN IF k = 3
       THEN [AddFixed(with) EXCEPT !.notes = IF @ = NoSpace THEN Fixed ELSE @]
       ELSE with

RunScript(p) ==
    /\ pc[p] = "script"
    /\ Adds(level[p]) \cap The(p).has = {}
    /\ db' = [db EXCEPT ![path[p]] = Scripted(@, level[p])]
    /\ Onward(p, "check", "legacy")
    /\ Unchanged

\* Another process has run the script since this one looked.
FailScript(p) ==
    /\ pc[p] = "script"
    /\ Adds(level[p]) \cap The(p).has # {}
    /\ End(p)
    /\ UNCHANGED <<fileVars, crashes>>

\* Variant: the name that was read is not used.
ConnectedNameless(p) == IF cmd[p] \in Server THEN "bind" ELSE "config"

\* What follows connect.
Connected(p) == IF cmd[p] \in Server THEN "bind" ELSE IF name[p] # NoName THEN "name" ELSE "config"

\* migrate_legacy_fixed_workspace: a database with notes keeps its workspaces ...
LegacyCheck(p) ==
    /\ pc[p] = "legacy"
    /\ Goto(p, IF The(p).notes = NoNotes THEN "fixed" ELSE Connected(p))
    /\ UNCHANGED <<db, level>> /\ Unchanged

\* ... and so does one without the fixed workspace.
LookForFixed(p) ==
    /\ pc[p] = "fixed"
    /\ Goto(p, IF \E w \in The(p).spaces : w.id = Fixed THEN "renumber" ELSE Connected(p))
    /\ UNCHANGED <<db, level>> /\ Unchanged

\* Uuid::new_v4 gives an id that no workspace of the database has.
Unused(d) == {u \in Uuid : \A w \in d.spaces : w.id # u}

Renumbered(d) ==
    LET fresh == CHOOSE u \in Unused(d) : TRUE
    IN [d EXCEPT !.spaces = {IF w.id = Fixed THEN [w EXCEPT !.id = fresh] ELSE w : w \in @}]

\* The UPDATE; a note of the fixed workspace makes it fail.
Renumber(p) ==
    /\ pc[p] = "renumber"
    /\ IF The(p).notes = Fixed
       THEN End(p) /\ UNCHANGED <<fileVars, crashes>>
       ELSE /\ Unused(The(p)) # {}
            /\ Change(p, Renumbered(The(p)), Connected(p))
            /\ UNCHANGED level /\ Unchanged

-----------------------------------------------------------------------------
\* After connect

\* Variant: a workspace that has a name is given another one.
Rename(p) ==
    /\ pc[p] = "name"
    /\ \E w \in The(p).spaces :
         Change(p, [The(p) EXCEPT !.spaces = (@ \ {w}) \cup {[w EXCEPT !.name = name[p]]}],
                "config")
    /\ UNCHANGED level /\ Unchanged

\* assign_initial_workspace_name: the oldest of the workspaces without a name.
AssignName(p) ==
    /\ pc[p] = "name"
    /\ LET unnamed == {w \in The(p).spaces : w.name = NoName}
       IN IF unnamed = {}
          THEN Goto(p, "config") /\ UNCHANGED db
          ELSE \E w \in unnamed :
                 Change(p, [The(p) EXCEPT !.spaces =
                              (@ \ {w}) \cup {[w EXCEPT !.name = name[p]]}], "config")
    /\ UNCHANGED level /\ Unchanged

\* write_file_if_allowed and its twin in config_init.rs: an existing file is
\* kept, any other is written in three steps.  `init service` goes on to its
\* unit, the others are done.
LookForConfig(p) ==
    /\ pc[p] = "config"
    /\ IF config # Absent /\ ~force[p]
       THEN IF cmd[p] = "service"
            THEN Goto(p, "unit") /\ UNCHANGED <<db, level>> /\ Unchanged
            ELSE End(p) /\ UNCHANGED <<fileVars, crashes>>
       ELSE Goto(p, "truncate") /\ UNCHANGED <<db, level>> /\ Unchanged

\* fs::write opens the file, which truncates it ...
Truncate(p) ==
    /\ pc[p] = "truncate"
    /\ config' = Blank
    /\ Goto(p, "fill")
    /\ UNCHANGED <<unit, db, cmd, force, path, level, name, crashes>>

\* ... and writes from its beginning: the text of `init service` is shorter than
\* the documented one, and ends in the rest of one that another process has
\* written since.  Paths are taken to be of ordinary length.
Filled(p) ==
    IF path[p] = ServiceDb /\ config \in {HomeDb, Garbled} THEN Garbled ELSE path[p]

Fill(p) ==
    /\ pc[p] = "fill"
    /\ config' = Filled(p)
    /\ IF cmd[p] = "service"
       THEN Goto(p, "unit") /\ UNCHANGED <<cmd, force, path, level, name>>
       ELSE End(p)
    /\ UNCHANGED <<unit, db, crashes>>

\* write_file_if_allowed again, for the unit, of which there is one text.
LookForUnit(p) ==
    /\ pc[p] = "unit"
    /\ IF unit # "absent" /\ ~force[p]
       THEN End(p) /\ UNCHANGED <<fileVars, crashes>>
       ELSE Goto(p, "unitTruncate") /\ UNCHANGED <<db, level>> /\ Unchanged

TruncateUnit(p) ==
    /\ pc[p] = "unitTruncate"
    /\ unit' = "blank"
    /\ Goto(p, "unitFill")
    /\ UNCHANGED <<config, db, cmd, force, path, level, name, crashes>>

FillUnit(p) ==
    /\ pc[p] = "unitFill"
    /\ unit' = "written"
    /\ End(p)
    /\ UNCHANGED <<config, db, crashes>>

\* server::run: the port is taken only now.
Bind(p) ==
    /\ pc[p] = "bind"
    /\ IF \E o \in Proc : pc[o] = "serving"
       THEN End(p) /\ UNCHANGED <<fileVars, crashes>>
       ELSE Goto(p, "serving") /\ UNCHANGED <<db, level>> /\ Unchanged

\* A client creates a first note, in one of the workspaces.
MakeNote(p) ==
    /\ pc[p] = "serving"
    /\ The(p).notes = NoNotes
    /\ \E w \in The(p).spaces : db' = [db EXCEPT ![path[p]].notes = w.id]
    /\ UNCHANGED <<config, unit, procVars, crashes>>

Stop(p) ==
    /\ pc[p] = "serving"
    /\ End(p)
    /\ UNCHANGED <<fileVars, crashes>>

\* The process is killed.
Kill(p) ==
    /\ pc[p] # "idle"
    /\ crashes < MaxCrashes
    /\ crashes' = crashes + 1
    /\ End(p)
    /\ UNCHANGED fileVars

-----------------------------------------------------------------------------
\* What a process does by itself.
Work(p) ==
    \/ Look(p) \/ LookConfig(p) \/ LookAgain(p) \/ ReadName(p) \/ RefuseName(p) \/ Load(p)
    \/ Open(p) \/ LookForMeta(p) \/ LookForNotes(p)
    \/ CreateMeta(p) \/ BootRecord(p) \/ BootLook(p)
    \/ CheckVersion(p) \/ Record(p) \/ RunScript(p) \/ FailScript(p)
    \/ LegacyCheck(p) \/ LookForFixed(p) \/ Renumber(p) \/ AssignName(p)
    \/ LookForConfig(p) \/ Truncate(p) \/ Fill(p)
    \/ LookForUnit(p) \/ TruncateUnit(p) \/ FillUnit(p) \/ Bind(p)

Next ==
    \E p \in Proc :
        \/ \E c \in Command : Start(p, c)
        \/ Work(p) \/ MakeNote(p) \/ Stop(p) \/ Kill(p)

Spec == Init /\ [][Next]_vars

\* A process runs on, and the user starts the server again and again.
Fairness ==
    /\ \A p \in Proc : WF_vars(Work(p))
    /\ SF_vars(\E p \in Proc : Start(p, "serve"))

FairSpec == Spec /\ Fairness

-----------------------------------------------------------------------------
\* Properties

\* A version is registered only where its parts are: the next start takes a
\* registered version for done and never looks again.
VersionsTellStructure ==
    \A q \in Path : \A k \in db[q].versions : Adds(k) \subseteq db[q].has

\* A server that answers requests does so on the whole schema, however many
\* processes have migrated, or been killed migrating, the same file before.
ServedIsCurrent ==
    \A p \in Proc : pc[p] \in {"bind", "serving"} =>
        Part \subseteq The(p).has /\ 2 .. 5 \subseteq The(p).versions

\* `init` that has asked for a name goes on to the configuration, and to its
\* answer, only with a workspace that has a name in the database.
InitLeavesName ==
    \A p \in Proc : name[p] # NoName /\ pc[p] \in {"config", "truncate", "fill"} =>
        \E w \in The(p).spaces : w.name # NoName

\* A workspace that holds notes, or whose id was drawn here, keeps its id, and a
\* name that has been given is neither replaced nor lost: other devices and the
\* remote know a workspace by its id, and its user by its name.
WorkspacesStay ==
    [][\A q \in Path : \A w \in db[q].spaces :
         LET same == {v \in db'[q].spaces : v.id = w.id}
         IN /\ w.id # Fixed \/ db[q].notes = w.id => same # {}
            /\ w.name # NoName =>
                 \E v \in IF w.id = Fixed THEN db'[q].spaces ELSE same : v.name = w.name]_vars

\* What the commands leave in place of the configuration, if anything, parses.
\* Two of them that write it at once may break this.
ConfigIsWhole == config # Garbled

\* Whatever has been killed, and whatever other commands run beside it, a
\* server that is started again and again comes to serve, unless two commands
\* have written the configuration at once and left what does not parse.
ServerComesUp ==
    <>[]ConfigIsWhole => []<>(\E p \in Proc : pc[p] = "serving")

\* One command writes the configuration at a time.
OneWriter == \A p, o \in Proc : pc[p] = "fill" /\ pc[o] = "fill" => p = o
=============================================================================
