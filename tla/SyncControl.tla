---------------------------- MODULE SyncControl ----------------------------
(***************************************************************************)
(* The settings of synchronization and what runs by them: the section      *)
(* [sync] of ~/.zembra.env, which PUT /sync/config rewrites, the copy the  *)
(* running service holds, the background worker and the requests that run  *)
(* a cycle by hand, and the gate that every cycle passes before it touches *)
(* a row of the remote project.                                            *)
(*                                                                         *)
(* What a cycle does to the rows is SyncService.tla; here it is one step.  *)
(* A file is written by truncating it and then writing, which is two       *)
(* steps; the server runs on several threads, so that saves may overlap.   *)
(*                                                                         *)
(* mixed and clean only record what has happened, for the properties: no   *)
(* guard looks at them.                                                    *)
(*                                                                         *)
(* An operator marked Variant is a wrong version of the one that follows   *)
(* it; the specification does not use it.                                  *)
(***************************************************************************)
EXTENDS Naturals

CONSTANTS
    Put,         \* saves of the configuration
    Manual,      \* requests for a cycle
    Worker,      \* the background worker
    Project,     \* remote projects, named by their URL
    Key,         \* secret keys of the form sb_secret_...
    KeyOf,       \* the project that a key opens
    NoUrl, NoKey,
    Keep,        \* secret_key left out of a request
    NoPassword,
    NoSection,   \* a file without [sync]
    Garbled,     \* a file that does not parse
    Body,        \* the bodies that are sent to PUT /sync/config
    SeedFile,    \* the configuration file at the start
    SeedRemote,  \* the schema of each project at the start
    MaxCrashes,  \* how often the server is killed
    MaxFaults    \* how many writes and calls fail

\* A database password is that of one project.
Settings ==
    [enabled : BOOLEAN, url : Project \cup {NoUrl}, key : Key \cup {NoKey},
     password : Project \cup {NoPassword}]

\* SyncSettings::default
Default == [enabled |-> FALSE, url |-> NoUrl, key |-> NoKey, password |-> NoPassword]

\* The [sync] section, missing or not, and whether the other sections are there.
Document == [rest : BOOLEAN, sync : Settings \cup {NoSection}]

\* read_document takes a missing file and a blank one for this.
Empty == [rest |-> FALSE, sync |-> NoSection]

Schema == {"empty", "old", "target"}

ASSUME KeyAssumption == KeyOf \in [Key -> Project]
ASSUME BodyAssumption ==
    Body \subseteq [enabled : BOOLEAN, url : Project \cup {NoUrl}, key : Key \cup {NoKey, Keep}]
ASSUME SeedAssumption == SeedFile \subseteq Document /\ SeedRemote \subseteq [Project -> Schema]
ASSUME GarbledAssumption == Garbled \notin Document
ASSUME BoundAssumption == MaxCrashes \in Nat /\ MaxFaults \in Nat
ASSUME WorkerAssumption == Worker \notin Manual

Cycle == Manual \cup {Worker}

VARIABLES
    file,     \* ~/.zembra.env
    up,       \* whether the server runs
    mem,      \* the settings it holds
    stage,    \* how far each save is
    draft,    \* the document that a save is about to write
    beaten,   \* whether another save has written since this one truncated
    at,       \* where each cycle is
    held,     \* its own copy of the settings
    remote,   \* the schema of each project
    touched,  \* the projects whose rows have been read or written
    crashes, faults,
    mixed,    \* the saves under way that have met another one
    clean     \* no write has failed and no saves have met since the server was
              \* started, or since a save by itself came through

saveVars == <<stage, draft, beaten>>
pastVars == <<mixed, clean>>
cycleVars == <<at, held>>
vars == <<file, up, mem, stage, draft, beaten, at, held, remote, touched, crashes, faults,
          mixed, clean>>

TypeOK ==
    /\ file \in Document \cup {Garbled}
    /\ up \in BOOLEAN
    /\ mem \in Settings
    /\ stage \in [Put -> {"new", "read", "truncated", "written", "over"}]
    /\ draft \in [Put -> Document]
    /\ beaten \in [Put -> BOOLEAN]
    /\ at \in [Cycle -> {"rest", "begin", "gate", "migrate", "regate", "sync"}]
    /\ held \in [Cycle -> Settings]
    /\ remote \in [Project -> Schema]
    /\ touched \subseteq Project
    /\ crashes \in 0 .. MaxCrashes
    /\ faults \in 0 .. MaxFaults
    /\ mixed \subseteq Put
    /\ clean \in BOOLEAN

\* Variant: a missing section has no default.
SectionAsFound(d) == d.sync

\* The settings that a document gives.
Section(d) == IF d.sync = NoSection THEN Default ELSE d.sync

\* SyncSettings::validate
Valid(s) == s.enabled => s.url # NoUrl /\ s.key # NoKey

Init ==
    /\ file \in SeedFile
    /\ up = TRUE
    /\ mem = Section(file)
    /\ stage = [r \in Put |-> "new"]
    /\ draft = [r \in Put |-> Empty]
    /\ beaten = [r \in Put |-> FALSE]
    /\ at = [c \in Cycle |-> "rest"]
    /\ held = [c \in Cycle |-> Default]
    /\ remote \in SeedRemote
    /\ touched = {}
    /\ crashes = 0
    /\ faults = 0
    /\ mixed = {}
    /\ clean = TRUE

Saving(r) == stage[r] \in {"read", "truncated", "written"}

-----------------------------------------------------------------------------
\* PUT /sync/config

\* What a save makes of the settings in the file: an omitted key is kept, and
\* the password always.
Merged(previous, b) ==
    [enabled |-> b.enabled, url |-> b.url,
     key |-> IF b.key = Keep THEN previous.key ELSE b.key,
     password |-> previous.password]

\* What a save finds under way.
Met == {o \in Put : Saving(o)}

\* save, up to the write.  A file that does not parse and settings that are not
\* valid end it.
Read(r) ==
    /\ up /\ stage[r] = "new"
    /\ \E b \in Body :
         IF file # Garbled /\ Valid(Merged(Section(file), b))
         THEN /\ stage' = [stage EXCEPT ![r] = "read"]
              /\ draft' = [draft EXCEPT ![r] =
                             [rest |-> file.rest, sync |-> Merged(Section(file), b)]]
              /\ mixed' = IF Met = {} THEN mixed ELSE mixed \cup Met \cup {r}
              /\ clean' = (clean /\ Met = {})
         ELSE stage' = [stage EXCEPT ![r] = "over"] /\ UNCHANGED <<draft, pastVars>>
    /\ UNCHANGED <<file, up, mem, beaten, cycleVars, remote, touched, crashes, faults>>

\* std::fs::write opens the file, which truncates it ...
Truncate(r) ==
    /\ stage[r] = "read"
    /\ file' = Empty
    /\ stage' = [stage EXCEPT ![r] = "truncated"]
    /\ UNCHANGED <<up, mem, draft, beaten, cycleVars, remote, touched, crashes, faults, pastVars>>

\* ... and writes from its beginning: over a longer text that another save has
\* written since, the end of which stays.
Write(r) ==
    /\ stage[r] = "truncated"
    /\ file' \in {draft[r]} \cup (IF beaten[r] THEN {Garbled} ELSE {})
    /\ stage' = [stage EXCEPT ![r] = "written"]
    /\ beaten' = [o \in Put |-> stage[o] = "truncated" /\ o # r]
    /\ UNCHANGED <<up, mem, draft, cycleVars, remote, touched, crashes, faults, pastVars>>

\* The write fails, with nothing in the file or only a part, which is taken not
\* to parse.
FailWrite(r) ==
    /\ stage[r] = "truncated" /\ faults < MaxFaults
    /\ file' \in {file, Garbled}
    /\ stage' = [stage EXCEPT ![r] = "over"]
    /\ faults' = faults + 1
    /\ mixed' = mixed \ {r}
    /\ clean' = FALSE
    /\ UNCHANGED <<up, mem, draft, beaten, cycleVars, remote, touched, crashes>>

\* Variant: the running service is not told.
SwapNothing(r) ==
    /\ stage[r] = "written"
    /\ stage' = [stage EXCEPT ![r] = "over"]
    /\ mixed' = mixed \ {r}
    /\ clean' = (clean \/ r \notin mixed)
    /\ UNCHANGED <<file, up, mem, draft, beaten, cycleVars, remote, touched, crashes, faults>>

\* update_settings, and the answer.
Swap(r) ==
    /\ stage[r] = "written"
    /\ mem' = Section(draft[r])
    /\ stage' = [stage EXCEPT ![r] = "over"]
    /\ mixed' = mixed \ {r}
    /\ clean' = (clean \/ r \notin mixed)
    /\ UNCHANGED <<file, up, draft, beaten, cycleVars, remote, touched, crashes, faults>>

-----------------------------------------------------------------------------
\* Cycles

Go(c, l) == at' = [at EXCEPT ![c] = l]

\* Variant: the first error ends the worker.
WakeUntilError ==
    /\ up /\ at[Worker] = "rest"
    /\ mem.enabled /\ faults = 0
    /\ Go(Worker, "begin")
    /\ held' = [held EXCEPT ![Worker] = mem]
    /\ UNCHANGED <<file, up, mem, saveVars, remote, touched, crashes, faults, pastVars>>

\* The worker looks whether it is enabled with a copy of the settings, of which
\* it then sleeps the interval, and calls run_once.
Wake ==
    /\ up /\ at[Worker] = "rest"
    /\ mem.enabled
    /\ Go(Worker, "begin")
    /\ held' = [held EXCEPT ![Worker] = mem]
    /\ UNCHANGED <<file, up, mem, saveVars, remote, touched, crashes, faults, pastVars>>

\* Variant: the worker goes on with the copy it has looked at.
BeginWithOldCopy(c) ==
    /\ up
    /\ at[c] = IF c = Worker THEN "begin" ELSE "rest"
    /\ held' = [held EXCEPT ![c] = IF c = Worker THEN @ ELSE mem]
    /\ Go(c, IF held'[c].enabled THEN "gate" ELSE "rest")
    /\ UNCHANGED <<file, up, mem, saveVars, remote, touched, crashes, faults, pastVars>>

\* run_once, push and pull take a copy of their own.
Begin(c) ==
    /\ up
    /\ at[c] = IF c = Worker THEN "begin" ELSE "rest"
    /\ held' = [held EXCEPT ![c] = mem]
    /\ Go(c, IF mem.enabled THEN "gate" ELSE "rest")
    /\ UNCHANGED <<file, up, mem, saveVars, remote, touched, crashes, faults, pastVars>>

\* The project answers only to its own key.
Opens(s) == s.key # NoKey /\ s.url # NoUrl /\ KeyOf[s.key] = s.url

\* ensure_schema_contract_ready: a remote schema that is not the one of this
\* program ends the cycle, unless there is a password to migrate it with.  The
\* local schema, which is compared as well, is that of this program in a server
\* that serves: see ServedIsCurrent in Startup.tla.
Gate(c) ==
    /\ at[c] = "gate"
    /\ LET s == held[c]
       IN Go(c, IF ~Opens(s) THEN "rest"
                ELSE IF remote[s.url] = "target" THEN "sync"
                ELSE IF s.password # NoPassword THEN "migrate" ELSE "rest")
    /\ UNCHANGED <<file, up, mem, saveVars, held, remote, touched, crashes, faults, pastVars>>

\* apply_remote_schema_contract: one script in one transaction, which fails
\* where its tables are there already.
Migrate(c) ==
    /\ at[c] = "migrate"
    /\ LET s == held[c]
       IN IF s.password = s.url /\ remote[s.url] = "empty"
          THEN remote' = [remote EXCEPT ![s.url] = "target"] /\ Go(c, "regate")
          ELSE UNCHANGED remote /\ Go(c, "rest")
    /\ UNCHANGED <<file, up, mem, saveVars, held, touched, crashes, faults, pastVars>>

Regate(c) ==
    /\ at[c] = "regate"
    /\ Go(c, IF remote[held[c].url] = "target" THEN "sync" ELSE "rest")
    /\ UNCHANGED <<file, up, mem, saveVars, held, remote, touched, crashes, faults, pastVars>>

\* Variant: the rows are those of the project in the settings by now.
SyncCurrentRows(c) ==
    /\ at[c] = "sync"
    /\ touched' = touched \cup ({mem.url} \ {NoUrl})
    /\ Go(c, "rest")
    /\ UNCHANGED <<file, up, mem, saveVars, held, remote, crashes, faults, pastVars>>

\* Snapshots, writes and verification.
SyncRows(c) ==
    /\ at[c] = "sync"
    /\ touched' = touched \cup {held[c].url}
    /\ Go(c, "rest")
    /\ UNCHANGED <<file, up, mem, saveVars, held, remote, crashes, faults, pastVars>>

\* A call to the remote fails, perhaps after it has been carried out.  The
\* worker logs it and sleeps.
FailCall(c) ==
    /\ at[c] \in {"gate", "migrate", "regate", "sync"} /\ faults < MaxFaults
    /\ faults' = faults + 1
    /\ Go(c, "rest")
    /\ LET s == held[c]
       IN \/ UNCHANGED <<remote, touched>>
          \/ /\ at[c] = "migrate" /\ s.password = s.url /\ remote[s.url] = "empty"
             /\ remote' = [remote EXCEPT ![s.url] = "target"]
             /\ UNCHANGED touched
          \/ /\ at[c] = "sync"
             /\ touched' = touched \cup {s.url}
             /\ UNCHANGED remote
    /\ UNCHANGED <<file, up, mem, saveVars, held, crashes, pastVars>>

-----------------------------------------------------------------------------
\* The server

\* It is killed: its memory, its saves and its cycles are gone.
Crash ==
    /\ up /\ crashes < MaxCrashes
    /\ up' = FALSE
    /\ crashes' = crashes + 1
    /\ mem' = Default
    /\ stage' = [r \in Put |-> IF Saving(r) THEN "over" ELSE stage[r]]
    /\ beaten' = [r \in Put |-> FALSE]
    /\ at' = [c \in Cycle |-> "rest"]
    /\ mixed' = {}
    /\ UNCHANGED <<file, draft, held, remote, touched, faults, clean>>

\* Settings::load refuses a file that does not parse or is not valid.
Restart ==
    /\ ~up /\ file # Garbled /\ Valid(Section(file))
    /\ up' = TRUE
    /\ mem' = Section(file)
    /\ clean' = TRUE
    /\ UNCHANGED <<file, saveVars, cycleVars, remote, touched, crashes, faults, mixed>>

-----------------------------------------------------------------------------
Save(r) == Truncate(r) \/ Write(r) \/ Swap(r)

Step(c) == Gate(c) \/ Migrate(c) \/ Regate(c) \/ SyncRows(c)

Next ==
    \/ \E r \in Put : Read(r) \/ Save(r) \/ FailWrite(r)
    \/ Wake
    \/ \E c \in Cycle : Begin(c) \/ Step(c) \/ FailCall(c)
    \/ Crash \/ Restart

Spec == Init /\ [][Next]_vars

\* The runtime polls every task that is ready; nobody has to ask for a save or
\* for a cycle by hand.
Fairness ==
    /\ \A r \in Put : WF_vars(Save(r))
    /\ \A c \in Cycle : WF_vars(Step(c))
    /\ WF_vars(Wake) /\ WF_vars(Begin(Worker))
    /\ WF_vars(Restart)

FairSpec == Spec /\ Fairness

-----------------------------------------------------------------------------
\* Properties

Quiet == up /\ \A r \in Put : ~Saving(r)

\* Between saves the service runs by what the file says, so that a restart
\* changes nothing: after saves that came through or were refused, and after a
\* kill at any point of a save.  A write that fails and saves that meet part the
\* two, until the server is started again or a save comes through by itself.
FileIsInForce == Quiet /\ clean => file # Garbled /\ mem = Section(file)

\* A cycle begins with the settings that were saved last, also when they were
\* saved after the worker had looked.
CyclesUseSavedSettings ==
    [][\A c \in Cycle : at[c] # "gate" /\ at'[c] = "gate" /\ Quiet /\ clean =>
         held'[c] = Section(file)]_vars

\* Rows are touched only in a project that has the schema of this program,
\* whatever is saved between the gate and the rows.
RowsMeetContract == \A p \in touched : remote[p] = "target"

\* A failed cycle does not end the worker: with settings that fit their project
\* it goes on to reach the rows, again and again.
Fitting(s) ==
    /\ s.enabled /\ Opens(s)
    /\ \/ remote[s.url] = "target"
       \/ remote[s.url] = "empty" /\ s.password = s.url

WorkerKeepsSyncing ==
    <>[](up /\ Fitting(mem)) => []<>(at[Worker] = "sync")

\* The other sections of the file outlive a save, when none is under way and
\* nothing has failed.
OtherSectionsKept ==
    Quiet /\ crashes = 0 /\ faults = 0 => file # Garbled /\ file.rest
=============================================================================
