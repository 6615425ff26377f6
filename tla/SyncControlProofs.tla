------------------------- MODULE SyncControlProofs -------------------------
(***************************************************************************)
(* Theorems about SyncControl, for every set of saves, cycles, projects    *)
(* and keys, and every number of kills and faults.                         *)
(*                                                                         *)
(* Rows are safe because a cycle goes on with the copy of the settings     *)
(* that it has passed the gate with, and a project never loses its schema. *)
(* The settings in force are those of the file because a save that has met *)
(* no other one finds the file as it has left it, from its truncation to   *)
(* its answer, and puts in force what it has written; what other saves and *)
(* failed writes have left behind does not matter to it.                   *)
(***************************************************************************)
EXTENDS SyncControl, TLAPS

-----------------------------------------------------------------------------
\* Types

LEMMA DefaultType == Default \in Settings
BY DEF Default, Settings

LEMMA EmptyType == Empty \in Document
BY DEF Empty, Document

LEMMA SectionType ==
    ASSUME NEW d \in Document
    PROVE  Section(d) \in Settings
BY DefaultType DEF Section, Document

LEMMA MergedType ==
    ASSUME NEW s \in Settings, NEW b \in Body
    PROVE  Merged(s, b) \in Settings
BY BodyAssumption DEF Merged, Settings

LEMMA InitType == Init => TypeOK
<1> SUFFICES ASSUME Init PROVE TypeOK
  OBVIOUS
<1>1. file \in Document /\ remote \in [Project -> Schema]
  BY SeedAssumption DEF Init
<1>2. mem \in Settings
  BY <1>1, SectionType DEF Init
<1> QED
  BY <1>1, <1>2, DefaultType, EmptyType, BoundAssumption DEF Init, TypeOK

LEMMA PastType ==
    ASSUME TypeOK, NEW r \in Put, Read(r) \/ Save(r) \/ FailWrite(r)
    PROVE  mixed' \subseteq Put /\ clean' \in BOOLEAN
<1>1. mixed \subseteq Put /\ clean \in BOOLEAN /\ Met \subseteq Put
  BY DEF TypeOK, Met
<1>2. mixed' \subseteq Put
  BY <1>1 DEF Read, Save, Truncate, Write, Swap, FailWrite, pastVars
<1>3. \/ clean' = clean \/ clean' = FALSE
      \/ clean' = (clean /\ Met = {}) \/ clean' = (clean \/ r \notin mixed)
  BY DEF Read, Save, Truncate, Write, Swap, FailWrite, pastVars
<1> QED
  BY <1>1, <1>2, <1>3

LEMMA SaveType ==
    ASSUME TypeOK, NEW r \in Put, Read(r) \/ Save(r) \/ FailWrite(r)
    PROVE  TypeOK'
<1>0. mixed' \subseteq Put /\ clean' \in BOOLEAN
  BY PastType
<1>1. CASE Read(r)
  <2>1. UNCHANGED <<file, up, mem, beaten, at, held, remote, touched, crashes, faults>>
    BY <1>1 DEF Read, cycleVars
  <2>2. PICK b \in Body :
          \/ /\ file # Garbled
             /\ stage' = [stage EXCEPT ![r] = "read"]
             /\ draft' = [draft EXCEPT ![r] =
                            [rest |-> file.rest, sync |-> Merged(Section(file), b)]]
          \/ stage' = [stage EXCEPT ![r] = "over"] /\ UNCHANGED draft
    BY <1>1 DEF Read
  <2>3. ASSUME file # Garbled
        PROVE  [rest |-> file.rest, sync |-> Merged(Section(file), b)] \in Document
    <3>1. file \in Document
      BY <2>3 DEF TypeOK
    <3>2. Merged(Section(file), b) \in Settings
      BY <3>1, SectionType, MergedType
    <3> QED
      BY <3>1, <3>2 DEF Document
  <2> QED
    BY <1>0, <2>1, <2>2, <2>3 DEF TypeOK
<1>2. CASE Truncate(r)
  BY <1>0, <1>2, EmptyType DEF Truncate, TypeOK, cycleVars
<1>3. CASE Write(r)
  <2>1. file' \in Document \cup {Garbled}
    BY <1>3 DEF Write, TypeOK
  <2> QED
    BY <1>0, <1>3, <2>1 DEF Write, TypeOK, cycleVars
<1>4. CASE Swap(r)
  <2>1. mem' \in Settings
    BY <1>4, SectionType DEF Swap, TypeOK
  <2> QED
    BY <1>0, <1>4, <2>1 DEF Swap, TypeOK, cycleVars
<1>5. CASE FailWrite(r)
  <2>1. file' \in Document \cup {Garbled}
    BY <1>5 DEF FailWrite, TypeOK
  <2>2. faults' \in 0 .. MaxFaults
    BY <1>5, BoundAssumption DEF FailWrite, TypeOK
  <2> QED
    BY <1>0, <1>5, <2>1, <2>2 DEF FailWrite, TypeOK, cycleVars
<1> QED
  BY <1>1, <1>2, <1>3, <1>4, <1>5 DEF Save

\* A cycle past the gate has a project.
HasProject(c) ==
    at[c] \in {"migrate", "regate", "sync"} => held[c].url \in Project

LEMMA CycleType ==
    ASSUME TypeOK, NEW c \in Cycle, HasProject(c), Begin(c) \/ Step(c) \/ FailCall(c)
    PROVE  TypeOK'
<1>0. held[c] \in Settings
  BY DEF TypeOK
<1>1. CASE Begin(c)
  BY <1>1 DEF Begin, Go, TypeOK, saveVars, pastVars
<1>2. CASE Gate(c)
  BY <1>2 DEF Gate, Go, TypeOK, saveVars, pastVars
<1>3. CASE Migrate(c)
  BY <1>3 DEF Migrate, Go, TypeOK, saveVars, pastVars, Schema
<1>4. CASE Regate(c)
  BY <1>4 DEF Regate, Go, TypeOK, saveVars, pastVars
<1>5. CASE SyncRows(c)
  BY <1>5 DEF SyncRows, Go, TypeOK, saveVars, pastVars, HasProject
<1>6. CASE FailCall(c)
  <2>1. faults' \in 0 .. MaxFaults
    BY <1>6, BoundAssumption DEF FailCall, TypeOK
  <2>2. remote' \in [Project -> Schema] /\ touched' \subseteq Project
    BY <1>6 DEF FailCall, TypeOK, HasProject, Schema
  <2> QED
    BY <1>6, <2>1, <2>2 DEF FailCall, Go, TypeOK, saveVars, pastVars
<1> QED
  BY <1>1, <1>2, <1>3, <1>4, <1>5, <1>6 DEF Step

LEMMA RestType ==
    ASSUME TypeOK, Wake \/ Crash \/ Restart
    PROVE  TypeOK'
<1>1. CASE Wake
  BY <1>1 DEF Wake, Go, TypeOK, saveVars, pastVars
<1>2. CASE Crash
  <2>1. crashes' \in 0 .. MaxCrashes
    BY <1>2, BoundAssumption DEF Crash, TypeOK
  <2> QED
    BY <1>2, <2>1, DefaultType DEF Crash, TypeOK
<1>3. CASE Restart
  <2>1. mem' \in Settings
    BY <1>3, SectionType DEF Restart, TypeOK
  <2> QED
    BY <1>3, <2>1 DEF Restart, TypeOK, saveVars, cycleVars
<1> QED
  BY <1>1, <1>2, <1>3

-----------------------------------------------------------------------------
\* The gate

Passed(c) == at[c] = "sync" => remote[held[c].url] = "target"

GInv ==
    /\ TypeOK
    /\ \A c \in Cycle : HasProject(c) /\ Passed(c)
    /\ RowsMeetContract

LEMMA GateInit == Init => GInv
BY InitType DEF Init, GInv, HasProject, Passed, RowsMeetContract

\* A step of one cycle.
LEMMA GateCycle ==
    ASSUME GInv, NEW c \in Cycle, Begin(c) \/ Step(c) \/ FailCall(c)
    PROVE  GInv'
<1>1. TypeOK /\ HasProject(c) /\ Passed(c) /\ held[c] \in Settings
  BY DEF GInv, TypeOK
<1>2. TypeOK'
  BY <1>1, CycleType
<1>3. \A o \in Cycle : o # c => at'[o] = at[o] /\ held'[o] = held[o]
  BY <1>1 DEF Begin, Step, Gate, Migrate, Regate, SyncRows, FailCall, Go, TypeOK
<1>4. \A p \in Project : remote[p] = "target" => remote'[p] = "target"
  BY <1>1 DEF Begin, Step, Gate, Migrate, Regate, SyncRows, FailCall, TypeOK
<1>5. HasProject(c)' /\ Passed(c)'
  <2>1. CASE Begin(c)
    BY <1>1, <2>1 DEF Begin, Go, TypeOK, HasProject, Passed
  <2>2. CASE Gate(c)
    <3>1. held[c].url \in Project \cup {NoUrl}
      BY <1>1 DEF Settings
    <3> QED
      BY <1>1, <2>2, <3>1 DEF Gate, Go, TypeOK, HasProject, Passed, Opens
  <2>3. CASE Migrate(c)
    BY <1>1, <2>3 DEF Migrate, Go, TypeOK, HasProject, Passed
  <2>4. CASE Regate(c)
    BY <1>1, <2>4 DEF Regate, Go, TypeOK, HasProject, Passed
  <2>5. CASE SyncRows(c) \/ FailCall(c)
    BY <1>1, <2>5 DEF SyncRows, FailCall, Go, TypeOK, HasProject, Passed
  <2> QED
    BY <2>1, <2>2, <2>3, <2>4, <2>5 DEF Step
<1>6. ASSUME NEW o \in Cycle PROVE HasProject(o)' /\ Passed(o)'
  <2>1. CASE o = c
    BY <1>5, <2>1
  <2>2. CASE o # c
    <3>1. HasProject(o) /\ Passed(o)
      BY DEF GInv
    <3> QED
      BY <1>3, <1>4, <2>2, <3>1 DEF HasProject, Passed
  <2> QED
    BY <2>1, <2>2
<1>7. RowsMeetContract'
  <2>1. touched' = touched \/ (at[c] = "sync" /\ touched' = touched \cup {held[c].url})
    BY DEF Begin, Step, Gate, Migrate, Regate, SyncRows, FailCall
  <2>2. RowsMeetContract /\ touched \subseteq Project
    BY <1>1 DEF GInv, TypeOK
  <2> QED
    BY <1>1, <1>4, <2>1, <2>2 DEF RowsMeetContract, HasProject, Passed
<1> QED
  BY <1>2, <1>6, <1>7 DEF GInv

\* A step of no cycle.
LEMMA GateRest ==
    ASSUME GInv, TypeOK', UNCHANGED <<remote, touched>>,
           \A c \in Cycle : \/ at'[c] = at[c] /\ held'[c] = held[c]
                            \/ at'[c] \in {"rest", "begin"}
    PROVE  GInv'
<1>1. ASSUME NEW c \in Cycle PROVE HasProject(c)' /\ Passed(c)'
  <2>1. HasProject(c) /\ Passed(c)
    BY DEF GInv
  <2> QED
    BY <2>1 DEF HasProject, Passed
<1>2. RowsMeetContract'
  BY DEF GInv, RowsMeetContract
<1> QED
  BY <1>1, <1>2 DEF GInv

LEMMA GateNext == GInv /\ [Next]_vars => GInv'
<1> SUFFICES ASSUME GInv, [Next]_vars PROVE GInv'
  OBVIOUS
<1>1. TypeOK
  BY DEF GInv
<1>2. CASE UNCHANGED vars
  BY <1>1, <1>2, GateRest DEF vars, TypeOK
<1>3. ASSUME NEW r \in Put, Read(r) \/ Save(r) \/ FailWrite(r) PROVE GInv'
  <2>1. UNCHANGED <<remote, touched, at, held>>
    BY <1>3 DEF Save, Read, Truncate, Write, Swap, FailWrite, cycleVars
  <2> QED
    BY <1>1, <1>3, <2>1, SaveType, GateRest
<1>4. CASE Wake \/ Crash \/ Restart
  <2>1. UNCHANGED <<remote, touched>>
    BY <1>4 DEF Wake, Crash, Restart
  <2>2. ASSUME NEW c \in Cycle
        PROVE  \/ at'[c] = at[c] /\ held'[c] = held[c]
               \/ at'[c] \in {"rest", "begin"}
    BY <1>1, <1>4 DEF Wake, Crash, Restart, Go, TypeOK, cycleVars
  <2> QED
    BY <1>1, <1>4, <2>1, <2>2, RestType, GateRest
<1>5. ASSUME NEW c \in Cycle, Begin(c) \/ Step(c) \/ FailCall(c) PROVE GInv'
  BY <1>5, GateCycle
<1> QED
  BY <1>2, <1>3, <1>4, <1>5 DEF Next

\* Every variable has its type.
THEOREM TypeCorrect == Spec => []TypeOK
<1>1. GInv => TypeOK
  BY DEF GInv
<1> QED
  BY <1>1, GateInit, GateNext, PTL DEF Spec

\* Rows are touched only in a project that has the schema of this program,
\* whatever is saved, killed or migrated by another cycle meanwhile.
THEOREM ContractIsMet == Spec => []RowsMeetContract
<1>1. GInv => RowsMeetContract
  BY DEF GInv
<1> QED
  BY <1>1, GateInit, GateNext, PTL DEF Spec

-----------------------------------------------------------------------------
\* The settings in force

\* No two saves are under way without having met.
Apart ==
    /\ \A r \in mixed : Saving(r)
    /\ \A r, o \in Put : Saving(r) /\ Saving(o) /\ r # o => r \in mixed
    /\ ~up => \A r \in Put : ~Saving(r)

\* A save that has met no other one finds the file as it has left it.
Undisturbed(r) ==
    /\ stage[r] \in {"new", "read"} => ~beaten[r]
    /\ stage[r] = "truncated" /\ r \notin mixed => ~beaten[r]
    /\ stage[r] = "written" /\ r \notin mixed => file = draft[r]

Agree == file # Garbled /\ mem = Section(file)

FInv ==
    /\ TypeOK
    /\ Apart
    /\ \A r \in Put : Undisturbed(r)
    /\ up /\ clean => mixed = {}
    /\ up /\ clean /\ (\A r \in Put : stage[r] \notin {"truncated", "written"}) => Agree

LEMMA ForceInit == Init => FInv
<1> SUFFICES ASSUME Init PROVE FInv
  OBVIOUS
<1>1. file # Garbled
  BY GarbledAssumption, SeedAssumption DEF Init
<1> QED
  BY <1>1, InitType DEF Init, FInv, Apart, Undisturbed, Agree, Saving

\* A step of a save that is not the first one.
LEMMA ForceSave ==
    ASSUME FInv, NEW r \in Put, Save(r) \/ FailWrite(r)
    PROVE  FInv'
<1>1. TypeOK /\ TypeOK' /\ Saving(r) /\ Apart /\ up
  BY SaveType DEF FInv, Apart, Save, Truncate, Write, Swap, FailWrite, Saving
<1>2. up' = up /\ draft' = draft
  BY DEF Save, Truncate, Write, Swap, FailWrite
<1>3. \A o \in Put : o # r => stage'[o] = stage[o] /\ (Saving(o)' <=> Saving(o))
  BY <1>1 DEF Save, Truncate, Write, Swap, FailWrite, TypeOK, Saving
<1>4. \/ mixed' = mixed /\ clean' = clean /\ stage'[r] \in {"truncated", "written"}
      \/ mixed' = mixed \ {r} /\ stage'[r] = "over" /\ (clean' => clean \/ r \notin mixed)
  BY <1>1 DEF Save, Truncate, Write, Swap, FailWrite, TypeOK, pastVars
<1>5. Apart'
  BY <1>1, <1>2, <1>3, <1>4 DEF Apart, Saving, TypeOK
<1>6. ASSUME NEW o \in Put PROVE Undisturbed(o)'
  <2>1. Undisturbed(o) /\ Undisturbed(r)
    BY DEF FInv
  <2>2. CASE o = r
    <3>1. CASE Truncate(r)
      BY <1>1, <2>1, <2>2, <3>1 DEF Truncate, Undisturbed, TypeOK
    <3>2. CASE Write(r)
      <4>1. stage[r] = "truncated" /\ stage'[r] = "written" /\ mixed' = mixed
        BY <1>1, <3>2 DEF Write, TypeOK, pastVars
      <4>2. r \notin mixed => file' = draft[r]
        BY <2>1, <3>2, <4>1 DEF Write, Undisturbed
      <4> QED
        BY <1>2, <2>2, <4>1, <4>2 DEF Undisturbed
    <3>3. CASE Swap(r) \/ FailWrite(r)
      BY <1>1, <2>2, <3>3 DEF Swap, FailWrite, Undisturbed, TypeOK
    <3> QED
      BY <3>1, <3>2, <3>3 DEF Save
  <2>3. CASE o # r
    <3>1. stage'[o] = stage[o] /\ (Saving(o) => o \in mixed /\ o \in mixed')
      BY <1>1, <1>3, <1>4, <2>3 DEF Apart
    <3>2. stage[o] \in {"new", "read"} => beaten'[o] = beaten[o] \/ beaten'[o] = FALSE
      BY <1>1, <2>3 DEF Save, Truncate, Write, Swap, FailWrite, TypeOK
    <3> QED
      BY <2>1, <3>1, <3>2 DEF Undisturbed, Saving
  <2> QED
    BY <2>2, <2>3
<1>7. clean' => mixed' = {}
  <2>1. clean => mixed = {}
    BY <1>1 DEF FInv
  <2>2. r \notin mixed => mixed = {}
    BY <1>1 DEF Apart, TypeOK
  <2> QED
    BY <1>4, <2>1, <2>2
<1>8. ASSUME clean', \A o \in Put : stage'[o] \notin {"truncated", "written"} PROVE Agree'
  <2>1. stage'[r] \notin {"truncated", "written"}
    BY <1>8
  <2>2. Swap(r)
    BY <1>1, <1>8, <2>1 DEF Save, Truncate, Write, FailWrite, TypeOK
  <2>3. /\ stage[r] = "written" /\ file' = file /\ mem' = Section(draft[r])
        /\ clean \/ r \notin mixed
    BY <1>8, <2>2 DEF Swap
  <2>4. file = draft[r]
    BY <1>1, <2>3 DEF FInv, Undisturbed
  <2>5. file # Garbled
    BY <1>1, <2>4, GarbledAssumption DEF TypeOK
  <2> QED
    BY <2>3, <2>4, <2>5 DEF Agree, Section
<1> QED
  BY <1>1, <1>5, <1>6, <1>7, <1>8 DEF FInv

\* The first step of a save.
LEMMA ForceRead ==
    ASSUME FInv, NEW r \in Put, Read(r)
    PROVE  FInv'
<1>1. TypeOK /\ TypeOK' /\ Apart /\ stage[r] = "new" /\ ~Saving(r) /\ up
      /\ UNCHANGED <<file, up, mem, beaten>>
  BY SaveType DEF FInv, Read, Saving
<1>2. \/ stage'[r] = "over" /\ mixed' = mixed /\ clean' = clean
      \/ /\ stage'[r] = "read" /\ (clean' => clean /\ Met = {})
         /\ mixed' = IF Met = {} THEN mixed ELSE mixed \cup Met \cup {r}
  BY <1>1 DEF Read, TypeOK, pastVars
<1>3. \A o \in Put : o # r => stage'[o] = stage[o] /\ draft'[o] = draft[o]
  BY <1>1 DEF Read, TypeOK
<1>4. \A o \in Put : o # r => (Saving(o)' <=> Saving(o))
  BY <1>3 DEF Saving
<1>5. Met = {} => mixed = {} /\ \A o \in Put : ~Saving(o)
  BY <1>1 DEF Met, Apart, TypeOK
<1>6. mixed \subseteq mixed'
  BY <1>2
<1>7. Apart'
  <2>1. CASE stage'[r] = "over" /\ mixed' = mixed
    BY <1>1, <1>4, <2>1 DEF Apart, Saving, TypeOK
  <2>2. CASE stage'[r] = "read" /\ Met = {}
    BY <1>1, <1>2, <1>4, <1>5, <2>2 DEF Apart
  <2>3. CASE stage'[r] = "read" /\ Met # {} /\ mixed' = mixed \cup Met \cup {r}
    <3>1. Saving(r)'
      BY <2>3 DEF Saving
    <3>2. ASSUME NEW o \in mixed' PROVE Saving(o)'
      <4>1. o = r \/ (o \in Put /\ Saving(o))
        BY <1>1, <2>3 DEF Apart, Met, TypeOK
      <4> QED
        BY <1>4, <3>1, <4>1
    <3>3. ASSUME NEW o \in Put, NEW q \in Put, Saving(o)', Saving(q)', o # q
          PROVE  o \in mixed'
      BY <1>4, <2>3, <3>3 DEF Met
    <3> QED
      BY <1>1, <3>2, <3>3 DEF Apart
  <2> QED
    BY <1>2, <2>1, <2>2, <2>3
<1>8. ASSUME NEW o \in Put PROVE Undisturbed(o)'
  <2>1. Undisturbed(o)
    BY DEF FInv
  <2>2. CASE o = r
    BY <1>1, <1>2, <2>1, <2>2 DEF Undisturbed
  <2>3. CASE o # r
    BY <1>1, <1>3, <1>6, <2>1, <2>3 DEF Undisturbed
  <2> QED
    BY <2>2, <2>3
<1>9. clean' => clean /\ mixed' = {}
  BY <1>1, <1>2, <1>5 DEF FInv
<1>10. ASSUME clean', \A o \in Put : stage'[o] \notin {"truncated", "written"} PROVE Agree'
  <2>1. \A o \in Put : stage[o] \notin {"truncated", "written"}
    BY <1>1, <1>3, <1>10
  <2>2. Agree
    BY <1>1, <1>9, <1>10, <2>1 DEF FInv
  <2> QED
    BY <1>1, <2>2 DEF Agree, Section
<1> QED
  BY <1>1, <1>7, <1>8, <1>9, <1>10 DEF FInv

\* A step that is not one of a save.
LEMMA ForceRest ==
    ASSUME FInv, TypeOK', UNCHANGED <<file, draft>>,
           \/ UNCHANGED <<stage, beaten, up, mem, mixed, clean>>
           \/ Crash
           \/ Restart
    PROVE  FInv'
<1>1. CASE UNCHANGED <<stage, beaten, up, mem, mixed, clean>>
  BY <1>1 DEF FInv, Apart, Undisturbed, Agree, Saving, Section
<1>2. CASE Crash
  <2>1. ~up' /\ mixed' = {} /\ \A r \in Put : ~beaten'[r]
    BY <1>2 DEF Crash
  <2>2. \A r \in Put : ~Saving(r)'
    BY <1>2 DEF Crash, Saving
  <2>3. \A r \in Put : Undisturbed(r)'
    BY <2>1, <2>2 DEF Undisturbed, Saving
  <2> QED
    BY <2>1, <2>2, <2>3 DEF FInv, Apart
<1>3. CASE Restart
  <2>1. /\ ~up /\ file # Garbled /\ mem' = Section(file)
        /\ UNCHANGED <<stage, beaten, mixed>>
    BY <1>3 DEF Restart, saveVars
  <2>2. \A r \in Put : ~Saving(r) /\ ~Saving(r)'
    BY <2>1 DEF FInv, Apart, Saving
  <2>3. mixed = {}
    BY <2>2 DEF FInv, Apart, TypeOK
  <2>4. Agree'
    BY <2>1 DEF Agree, Section
  <2>5. \A r \in Put : Undisturbed(r)'
    BY <2>1 DEF FInv, Undisturbed
  <2> QED
    BY <2>1, <2>2, <2>3, <2>4, <2>5 DEF FInv, Apart
<1> QED
  BY <1>1, <1>2, <1>3

LEMMA ForceNext ==
    ASSUME GInv, FInv, [Next]_vars
    PROVE  FInv'
<1>1. TypeOK'
  BY GateNext DEF GInv
<1>2. CASE UNCHANGED vars
  BY <1>1, <1>2, ForceRest DEF vars
<1>3. ASSUME NEW r \in Put, Read(r) \/ Save(r) \/ FailWrite(r) PROVE FInv'
  BY <1>3, ForceSave, ForceRead
<1>4. CASE Wake \/ Crash \/ Restart
  BY <1>1, <1>4, ForceRest DEF Wake, Crash, Restart, saveVars, pastVars
<1>5. ASSUME NEW c \in Cycle, Begin(c) \/ Step(c) \/ FailCall(c) PROVE FInv'
  BY <1>1, <1>5, ForceRest
  DEF Begin, Step, Gate, Migrate, Regate, SyncRows, FailCall, saveVars, pastVars
<1> QED
  BY <1>2, <1>3, <1>4, <1>5 DEF Next

LEMMA ForceIsKept == Spec => [](GInv /\ FInv)
<1>1. GInv /\ FInv /\ [Next]_vars => (GInv /\ FInv)'
  BY GateNext, ForceNext
<1> QED
  BY <1>1, GateInit, ForceInit, PTL DEF Spec

LEMMA ForceInQuiet ==
    ASSUME FInv, Quiet, clean
    PROVE  Agree
BY DEF FInv, Quiet, Saving

\* Between saves the service runs by what the file says, however many saves there
\* have been, alone or at once, and wherever the server has been killed: from a
\* start, or a save that has met no other one, up to the next write that fails or
\* the next saves that meet.
THEOREM SavedIsInForce == Spec => []FileIsInForce
<1>1. FInv => FileIsInForce
  BY ForceInQuiet DEF FileIsInForce, Agree
<1> QED
  BY <1>1, ForceIsKept, PTL

\* Then a cycle begins with the settings that were saved last.
THEOREM CyclesUseWhatWasSaved == Spec => CyclesUseSavedSettings
<1> DEFINE Used ==
      \A c \in Cycle : at[c] # "gate" /\ at'[c] = "gate" /\ Quiet /\ clean =>
        held'[c] = Section(file)
<1>1. GInv /\ FInv /\ [Next]_vars => [Used]_vars
  <2> SUFFICES ASSUME GInv, FInv, Next, NEW c \in Cycle,
                      at[c] # "gate", at'[c] = "gate", Quiet, clean
               PROVE  held'[c] = Section(file)
    BY DEF Used
  <2>1. TypeOK /\ mem = Section(file)
    BY ForceInQuiet DEF FInv, Agree
  <2>2. CASE Wake \/ Crash \/ Restart
    BY <2>1, <2>2 DEF Wake, Crash, Restart, Go, TypeOK, cycleVars
  <2>3. ASSUME NEW r \in Put, Read(r) \/ Save(r) \/ FailWrite(r) PROVE FALSE
    BY <2>3 DEF Save, Read, Truncate, Write, Swap, FailWrite, cycleVars
  <2>4. ASSUME NEW o \in Cycle, Step(o) \/ FailCall(o) PROVE FALSE
    BY <2>1, <2>4 DEF Step, Gate, Migrate, Regate, SyncRows, FailCall, Go, TypeOK
  <2>5. ASSUME NEW o \in Cycle, Begin(o) PROVE held'[c] = Section(file)
    BY <2>1, <2>5 DEF Begin, Go, TypeOK
  <2> QED
    BY <2>2, <2>3, <2>4, <2>5 DEF Next
<1> QED
  BY <1>1, ForceIsKept, PTL DEF Spec, CyclesUseSavedSettings
=============================================================================
