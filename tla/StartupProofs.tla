--------------------------- MODULE StartupProofs ---------------------------
(***************************************************************************)
(* Theorems about Startup, for every number of processes, every set of     *)
(* commands they are started for, every older database and every number of *)
(* kills.                                                                  *)
(*                                                                         *)
(* A database only grows: parts and versions are added, by whatever        *)
(* process, and never taken away.  What a process has seen of it therefore *)
(* stays true while other processes go on, and the invariant is what each  *)
(* process knows at each of its places.                                    *)
(***************************************************************************)
EXTENDS Startup, TLAPS

Grows(d, e) ==
    /\ d.has \subseteq e.has
    /\ d.versions \subseteq e.versions
    /\ d.meta => e.meta

\* Below version k everything has been registered or shown to be there.
Upto(d, k) == d.meta /\ 2 .. (k - 1) \subseteq d.versions

\* What process p knows of its database.
Knows(p) ==
    /\ pc[p] \in {"idle", "look", "lookConfig", "lookAgain", "ask", "load", "open", "meta", "base",
                 "boot"} => level[p] = 1
    /\ pc[p] = "boot" => "base" \in The(p).has
    /\ pc[p] \in {"bootRecord", "bootLook"} => The(p).meta
    /\ pc[p] = "bootRecord" => Shown(The(p), level[p])
    /\ pc[p] = "check" => level[p] >= 2
    /\ pc[p] \in {"check", "record"} => Upto(The(p), level[p])
    /\ pc[p] = "record" => Adds(level[p]) \subseteq The(p).has
    /\ pc[p] = "script" => level[p] = 1 \/ Upto(The(p), level[p])
    /\ pc[p] \in {"legacy", "fixed", "renumber", "bind", "serving"} => Upto(The(p), 6)

IInv ==
    /\ TypeOK
    /\ \A q \in Path : Sound(db[q])
    /\ \A p \in Proc : Knows(p)

-----------------------------------------------------------------------------
\* Databases

LEMMA IsDatabase ==
    ASSUME NEW d \in Database
    PROVE  d = [made |-> d.made, has |-> d.has, meta |-> d.meta, versions |-> d.versions,
                spaces |-> d.spaces, notes |-> d.notes]
BY DEF Database

LEMMA NoDatabaseIsSound == NoDatabase \in Database /\ Sound(NoDatabase)
BY DEF NoDatabase, Database, Sound

LEMMA MadeIsSound ==
    ASSUME NEW d \in Database, Sound(d)
    PROVE  LET e == [d EXCEPT !.made = TRUE]
           IN e \in Database /\ Sound(e) /\ Grows(d, e)
BY DEF Database, Sound, Grows

LEMMA MetaIsSound ==
    ASSUME NEW d \in Database, Sound(d), "base" \in d.has
    PROVE  LET e == [d EXCEPT !.meta = TRUE]
           IN e \in Database /\ Sound(e) /\ Grows(d, e) /\ e.meta
BY DEF Database, Sound, Grows

LEMMA RegisterIsSound ==
    ASSUME NEW d \in Database, Sound(d), NEW k \in Version, Adds(k) \subseteq d.has
    PROVE  /\ Register(d, k) \in Database
           /\ Sound(Register(d, k))
           /\ Grows(d, Register(d, k))
           /\ Register(d, k).versions = d.versions \cup {k}
           /\ Register(d, k).meta = d.meta
BY DEF Database, Sound, Grows, Register

LEMMA AddFixedIsSound ==
    ASSUME NEW d \in Database, Sound(d)
    PROVE  /\ AddFixed(d) \in Database
           /\ Sound(AddFixed(d))
           /\ Grows(d, AddFixed(d))
           /\ AddFixed(d).has = d.has
           /\ AddFixed(d).meta = d.meta
           /\ AddFixed(d).versions = d.versions
<1> DEFINE s == IF \E w \in d.spaces : w.id = Fixed
                THEN d.spaces ELSE d.spaces \cup {FixedWorkspace}
<1>1. FixedWorkspace \in Workspace
  BY DEF FixedWorkspace, Workspace
<1>2. s \in SUBSET Workspace
  BY <1>1 DEF Database
<1>3. AddFixed(d) = [d EXCEPT !.spaces = s]
  BY DEF AddFixed
<1> QED
  BY <1>2, <1>3 DEF Database, Sound, Grows

LEMMA ScriptIsSound ==
    ASSUME NEW d \in Database, Sound(d), NEW k \in Version, k # 1 => d.meta
    PROVE  /\ Scripted(d, k) \in Database
           /\ Sound(Scripted(d, k))
           /\ Grows(d, Scripted(d, k))
           /\ Scripted(d, k).versions = d.versions \cup {k}
           /\ Scripted(d, k).meta
<1> DEFINE e == [d EXCEPT !.has = @ \cup Adds(k), !.meta = TRUE]
           with == Register(e, k)
<1>1. Adds(k) \subseteq Part
  <2>1. k \in {1, 2, 3, 4, 5}
    BY DEF Version
  <2> QED
    BY <2>1 DEF Adds, Part
<1>2. e \in Database /\ Sound(e) /\ Grows(d, e) /\ e.meta /\ e.versions = d.versions
  <2>1. k = 1 => "base" \in Adds(k)
    BY DEF Adds
  <2> QED
    BY <1>1, <2>1 DEF Database, Sound, Grows
<1>3. /\ with \in Database /\ Sound(with) /\ Grows(e, with) /\ with.meta
      /\ with.versions = d.versions \cup {k}
  <2>1. Adds(k) \subseteq e.has
    BY DEF Database
  <2> QED
    BY <1>2, <2>1, RegisterIsSound
<1>4. Grows(d, with)
  BY <1>2, <1>3 DEF Grows
<1>5. CASE k # 3
  BY <1>3, <1>4, <1>5 DEF Scripted
<1>6. CASE k = 3
  <2> DEFINE f == AddFixed(with)
             g == [f EXCEPT !.notes = IF @ = NoSpace THEN Fixed ELSE @]
  <2>1. /\ f \in Database /\ Sound(f) /\ Grows(with, f) /\ f.meta
        /\ f.versions = d.versions \cup {k}
    BY <1>3, AddFixedIsSound
  <2>2. g \in Database /\ Sound(g) /\ Grows(f, g) /\ g.meta /\ g.versions = f.versions
    BY <2>1 DEF Database, Sound, Grows
  <2>3. Grows(d, g)
    BY <1>4, <2>1, <2>2 DEF Grows
  <2>4. Scripted(d, k) = g
    BY <1>6 DEF Scripted
  <2> QED
    BY <2>1, <2>2, <2>3, <2>4
<1> QED
  BY <1>5, <1>6

LEMMA RenumberedIsSound ==
    ASSUME NEW d \in Database, Sound(d), Unused(d) # {}
    PROVE  LET e == Renumbered(d)
           IN e \in Database /\ Sound(e) /\ Grows(d, e)
<1> DEFINE fresh == CHOOSE u \in Unused(d) : TRUE
           s == {IF w.id = Fixed THEN [w EXCEPT !.id = fresh] ELSE w : w \in d.spaces}
<1>1. fresh \in Uuid
  BY DEF Unused
<1>2. s \in SUBSET Workspace
  BY <1>1 DEF Database, Workspace
<1>3. Renumbered(d) = [d EXCEPT !.spaces = s]
  BY DEF Renumbered
<1> QED
  BY <1>2, <1>3 DEF Database, Sound, Grows

-----------------------------------------------------------------------------
\* Steps

\* A step of p that leaves the other processes where they are.
Others(p) ==
    \A o \in Proc \ {p} : pc'[o] = pc[o] /\ level'[o] = level[o] /\ path'[o] = path[o]

Databases ==
    /\ db' \in [Path -> Database]
    /\ \A q \in Path : Sound(db'[q]) /\ Grows(db[q], db'[q])

\* What has to be shown of a step of p.
Good(p) == TypeOK' /\ Databases /\ Knows(p)' /\ Others(p)

\* What a process knows stays true while databases grow.
LEMMA OthersKnow ==
    ASSUME IInv, NEW p \in Proc, Databases, Others(p), NEW o \in Proc, o # p
    PROVE  Knows(o)'
<1>1. /\ pc'[o] = pc[o] /\ level'[o] = level[o] /\ path'[o] = path[o]
      /\ path[o] \in Path
  BY DEF Others, IInv, TypeOK
<1>2. Grows(The(o), The(o)')
  BY <1>1 DEF Databases, The
<1>3. Knows(o)
  BY DEF IInv
<1> HIDE DEF IInv
<1> QED
  BY <1>1, <1>2, <1>3 DEF Knows, Grows, Upto, Shown

LEMMA GoodIsEnough ==
    ASSUME IInv, NEW p \in Proc, Good(p)
    PROVE  IInv'
<1>1. ASSUME NEW o \in Proc PROVE Knows(o)'
  <2>1. CASE o = p
    BY <2>1 DEF Good
  <2>2. CASE o # p
    BY <2>2, OthersKnow DEF Good
  <2> QED
    BY <2>1, <2>2
<1>2. \A q \in Path : Sound(db[q])'
  BY DEF Good, Databases
<1> QED
  BY <1>1, <1>2 DEF Good, IInv

LEMMA SameDatabases ==
    ASSUME IInv, UNCHANGED db
    PROVE  Databases
BY DEF IInv, TypeOK, Databases, Grows

LEMMA OneDatabase ==
    ASSUME IInv, NEW p \in Proc, NEW d \in Database, Sound(d), Grows(The(p), d),
           db' = [db EXCEPT ![path[p]] = d]
    PROVE  Databases /\ db'[path[p]] = d
<1>1. db \in [Path -> Database] /\ path[p] \in Path
  BY DEF IInv, TypeOK
<1>2. \A q \in Path : db'[q] = IF q = path[p] THEN d ELSE db[q]
  BY <1>1
<1>3. \A q \in Path : Sound(db[q])
  BY DEF IInv
<1> QED
  BY <1>1, <1>2, <1>3 DEF Databases, Grows, The

\* A command that is over knows nothing.
LEMMA EndIsGood ==
    ASSUME IInv, NEW p \in Proc, End(p), Databases, UNCHANGED <<config, unit>>,
           crashes' \in 0 .. MaxCrashes
    PROVE  Good(p)
<1>1. TypeOK
  BY DEF IInv
<1>2. pc'[p] = "idle" /\ level'[p] = 1
  BY <1>1 DEF End, Goto, TypeOK
<1>3. TypeOK'
  <2>1. "init" \in Command /\ "idle" \in Label /\ HomeDb \in Path /\ 1 \in Version
    BY DEF Command, Label, Path, Version
  <2> QED
    BY <1>1, <2>1 DEF TypeOK, End, Goto, Databases
<1>4. Others(p)
  BY <1>1 DEF TypeOK, End, Goto, Others
<1> QED
  BY <1>2, <1>3, <1>4 DEF Good, Knows

\* A step of connect.
LEMMA ConnectIsGood ==
    ASSUME IInv, NEW p \in Proc, Databases, NEW l \in Label, NEW k \in Version,
           Goto(p, l), level' = [level EXCEPT ![p] = k],
           UNCHANGED <<config, unit, cmd, force, path, name, crashes>>
    PROVE  /\ TypeOK' /\ Others(p)
           /\ pc'[p] = l /\ level'[p] = k /\ path'[p] = path[p]
           /\ The(p)' = db'[path[p]]
<1>1. TypeOK
  BY DEF IInv
<1> HIDE DEF IInv
<1>2. TypeOK'
  BY <1>1 DEF TypeOK, Goto, Databases
<1> QED
  BY <1>1, <1>2 DEF TypeOK, Goto, Others, The

\* The same for a step that stays at its version.
LEMMA SameLevel ==
    ASSUME IInv, NEW p \in Proc, UNCHANGED level
    PROVE  level[p] \in Version /\ level' = [level EXCEPT ![p] = level[p]]
BY DEF IInv, TypeOK

-----------------------------------------------------------------------------
\* The actions of a process

LEMMA CommandsAreGood ==
    ASSUME IInv, NEW p \in Proc
    PROVE  /\ \A c \in Command : Start(p, c) => Good(p)
           /\ ReadName(p) \/ RefuseName(p) \/ Load(p) => Good(p)
<1> USE DEF fileVars
<1>1. TypeOK /\ IInv
  BY DEF IInv
<1> HIDE DEF IInv
<1>2. ASSUME NEW c \in Command, Start(p, c) PROVE Good(p)
  <2>1. Databases
    BY <1>1, <1>2, SameDatabases DEF Start
  <2>2. pc'[p] \in {"look", "load", "config"} /\ level'[p] = 1
    BY <1>1, <1>2 DEF Start, Goto, TypeOK, IInv, Knows
  <2>3. TypeOK'
    <3>1. ServiceDb \in Path /\ HomeDb \in Path /\ {"look", "load", "config"} \subseteq Label
      BY DEF Path, Label
    <3> QED
      BY <1>1, <1>2, <2>1, <3>1 DEF Start, Goto, TypeOK, Databases
  <2>4. Others(p)
    BY <1>1, <1>2 DEF Start, Goto, TypeOK, Others
  <2> QED
    BY <2>1, <2>2, <2>3, <2>4 DEF Good, Knows
<1>4. ASSUME ReadName(p) PROVE Good(p)
  <2>1. Databases
    BY <1>1, <1>4, SameDatabases DEF ReadName
  <2>2. pc'[p] = "open" /\ level'[p] = 1
    BY <1>1, <1>4 DEF ReadName, Goto, TypeOK, IInv, Knows
  <2>3. TypeOK'
    BY <1>1, <1>4, <2>1, TypedAssumption DEF ReadName, Goto, TypeOK, Databases, Label
  <2>4. Others(p)
    BY <1>1, <1>4 DEF ReadName, Goto, TypeOK, Others
  <2> QED
    BY <2>1, <2>2, <2>3, <2>4 DEF Good, Knows
<1>5. ASSUME RefuseName(p) PROVE Good(p)
  BY <1>1, <1>5, SameDatabases, EndIsGood DEF RefuseName, TypeOK
<1>6. ASSUME Load(p) PROVE Good(p)
  <2>1. Databases
    BY <1>1, <1>6, SameDatabases DEF Load, End
  <2>2. CASE End(p) /\ UNCHANGED <<fileVars, crashes>>
    BY <1>1, <2>1, <2>2, EndIsGood DEF TypeOK
  <2>3. CASE /\ path' = [path EXCEPT ![p] = IF config \in Path THEN config ELSE FallbackDb]
             /\ Goto(p, "open")
             /\ UNCHANGED <<fileVars, cmd, force, level, name, crashes>>
    <3>1. pc'[p] = "open" /\ level'[p] = 1
      BY <1>1, <1>6, <2>3 DEF Load, Goto, TypeOK, IInv, Knows
    <3>2. TypeOK'
      <4>1. FallbackDb \in Path /\ "open" \in Label
        BY DEF Path, Label
      <4> QED
        BY <1>1, <2>1, <2>3, <4>1 DEF Goto, TypeOK, Databases
    <3>3. Others(p)
      BY <1>1, <2>3 DEF Goto, TypeOK, Others
    <3> QED
      BY <2>1, <3>1, <3>2, <3>3 DEF Good, Knows
  <2> QED
    BY <1>6, <2>2, <2>3 DEF Load
<1> QED
  BY <1>2, <1>4, <1>5, <1>6

\* What is known of the database a process works on.
LEMMA Here ==
    ASSUME IInv, NEW p \in Proc
    PROVE  /\ path[p] \in Path /\ The(p) \in Database /\ Sound(The(p)) /\ Knows(p)
           /\ level[p] \in Version /\ pc[p] \in Label /\ TypeOK
           /\ \A l : Goto(p, l) => pc'[p] = l
BY DEF IInv, TypeOK, The, Goto

\* The looks of `init` at the two files.
LEMMA LooksAreGood ==
    ASSUME IInv, NEW p \in Proc
    PROVE  Look(p) \/ LookConfig(p) \/ LookAgain(p) => Good(p)
<1>1. /\ level[p] \in Version /\ Knows(p) /\ TypeOK
      /\ {"lookConfig", "lookAgain", "open", "ask"} \subseteq Label
  BY Here DEF Label
<1>2. ASSUME pc[p] \in {"look", "lookConfig", "lookAgain"}, UNCHANGED <<db, level>>, Unchanged,
             NEW l \in {"lookConfig", "lookAgain", "open", "ask"}, Goto(p, l)
      PROVE  Good(p)
  <2>1. Databases /\ level[p] = 1
    BY <1>1, <1>2, SameDatabases DEF Knows
  <2>2. TypeOK' /\ Others(p) /\ pc'[p] = l /\ level'[p] = 1
    BY <1>1, <1>2, <2>1, SameLevel, ConnectIsGood DEF Unchanged
  <2> QED
    BY <2>1, <2>2 DEF Good, Knows
<1>3. ASSUME LookConfig(p), End(p), UNCHANGED <<fileVars, crashes>> PROVE Good(p)
  BY <1>1, <1>3, SameDatabases, EndIsGood DEF fileVars, TypeOK
<1> QED
  BY <1>2, <1>3 DEF Look, LookConfig, LookAgain

\* Open, and the way from there to the first version.
LEMMA OpeningIsGood ==
    ASSUME IInv, NEW p \in Proc
    PROVE  Open(p) \/ LookForMeta(p) \/ LookForNotes(p) \/ CreateMeta(p) => Good(p)
<1> DEFINE d == The(p)
<1>1. /\ path[p] \in Path /\ d \in Database /\ Sound(d) /\ Knows(p)
      /\ level[p] \in Version
  BY Here
<1>2. ASSUME Open(p) PROVE Good(p)
  <2> DEFINE e == [d EXCEPT !.made = TRUE]
  <2>1. e \in Database /\ Sound(e) /\ Grows(d, e)
    BY <1>1, MadeIsSound
  <2>2. Databases
    BY <1>2, <2>1, OneDatabase DEF Open, Change
  <2>3. TypeOK' /\ Others(p) /\ pc'[p] = "meta" /\ level'[p] = level[p]
    BY <1>1, <1>2, <2>2, SameLevel, ConnectIsGood DEF Open, Change, Unchanged, Label
  <2> QED
    BY <1>1, <1>2, <2>2, <2>3 DEF Good, Knows, Open
<1>3. ASSUME LookForMeta(p) PROVE Good(p)
  <2>1. Databases
    BY <1>3, SameDatabases DEF LookForMeta
  <2>2. CASE d.meta /\ Goto(p, "check") /\ level' = [level EXCEPT ![p] = 2]
    <3>1. /\ TypeOK' /\ Others(p) /\ pc'[p] = "check" /\ level'[p] = 2
          /\ The(p)' = db'[path[p]]
      <4>1. "check" \in Label /\ 2 \in Version
        BY DEF Label, Version
      <4>2. UNCHANGED <<config, unit, cmd, force, path, name, crashes>>
        BY <1>3 DEF LookForMeta, Unchanged
      <4> QED
        BY <2>1, <2>2, <4>1, <4>2, ConnectIsGood
    <3>2. The(p)' = d
      BY <1>3, <3>1 DEF LookForMeta, The
    <3> QED
      BY <2>1, <2>2, <3>1, <3>2 DEF Good, Knows, Upto
  <2>3. CASE ~d.meta /\ Goto(p, "base") /\ UNCHANGED level
    <3>1. pc[p] = "meta"
      BY <1>3 DEF LookForMeta
    <3>2. /\ TypeOK' /\ Others(p) /\ pc'[p] = "base" /\ The(p)' = db'[path[p]]
          /\ level'[p] = level[p]
      BY <1>1, <1>3, <2>1, <2>3, SameLevel, ConnectIsGood DEF LookForMeta, Unchanged, Label
    <3> QED
      BY <1>1, <2>1, <3>1, <3>2 DEF Good, Knows
  <2> QED
    BY <1>3, <2>2, <2>3 DEF LookForMeta
<1>7. ASSUME LookForNotes(p) PROVE Good(p)
  <2>1. Databases /\ pc[p] = "base" /\ UNCHANGED level
    BY <1>7, SameDatabases DEF LookForNotes
  <2>2. PICK l \in {"boot", "script"} :
          Goto(p, l) /\ (l = "boot" => "base" \in d.has)
    BY <1>7 DEF LookForNotes
  <2>3. /\ TypeOK' /\ Others(p) /\ pc'[p] = l /\ The(p)' = db'[path[p]]
        /\ level'[p] = level[p]
    BY <1>1, <1>7, <2>1, <2>2, SameLevel, ConnectIsGood DEF LookForNotes, Unchanged, Label
  <2>4. The(p)' = d
    BY <1>7, <2>3 DEF LookForNotes, The
  <2> QED
    BY <1>1, <2>1, <2>2, <2>3, <2>4 DEF Good, Knows
<1>4. ASSUME CreateMeta(p) PROVE Good(p)
  <2> DEFINE e == [d EXCEPT !.meta = TRUE]
  <2>1. "base" \in d.has
    BY <1>1, <1>4 DEF CreateMeta, Knows
  <2>2. e \in Database /\ Sound(e) /\ Grows(d, e) /\ e.meta
    BY <1>1, <2>1, MetaIsSound
  <2>3. Databases /\ db'[path[p]] = e
    BY <1>4, <2>2, OneDatabase DEF CreateMeta, Change
  <2>4. /\ TypeOK' /\ Others(p) /\ pc'[p] = "bootRecord" /\ The(p)' = e
        /\ level'[p] = level[p]
    BY <1>1, <1>4, <2>3, SameLevel, ConnectIsGood DEF CreateMeta, Change, Unchanged, Label
  <2> QED
    <3>1. level[p] = 1 /\ Adds(1) = {"base"}
      BY <1>1, <1>4 DEF Knows, CreateMeta, Adds
    <3>2. Shown(e, 1)
      BY <1>1, <2>1, <3>1 DEF Shown, Database
    <3> QED
      BY <1>1, <2>2, <2>3, <2>4, <3>1, <3>2 DEF Good, Knows
<1> QED
  BY <1>2, <1>3, <1>4, <1>7

\* On to the next version.
LEMMA OnwardIsGood ==
    ASSUME IInv, NEW p \in Proc, Databases, NEW l \in Label, NEW last \in Label,
           Onward(p, l, last), UNCHANGED <<config, unit, cmd, force, path, name, crashes>>
    PROVE  /\ TypeOK' /\ Others(p)
           /\ The(p)' = db'[path[p]]
           /\ \/ level[p] < 5 /\ pc'[p] = l /\ level'[p] = level[p] + 1
              \/ level[p] = 5 /\ pc'[p] = last /\ level'[p] = 2
<1>1. level[p] \in Version
  BY Here
<1>2. ASSUME NEW k \in Version, NEW m \in Label, Goto(p, m),
             level' = [level EXCEPT ![p] = k]
      PROVE  /\ TypeOK' /\ Others(p) /\ The(p)' = db'[path[p]]
             /\ pc'[p] = m /\ level'[p] = k
  BY <1>2, ConnectIsGood
<1>3. CASE level[p] < 5
  <2>1. level[p] + 1 \in Version
    BY <1>1, <1>3 DEF Version
  <2>2. Goto(p, l) /\ level' = [level EXCEPT ![p] = level[p] + 1]
    BY <1>3 DEF Onward
  <2> QED
    BY <1>2, <1>3, <2>1, <2>2
<1>4. CASE ~(level[p] < 5)
  <2>1. level[p] = 5 /\ 2 \in Version
    BY <1>1, <1>4 DEF Version
  <2>2. Goto(p, last) /\ level' = [level EXCEPT ![p] = 2]
    BY <1>4 DEF Onward
  <2> QED
    BY <1>2, <2>1, <2>2
<1> QED
  BY <1>3, <1>4

LEMMA UptoNext ==
    ASSUME NEW d, NEW e, NEW k \in Version, k >= 2, Upto(d, k), Grows(d, e),
           k \in e.versions
    PROVE  Upto(e, k + 1)
<1>1. 2 .. (k + 1 - 1) = (2 .. (k - 1)) \cup {k}
  BY DEF Version
<1> QED
  BY <1>1 DEF Upto, Grows

LEMMA UptoTwo ==
    ASSUME NEW d, d.meta
    PROVE  Upto(d, 2)
BY DEF Upto

\* bootstrap_schema_migrations
LEMMA BootIsGood ==
    ASSUME IInv, NEW p \in Proc
    PROVE  BootRecord(p) \/ BootLook(p) => Good(p)
<1> DEFINE d == The(p)
           e == Register(d, level[p])
<1>1. /\ path[p] \in Path /\ d \in Database /\ Sound(d) /\ Knows(p)
      /\ level[p] \in Version
      /\ {"check", "bootLook", "bootRecord"} \subseteq Label
  BY Here DEF Label
<1>2. ASSUME Databases, db'[path[p]].meta, Onward(p, "bootLook", "check"),
             UNCHANGED <<config, unit, cmd, force, path, name, crashes>>
      PROVE  Good(p)
  <2>1. /\ TypeOK' /\ Others(p)
        /\ The(p)' = db'[path[p]]
        /\ \/ level[p] < 5 /\ pc'[p] = "bootLook" /\ level'[p] = level[p] + 1
           \/ level[p] = 5 /\ pc'[p] = "check" /\ level'[p] = 2
    BY <1>1, <1>2, OnwardIsGood
  <2>2. Upto(The(p)', 2)
    BY <1>2, <2>1, UptoTwo
  <2> QED
    BY <1>2, <2>1, <2>2 DEF Good, Knows
<1>3. ASSUME BootRecord(p) PROVE Good(p)
  <2>1. Adds(level[p]) \subseteq d.has /\ d.meta
    <3>1. Adds(5) = {}
      BY DEF Adds
    <3> QED
      BY <1>1, <1>3, <3>1 DEF BootRecord, Knows, Shown
  <2>2. e \in Database /\ Sound(e) /\ Grows(d, e) /\ e.meta
    BY <1>1, <2>1, RegisterIsSound
  <2>3. db' = [db EXCEPT ![path[p]] = e]
    BY <1>3 DEF BootRecord, The
  <2>4. Databases /\ db'[path[p]] = e
    BY <2>2, <2>3, OneDatabase
  <2> QED
    BY <1>2, <1>3, <2>2, <2>4 DEF BootRecord, Unchanged
<1>4. ASSUME BootLook(p) PROVE Good(p)
  <2>1. d.meta
    BY <1>1, <1>4 DEF BootLook, Knows
  <2>2. CASE Shown(d, level[p])
    <3> DEFINE f == IF level[p] = 3 THEN AddFixed(d) ELSE d
    <3>1. f \in Database /\ Sound(f) /\ Grows(d, f) /\ f.meta /\ f.has = d.has
      BY <1>1, <2>1, AddFixedIsSound DEF Grows
    <3>2. Change(p, f, "bootRecord") /\ UNCHANGED level /\ Unchanged
      BY <1>4, <2>2 DEF BootLook
    <3>3. Databases /\ db'[path[p]] = f
      BY <3>1, <3>2, OneDatabase DEF Change
    <3>4. Goto(p, "bootRecord") /\ UNCHANGED <<config, unit, cmd, force, path, name, crashes>>
      BY <3>2 DEF Change, Unchanged
    <3>5. /\ TypeOK' /\ Others(p) /\ pc'[p] = "bootRecord" /\ level'[p] = level[p]
          /\ The(p)' = f
      BY <1>1, <3>2, <3>3, <3>4, SameLevel, ConnectIsGood
    <3>6. Shown(f, level[p])
      BY <2>2, <3>1 DEF Shown
    <3> HIDE DEF f
    <3> QED
      BY <3>1, <3>3, <3>5, <3>6 DEF Good, Knows
  <2>3. CASE ~Shown(d, level[p])
    <3>1. Onward(p, "bootLook", "check") /\ UNCHANGED db /\ Unchanged
      BY <1>4, <2>3 DEF BootLook
    <3>2. Databases /\ db'[path[p]].meta
      BY <2>1, <3>1, SameDatabases DEF The
    <3> QED
      BY <1>2, <3>1, <3>2 DEF Unchanged
  <2> QED
    BY <2>2, <2>3
<1> QED
  BY <1>3, <1>4

\* The rest of migrate.
LEMMA MigrateIsGood ==
    ASSUME IInv, NEW p \in Proc
    PROVE  CheckVersion(p) \/ Record(p) \/ RunScript(p) \/ FailScript(p) => Good(p)
<1> DEFINE d == The(p)
           k == level[p]
<1>1. /\ path[p] \in Path /\ d \in Database /\ Sound(d) /\ Knows(p)
      /\ k \in Version /\ TypeOK
      /\ {"check", "legacy", "record", "script"} \subseteq Label
  BY Here DEF Label
<1>2. ASSUME Databases, Onward(p, "check", "legacy"), NEW e, db'[path[p]] = e,
             Grows(d, e), e.meta, k \in e.versions, k = 1 \/ Upto(d, k),
             UNCHANGED <<config, unit, cmd, force, path, name, crashes>>
      PROVE  Good(p)
  <2>1. /\ TypeOK' /\ Others(p)
        /\ The(p)' = e
        /\ \/ k < 5 /\ pc'[p] = "check" /\ level'[p] = k + 1
           \/ k = 5 /\ pc'[p] = "legacy" /\ level'[p] = 2
    BY <1>1, <1>2, OnwardIsGood
  <2>2. Upto(e, k + 1)
    <3>1. CASE k = 1
      BY <1>2, <3>1, UptoTwo
    <3>2. CASE k # 1
      <4>1. k >= 2
        BY <1>1, <3>2 DEF Version
      <4> QED
        BY <1>1, <1>2, <3>2, <4>1, UptoNext
    <3> QED
      BY <3>1, <3>2
  <2>3. k + 1 >= 2
    BY <1>1 DEF Version
  <2> QED
    BY <1>2, <2>1, <2>2, <2>3 DEF Good, Knows
<1>3. ASSUME CheckVersion(p) PROVE Good(p)
  <2>1. Databases /\ db'[path[p]] = d /\ Grows(d, d)
    BY <1>3, SameDatabases DEF CheckVersion, The, Grows
  <2>2. k >= 2 /\ Upto(d, k) /\ d.meta
    BY <1>1, <1>3 DEF CheckVersion, Knows, Upto
  <2>3. UNCHANGED <<config, unit, cmd, force, path, name, crashes>>
    BY <1>3 DEF CheckVersion, Unchanged
  <2>4. CASE k \in d.versions /\ Onward(p, "check", "legacy")
    BY <1>2, <2>1, <2>2, <2>3, <2>4
  <2>5. ASSUME k \notin d.versions, UNCHANGED level, NEW l \in {"record", "script"},
               Goto(p, l), l = "record" => Adds(k) \subseteq d.has
        PROVE  Good(p)
    <3>1. /\ TypeOK' /\ Others(p) /\ pc'[p] = l /\ level'[p] = k
          /\ The(p)' = d
      BY <1>1, <2>1, <2>3, <2>5, SameLevel, ConnectIsGood
    <3> QED
      BY <2>1, <2>2, <2>5, <3>1 DEF Good, Knows
  <2> QED
    BY <1>3, <2>4, <2>5 DEF CheckVersion
<1>4. ASSUME Record(p) PROVE Good(p)
  <2> DEFINE e == Register(d, k)
  <2>1. Adds(k) \subseteq d.has /\ Upto(d, k) /\ d.meta
    BY <1>1, <1>4 DEF Record, Knows, Upto
  <2>2. e \in Database /\ Sound(e) /\ Grows(d, e) /\ e.meta /\ k \in e.versions
    BY <1>1, <2>1, RegisterIsSound
  <2>3. db' = [db EXCEPT ![path[p]] = e]
    BY <1>4 DEF Record, The
  <2>4. Databases /\ db'[path[p]] = e
    BY <2>2, <2>3, OneDatabase
  <2> QED
    BY <1>2, <1>4, <2>1, <2>2, <2>4 DEF Record, Unchanged
<1>5. ASSUME RunScript(p) PROVE Good(p)
  <2> DEFINE e == Scripted(d, k)
  <2>1. k = 1 \/ Upto(d, k)
    BY <1>1, <1>5 DEF RunScript, Knows
  <2>2. e \in Database /\ Sound(e) /\ Grows(d, e) /\ e.meta /\ k \in e.versions
    BY <1>1, <2>1, ScriptIsSound DEF Upto
  <2>3. db' = [db EXCEPT ![path[p]] = e]
    BY <1>5 DEF RunScript, The
  <2>4. Databases /\ db'[path[p]] = e
    BY <2>2, <2>3, OneDatabase
  <2> QED
    BY <1>2, <1>5, <2>1, <2>2, <2>4 DEF RunScript, Unchanged
<1>6. ASSUME FailScript(p) PROVE Good(p)
  BY <1>1, <1>6, SameDatabases, EndIsGood DEF FailScript, fileVars, TypeOK
<1> QED
  BY <1>3, <1>4, <1>5, <1>6

\* After migrate: the legacy workspace, the name and the port.
LEMMA ConnectedIsGood ==
    ASSUME IInv, NEW p \in Proc
    PROVE  LegacyCheck(p) \/ LookForFixed(p) \/ Renumber(p) \/ AssignName(p) \/ Bind(p)
             => Good(p)
<1> DEFINE d == The(p)
<1>1. /\ path[p] \in Path /\ d \in Database /\ Sound(d) /\ Knows(p)
      /\ level[p] \in Version /\ TypeOK
      /\ {"fixed", "renumber", "bind", "name", "config", "serving"} \subseteq Label
  BY Here DEF Label
<1>2. ASSUME Databases, NEW l \in {"fixed", "renumber", "bind", "name", "config", "serving"},
             Goto(p, l), UNCHANGED <<level, config, unit, cmd, force, path, name, crashes>>,
             NEW e, db'[path[p]] = e, Grows(d, e),
             l \in {"fixed", "renumber", "bind", "serving"} => Upto(d, 6)
      PROVE  Good(p)
  <2>1. TypeOK' /\ Others(p) /\ pc'[p] = l /\ The(p)' = e
    BY <1>1, <1>2, SameLevel, ConnectIsGood
  <2>2. l \in {"fixed", "renumber", "bind", "serving"} => Upto(e, 6)
    BY <1>2 DEF Upto, Grows
  <2> QED
    BY <1>2, <2>1, <2>2 DEF Good, Knows
<1>3. Connected(p) \in {"bind", "name", "config"}
  BY DEF Connected
<1>4. ASSUME LegacyCheck(p) PROVE Good(p)
  <2>1. Databases /\ db'[path[p]] = d /\ Grows(d, d)
    BY <1>4, SameDatabases DEF LegacyCheck, The, Grows
  <2>2. Upto(d, 6)
    BY <1>1, <1>4 DEF LegacyCheck, Knows
  <2>3. PICK l \in {"fixed", "bind", "name", "config"} : Goto(p, l)
    BY <1>3, <1>4 DEF LegacyCheck
  <2>4. UNCHANGED <<level, config, unit, cmd, force, path, name, crashes>>
    BY <1>4 DEF LegacyCheck, Unchanged
  <2> QED
    BY <1>2, <2>1, <2>2, <2>3, <2>4
<1>9. ASSUME LookForFixed(p) PROVE Good(p)
  <2>1. Databases /\ db'[path[p]] = d /\ Grows(d, d)
    BY <1>9, SameDatabases DEF LookForFixed, The, Grows
  <2>2. Upto(d, 6)
    BY <1>1, <1>9 DEF LookForFixed, Knows
  <2>3. PICK l \in {"renumber", "bind", "name", "config"} : Goto(p, l)
    BY <1>3, <1>9 DEF LookForFixed
  <2>4. UNCHANGED <<level, config, unit, cmd, force, path, name, crashes>>
    BY <1>9 DEF LookForFixed, Unchanged
  <2> QED
    BY <1>2, <2>1, <2>2, <2>3, <2>4
<1>5. ASSUME Renumber(p) PROVE Good(p)
  <2>1. CASE d.notes = Fixed
    BY <1>1, <1>5, <2>1, SameDatabases, EndIsGood DEF Renumber, fileVars, TypeOK
  <2>2. CASE d.notes # Fixed
    <3> DEFINE e == Renumbered(d)
    <3>1. Unused(d) # {} /\ Change(p, e, Connected(p)) /\ UNCHANGED level /\ Unchanged
      BY <1>5, <2>2 DEF Renumber
    <3>2. e \in Database /\ Sound(e) /\ Grows(d, e)
      BY <1>1, <3>1, RenumberedIsSound
    <3>3. Databases /\ db'[path[p]] = e
      BY <3>1, <3>2, OneDatabase DEF Change
    <3>4. Upto(d, 6)
      BY <1>1, <1>5 DEF Renumber, Knows
    <3>5. /\ Goto(p, Connected(p))
          /\ UNCHANGED <<level, config, unit, cmd, force, path, name, crashes>>
      BY <3>1 DEF Change, Unchanged
    <3> QED
      BY <1>2, <1>3, <3>2, <3>3, <3>4, <3>5
  <2> QED
    BY <2>1, <2>2
<1>6. ASSUME AssignName(p) PROVE Good(p)
  <2>1. UNCHANGED <<level, config, unit, cmd, force, path, name, crashes>>
    BY <1>6 DEF AssignName, Unchanged
  <2>2. CASE Goto(p, "config") /\ UNCHANGED db
    <3>1. Databases /\ db'[path[p]] = d /\ Grows(d, d)
      BY <2>2, SameDatabases DEF The, Grows
    <3> QED
      BY <1>2, <2>1, <2>2, <3>1
  <2>3. ASSUME NEW w \in d.spaces,
               Change(p, [d EXCEPT !.spaces =
                            (@ \ {w}) \cup {[w EXCEPT !.name = name[p]]}], "config")
        PROVE  Good(p)
    <3> DEFINE e == [d EXCEPT !.spaces = (@ \ {w}) \cup {[w EXCEPT !.name = name[p]]}]
    <3>1. w \in Workspace /\ name[p] \in Name \cup {NoName}
      BY <1>1 DEF Database, TypeOK
    <3>2. [w EXCEPT !.name = name[p]] \in Workspace
      BY <3>1 DEF Workspace
    <3>3. e \in Database /\ Sound(e) /\ Grows(d, e)
      BY <1>1, <3>2 DEF Database, Sound, Grows
    <3>4. db' = [db EXCEPT ![path[p]] = e] /\ Goto(p, "config")
      BY <2>3 DEF Change
    <3> HIDE DEF e
    <3>5. Databases /\ db'[path[p]] = e
      BY <3>3, <3>4, OneDatabase
    <3> QED
      BY <1>2, <2>1, <3>3, <3>4, <3>5
  <2> QED
    BY <1>6, <2>2, <2>3 DEF AssignName
<1>7. ASSUME Bind(p) PROVE Good(p)
  <2>1. Databases /\ db'[path[p]] = d /\ Grows(d, d)
    BY <1>7, SameDatabases DEF Bind, The, Grows, Unchanged, fileVars
  <2>2. CASE End(p) /\ UNCHANGED <<fileVars, crashes>>
    BY <1>1, <2>1, <2>2, EndIsGood DEF fileVars, TypeOK
  <2>3. CASE Goto(p, "serving") /\ UNCHANGED level /\ Unchanged
    <3>1. Upto(d, 6)
      BY <1>1, <1>7 DEF Bind, Knows
    <3>2. UNCHANGED <<level, config, unit, cmd, force, path, name, crashes>>
      BY <2>3 DEF Unchanged
    <3> QED
      BY <1>2, <2>1, <2>3, <3>1, <3>2
  <2> QED
    BY <1>7, <2>2, <2>3 DEF Bind
<1> QED
  BY <1>4, <1>9, <1>5, <1>6, <1>7

\* The configuration file and the unit.
LEMMA FilesAreGood ==
    ASSUME IInv, NEW p \in Proc
    PROVE  /\ LookForConfig(p) \/ Truncate(p) \/ Fill(p) => Good(p)
           /\ LookForUnit(p) \/ TruncateUnit(p) \/ FillUnit(p) => Good(p)
<1> DEFINE Next3 == {"truncate", "fill", "unit", "unitTruncate", "unitFill"}
<1>1. /\ level[p] \in Version /\ TypeOK /\ Next3 \subseteq Label /\ path[p] \in Path
  BY Here DEF Label
\* A step that leaves the process under way.
<1>2. ASSUME NEW l \in Next3, Goto(p, l), UNCHANGED <<db, cmd, force, path, level, name, crashes>>,
             config' \in Path \cup {Absent, Blank, Garbled},
             unit' \in {"absent", "blank", "written"}
      PROVE  Good(p)
  <2>1. Databases
    BY <1>2, SameDatabases
  <2>2. TypeOK' /\ pc'[p] = l /\ Others(p)
    BY <1>1, <1>2, <2>1 DEF Goto, TypeOK, Databases, Others
  <2> QED
    BY <2>1, <2>2 DEF Good, Knows
\* A step that ends it.
<1>3. ASSUME End(p), UNCHANGED <<db, crashes>>,
             config' \in Path \cup {Absent, Blank, Garbled},
             unit' \in {"absent", "blank", "written"}
      PROVE  Good(p)
  <2>1. Databases
    BY <1>3, SameDatabases
  <2>2. pc'[p] = "idle" /\ level'[p] = 1 /\ Others(p)
    BY <1>1, <1>3 DEF End, Goto, TypeOK, Others
  <2>3. TypeOK'
    <3>1. "init" \in Command /\ "idle" \in Label /\ HomeDb \in Path /\ 1 \in Version
      BY DEF Command, Label, Path, Version
    <3> QED
      BY <1>1, <1>3, <2>1, <3>1 DEF TypeOK, End, Goto, Databases
  <2> QED
    BY <2>1, <2>2, <2>3 DEF Good, Knows
<1>4. /\ config \in Path \cup {Absent, Blank, Garbled}
      /\ unit \in {"absent", "blank", "written"}
      /\ Filled(p) \in Path \cup {Absent, Blank, Garbled}
  BY <1>1 DEF TypeOK, Filled
<1> HIDE DEF Next3
<1>5. {"truncate", "fill", "unit", "unitTruncate", "unitFill"} \subseteq Next3
  BY DEF Next3
<1>6. ASSUME LookForConfig(p) \/ LookForUnit(p) PROVE Good(p)
  BY <1>2, <1>3, <1>4, <1>5, <1>6 DEF LookForConfig, LookForUnit, Unchanged, fileVars
<1>7. ASSUME Truncate(p) \/ TruncateUnit(p) PROVE Good(p)
  BY <1>2, <1>4, <1>5, <1>7 DEF Truncate, TruncateUnit
<1>8. ASSUME Fill(p) \/ FillUnit(p) PROVE Good(p)
  BY <1>2, <1>3, <1>4, <1>5, <1>8 DEF Fill, FillUnit
<1> QED
  BY <1>6, <1>7, <1>8

\* The first note, and the end of a process.
LEMMA RestIsGood ==
    ASSUME IInv, NEW p \in Proc
    PROVE  MakeNote(p) \/ Stop(p) \/ Kill(p) => Good(p)
<1> DEFINE d == The(p)
<1>1. /\ path[p] \in Path /\ d \in Database /\ Sound(d) /\ Knows(p)
      /\ level[p] \in Version /\ TypeOK
  BY Here
<1>5. ASSUME MakeNote(p) PROVE Good(p)
  <2>1. PICK w \in d.spaces : db' = [db EXCEPT ![path[p]].notes = w.id]
    BY <1>5 DEF MakeNote
  <2> DEFINE e == [d EXCEPT !.notes = w.id]
  <2>2. w.id \in Uuid \cup {Fixed}
    BY <1>1 DEF Database, Workspace
  <2>3. e \in Database /\ Sound(e) /\ Grows(d, e) /\ e.meta = d.meta
    BY <1>1, <2>2 DEF Database, Sound, Grows
  <2>4. db' = [db EXCEPT ![path[p]] = e]
    BY <2>1 DEF The
  <2> HIDE DEF e
  <2>5. Databases /\ db'[path[p]] = e
    BY <2>3, <2>4, OneDatabase
  <2>6. UNCHANGED <<config, unit, pc, cmd, force, path, level, name, crashes>>
    BY <1>5 DEF MakeNote, procVars
  <2>7. TypeOK' /\ Others(p)
    BY <1>1, <2>5, <2>6 DEF TypeOK, Others, Databases
  <2>8. pc[p] = "serving" /\ Upto(d, 6)
    BY <1>1, <1>5 DEF MakeNote, Knows
  <2>9. Upto(The(p)', 6)
    BY <2>3, <2>5, <2>6, <2>8 DEF Upto, Grows, The
  <2> QED
    BY <2>5, <2>6, <2>7, <2>8, <2>9 DEF Good, Knows
<1>6. ASSUME Stop(p) PROVE Good(p)
  BY <1>1, <1>6, SameDatabases, EndIsGood DEF Stop, fileVars, TypeOK
<1>7. ASSUME Kill(p) PROVE Good(p)
  <2>1. crashes' \in 0 .. MaxCrashes
    BY <1>1, <1>7, CrashAssumption DEF Kill, TypeOK
  <2> QED
    BY <1>7, <2>1, SameDatabases, EndIsGood DEF Kill, fileVars
<1> QED
  BY <1>5, <1>6, <1>7

-----------------------------------------------------------------------------
\* Theorems

LEMMA InitIsGood == Init => IInv
<1> SUFFICES ASSUME Init PROVE IInv
  OBVIOUS
<1>1. PICK d \in HomeSeed : db = [q \in Path |-> IF q = HomeDb THEN d ELSE NoDatabase]
  BY DEF Init
<1>2. d \in Database /\ Sound(d)
  BY SeedAssumption
<1>3. /\ "idle" \in Label /\ "init" \in Command /\ HomeDb \in Path /\ 1 \in Version
      /\ 0 \in 0 .. MaxCrashes
  BY CrashAssumption DEF Label, Command, Path, Version
<1>4. TypeOK
  BY <1>1, <1>2, <1>3, NoDatabaseIsSound DEF Init, TypeOK
<1>5. \A q \in Path : Sound(db[q])
  BY <1>1, <1>2, NoDatabaseIsSound
<1>6. \A p \in Proc : Knows(p)
  BY DEF Init, Knows
<1> QED
  BY <1>4, <1>5, <1>6 DEF IInv

\* A step of p.
Step(p) ==
    \/ \E c \in Command : Start(p, c)
    \/ Work(p) \/ MakeNote(p) \/ Stop(p) \/ Kill(p)

LEMMA StepIsGood ==
    ASSUME IInv, NEW p \in Proc, Step(p)
    PROVE  Good(p)
<1>1. CASE \E c \in Command : Start(p, c)
  BY <1>1, CommandsAreGood
<1>2. CASE ReadName(p) \/ RefuseName(p) \/ Load(p)
  BY <1>2, CommandsAreGood
<1>8. CASE Look(p) \/ LookConfig(p) \/ LookAgain(p)
  BY <1>8, LooksAreGood
<1>3. CASE Open(p) \/ LookForMeta(p) \/ LookForNotes(p) \/ CreateMeta(p)
  BY <1>3, OpeningIsGood
<1>4. CASE BootRecord(p) \/ BootLook(p)
  BY <1>4, BootIsGood
<1>5. CASE CheckVersion(p) \/ Record(p) \/ RunScript(p) \/ FailScript(p)
  BY <1>5, MigrateIsGood
<1>6. CASE LegacyCheck(p) \/ LookForFixed(p) \/ Renumber(p) \/ AssignName(p) \/ Bind(p)
  BY <1>6, ConnectedIsGood
<1>7. CASE MakeNote(p) \/ Stop(p) \/ Kill(p)
  BY <1>7, RestIsGood
<1>9. CASE \/ LookForConfig(p) \/ Truncate(p) \/ Fill(p)
           \/ LookForUnit(p) \/ TruncateUnit(p) \/ FillUnit(p)
  BY <1>9, FilesAreGood
<1> QED
  BY <1>1, <1>2, <1>3, <1>4, <1>5, <1>6, <1>7, <1>8, <1>9 DEF Step, Work

LEMMA NextIsGood == IInv /\ [Next]_vars => IInv'
<1> SUFFICES ASSUME IInv, [Next]_vars PROVE IInv'
  OBVIOUS
<1>1. CASE UNCHANGED vars
  BY <1>1 DEF vars, IInv, TypeOK, Knows, The
<1>2. CASE Next
  <2>1. PICK p \in Proc : Step(p)
    BY <1>2 DEF Next, Step
  <2> QED
    BY <2>1, StepIsGood, GoodIsEnough
<1> QED
  BY <1>1, <1>2

\* The invariant holds of every behaviour.
THEOREM Invariant == Spec => []IInv
BY InitIsGood, NextIsGood, PTL DEF Spec

\* Every variable has its type.
THEOREM TypeCorrect == Spec => []TypeOK
<1>1. IInv => TypeOK
  BY DEF IInv
<1> QED
  BY <1>1, Invariant, PTL

\* A version is registered only where its parts are, however many processes
\* migrate a file at once and wherever they are killed.
THEOREM RegisteredIsThere == Spec => []VersionsTellStructure
<1>1. IInv => VersionsTellStructure
  BY DEF IInv, Sound, VersionsTellStructure
<1> QED
  BY <1>1, Invariant, PTL

\* A server serves the whole schema.
THEOREM WholeSchemaIsServed == Spec => []ServedIsCurrent
<1>1. IInv => ServedIsCurrent
  <2> SUFFICES ASSUME IInv, NEW p \in Proc, pc[p] \in {"bind", "serving"}
               PROVE  Part \subseteq The(p).has /\ 2 .. 5 \subseteq The(p).versions
    BY DEF ServedIsCurrent
  <2>1. Sound(The(p)) /\ Upto(The(p), 6)
    BY Here DEF Knows
  <2>2. 2 .. 5 \subseteq The(p).versions /\ The(p).meta
    BY <2>1 DEF Upto
  <2>3. /\ Adds(2) \subseteq The(p).has /\ Adds(3) \subseteq The(p).has
        /\ Adds(4) \subseteq The(p).has /\ "base" \in The(p).has
    BY <2>1, <2>2 DEF Sound
  <2> QED
    BY <2>2, <2>3 DEF Part, Adds
<1> QED
  BY <1>1, Invariant, PTL

-----------------------------------------------------------------------------
\* Workspaces and their names

\* The workspaces of d that may not go are in e, and so are the names.
Stays(d, e) ==
    \A w \in d.spaces :
       LET same == {v \in e.spaces : v.id = w.id}
       IN /\ w.id # Fixed \/ d.notes = w.id => same # {}
          /\ w.name # NoName =>
               \E v \in IF w.id = Fixed THEN e.spaces ELSE same : v.name = w.name

Named(d) == \E w \in d.spaces : w.name # NoName

Keeps(d, e) == Stays(d, e) /\ (Peopled(d) => Peopled(e))

LEMMA KeptNames ==
    ASSUME NEW d, NEW e, Stays(d, e), Named(d)
    PROVE  Named(e)
BY DEF Stays, Named

LEMMA MoreSpaces ==
    ASSUME NEW d, NEW e, d.spaces \subseteq e.spaces
    PROVE  Stays(d, e)
BY DEF Stays

\* Steps that do not touch the workspaces.
LEMMA SameSpaces ==
    ASSUME NEW d, NEW e, e.spaces = d.spaces, e.has = d.has
    PROVE  Keeps(d, e)
BY MoreSpaces DEF Keeps, Peopled

LEMMA AddFixedKeeps ==
    ASSUME NEW d \in Database
    PROVE  Keeps(d, AddFixed(d)) /\ AddFixed(d).spaces # {}
<1> DEFINE s == IF \E w \in d.spaces : w.id = Fixed
                THEN d.spaces ELSE d.spaces \cup {FixedWorkspace}
<1>1. AddFixed(d).spaces = s
  BY DEF AddFixed, Database
<1>2. d.spaces \subseteq s /\ s # {}
  OBVIOUS
<1> QED
  BY <1>1, <1>2, MoreSpaces DEF Keeps, Peopled

LEMMA ScriptedKeeps ==
    ASSUME NEW d \in Database, NEW k \in Version
    PROVE  Keeps(d, Scripted(d, k))
<1> DEFINE with == Register([d EXCEPT !.has = @ \cup Adds(k), !.meta = TRUE], k)
           s == IF \E w \in d.spaces : w.id = Fixed
                THEN d.spaces ELSE d.spaces \cup {FixedWorkspace}
<1>1. with.spaces = d.spaces /\ with.has = d.has \cup Adds(k)
  BY DEF Register, Database
<1>2. CASE k = 3
  <2>1. Scripted(d, k) = [AddFixed(with) EXCEPT !.notes = IF @ = NoSpace THEN Fixed ELSE @]
    BY <1>2 DEF Scripted
  <2>2. AddFixed(with).spaces = s
    BY DEF AddFixed, Register, Database
  <2>3. Scripted(d, k).spaces = s
    BY <2>1, <2>2 DEF AddFixed, Register, Database
  <2>4. d.spaces \subseteq s /\ s # {}
    OBVIOUS
  <2> QED
    BY <2>3, <2>4, MoreSpaces DEF Keeps, Peopled
<1>3. CASE k # 3
  <2>1. "space" \notin Adds(k)
    <3>1. k \in {1, 2, 4, 5}
      BY <1>3 DEF Version
    <3> QED
      BY <3>1 DEF Adds
  <2>2. Scripted(d, k) = with
    BY <1>3 DEF Scripted
  <2> QED
    BY <1>1, <2>1, <2>2, MoreSpaces DEF Keeps, Peopled
<1> QED
  BY <1>2, <1>3

\* A new id for the fixed workspace: no note has it, and its name goes along.
LEMMA RenumberedKeeps ==
    ASSUME NEW d \in Database, d.notes # Fixed
    PROVE  Keeps(d, Renumbered(d))
<1> DEFINE fresh == CHOOSE u \in Unused(d) : TRUE
           to(w) == IF w.id = Fixed THEN [w EXCEPT !.id = fresh] ELSE w
           s == {to(w) : w \in d.spaces}
<1>1. Renumbered(d).spaces = s /\ Renumbered(d).has = d.has
  BY DEF Renumbered, Database
<1>2. \A w \in d.spaces : w.id # Fixed => w \in s
  OBVIOUS
<1>3. \A w \in d.spaces : w.id = Fixed => \E v \in s : v.name = w.name
  <2> SUFFICES ASSUME NEW w \in d.spaces, w.id = Fixed
               PROVE  \E v \in s : v.name = w.name
    OBVIOUS
  <2>1. to(w) \in s
    <3> HIDE DEF to
    <3> QED
      OBVIOUS
  <2>2. to(w).name = w.name
    BY DEF Database, Workspace
  <2> QED
    BY <2>1, <2>2
<1>4. Stays(d, Renumbered(d))
  <2> HIDE DEF s
  <2> QED
    BY <1>1, <1>2, <1>3 DEF Stays
<1>5. d.spaces # {} => s # {}
  <2> HIDE DEF to
  <2> QED
    OBVIOUS
<1> QED
  BY <1>1, <1>4, <1>5 DEF Keeps, Peopled

\* A name for a workspace that has none.
LEMMA NamingKeeps ==
    ASSUME NEW d \in Database, NEW w \in d.spaces, w.name = NoName, NEW n,
           NEW e, e = [d EXCEPT !.spaces = (@ \ {w}) \cup {[w EXCEPT !.name = n]}]
    PROVE  /\ Keeps(d, e)
           /\ n # NoName => Named(e)
<1> DEFINE x == [w EXCEPT !.name = n]
<1>1. e.spaces = (d.spaces \ {w}) \cup {x} /\ e.has = d.has
  BY DEF Database
<1>2. x.id = w.id /\ x.name = n
  BY DEF Database, Workspace
<1> HIDE DEF x
<1>3. Stays(d, e)
  BY <1>1, <1>2 DEF Stays
<1> QED
  BY <1>1, <1>2, <1>3 DEF Keeps, Peopled, Named

\* What a step of p does to the databases.
Written(p) ==
    \/ UNCHANGED db
    \/ \E e : Keeps(The(p), e) /\ db' = [db EXCEPT ![path[p]] = e]

LEMMA StepWrites ==
    ASSUME IInv, NEW p \in Proc, Step(p)
    PROVE  Written(p)
<1>1. The(p) \in Database /\ level[p] \in Version
  BY Here
<1> DEFINE d == The(p)
<1>2. CASE \/ Open(p) \/ CreateMeta(p) \/ BootRecord(p) \/ Record(p) \/ MakeNote(p)
  <2>1. [d EXCEPT !.made = TRUE].spaces = d.spaces /\ [d EXCEPT !.made = TRUE].has = d.has
    BY <1>1 DEF Database
  <2>2. [d EXCEPT !.meta = TRUE].spaces = d.spaces /\ [d EXCEPT !.meta = TRUE].has = d.has
    BY <1>1 DEF Database
  <2>3. Register(d, level[p]).spaces = d.spaces /\ Register(d, level[p]).has = d.has
    BY <1>1 DEF Database, Register
  <2>4. \A i : [d EXCEPT !.notes = i].spaces = d.spaces /\ [d EXCEPT !.notes = i].has = d.has
    BY <1>1 DEF Database
  <2>5. PICK e : e.spaces = d.spaces /\ e.has = d.has /\ db' = [db EXCEPT ![path[p]] = e]
    <3>1. CASE Open(p)
      BY <3>1, <2>1 DEF Open, Change
    <3>2. CASE CreateMeta(p)
      BY <3>2, <2>2 DEF CreateMeta, Change
    <3>3. CASE BootRecord(p) \/ Record(p)
      BY <3>3, <2>3 DEF BootRecord, Record, The
    <3>4. CASE MakeNote(p)
      BY <3>4, <2>4 DEF MakeNote, The
    <3> QED
      BY <1>2, <3>1, <3>2, <3>3, <3>4
  <2> QED
    BY <2>5, SameSpaces DEF Written
<1>3. CASE BootLook(p)
  <2>1. PICK e : e \in {d, AddFixed(d)} /\ (UNCHANGED db \/ db' = [db EXCEPT ![path[p]] = e])
    BY <1>3 DEF BootLook, Change
  <2>2. Keeps(d, d) /\ Keeps(d, AddFixed(d))
    BY <1>1, SameSpaces, AddFixedKeeps
  <2> QED
    BY <2>1, <2>2 DEF Written
<1>4. CASE RunScript(p)
  <2>1. db' = [db EXCEPT ![path[p]] = Scripted(d, level[p])]
    BY <1>4 DEF RunScript, The
  <2> QED
    BY <1>1, <2>1, ScriptedKeeps DEF Written
<1>5. CASE Renumber(p)
  <2>1. CASE d.notes = Fixed
    BY <1>5, <2>1 DEF Renumber, Written, fileVars
  <2>2. CASE d.notes # Fixed
    <3>1. db' = [db EXCEPT ![path[p]] = Renumbered(d)]
      BY <1>5, <2>2 DEF Renumber, Change
    <3> QED
      BY <1>1, <2>2, <3>1, RenumberedKeeps DEF Written
  <2> QED
    BY <2>1, <2>2
<1>6. CASE AssignName(p)
  <2>1. CASE UNCHANGED db
    BY <2>1 DEF Written
  <2>2. CASE ~UNCHANGED db
    <3>1. PICK w \in d.spaces :
            /\ w.name = NoName
            /\ db' = [db EXCEPT ![path[p]] =
                        [d EXCEPT !.spaces = (@ \ {w}) \cup {[w EXCEPT !.name = name[p]]}]]
      BY <1>6, <2>2 DEF AssignName, Change
    <3> QED
      BY <1>1, <3>1, NamingKeeps DEF Written
  <2> QED
    BY <2>1, <2>2
<1>7. CASE \/ \E c \in Command : Start(p, c)
           \/ Look(p) \/ LookConfig(p) \/ LookAgain(p)
           \/ ReadName(p) \/ RefuseName(p) \/ Load(p)
           \/ LookForMeta(p) \/ LookForNotes(p) \/ CheckVersion(p) \/ FailScript(p)
           \/ LegacyCheck(p) \/ LookForFixed(p) \/ LookForConfig(p) \/ Truncate(p)
           \/ Fill(p) \/ LookForUnit(p) \/ TruncateUnit(p) \/ FillUnit(p)
           \/ Bind(p) \/ Stop(p) \/ Kill(p)
  <2>1. UNCHANGED db
    BY <1>7 DEF Start, Look, LookConfig, LookAgain, ReadName, RefuseName, Load, LookForMeta, LookForNotes,
                CheckVersion, FailScript, LegacyCheck, LookForFixed, LookForConfig,
                Truncate, Fill, LookForUnit, TruncateUnit, FillUnit, Bind, Stop, Kill,
                fileVars, Unchanged
  <2> QED
    BY <2>1 DEF Written
<1> QED
  BY <1>2, <1>3, <1>4, <1>5, <1>6, <1>7 DEF Step, Work

LEMMA SpacesKept ==
    ASSUME IInv, [Next]_vars
    PROVE  \A q \in Path : Keeps(db[q], db'[q])
<1>1. \A q \in Path : Keeps(db[q], db[q])
  BY SameSpaces
<1>2. CASE UNCHANGED vars
  BY <1>1, <1>2 DEF vars
<1>3. CASE Next
  <2>1. PICK p \in Proc : Written(p)
    BY <1>3, StepWrites DEF Next, Step
  <2>2. db \in [Path -> Database] /\ path[p] \in Path
    BY DEF IInv, TypeOK
  <2> QED
    BY <1>1, <2>1, <2>2 DEF Written, The
<1> QED
  BY <1>2, <1>3

\* A workspace that holds notes, or whose id was drawn here, keeps its id, and
\* a given name is neither replaced nor lost, in whatever order processes boot,
\* migrate, renumber and name, and wherever they are killed.
THEOREM WorkspacesAreKept == Spec => WorkspacesStay
<1>1. IInv /\ [Next]_vars =>
        [\A q \in Path : \A w \in db[q].spaces :
           LET same == {v \in db'[q].spaces : v.id = w.id}
           IN /\ w.id # Fixed \/ db[q].notes = w.id => same # {}
              /\ w.name # NoName =>
                   \E v \in IF w.id = Fixed THEN db'[q].spaces ELSE same :
                      v.name = w.name]_vars
  BY SpacesKept DEF Keeps, Stays
<1> QED
  BY <1>1, Invariant, PTL DEF Spec, WorkspacesStay

\* What is known of the name that p has read, and of the one it has given.
NameKnown(p) ==
    /\ pc[p] = "idle" => name[p] = NoName
    /\ pc[p] = "name" => "space" \in The(p).has
    /\ name[p] # NoName /\ pc[p] \in {"config", "truncate", "fill"} => Named(The(p))

NamesInv ==
    /\ IInv
    /\ \A q \in Path : Peopled(db[q])
    /\ \A p \in Proc : NameKnown(p)

\* A name given stays given, whatever other processes do.
LEMMA OthersNamed ==
    ASSUME NamesInv, Next, Databases, NEW o \in Proc,
           pc'[o] = pc[o], path'[o] = path[o], name'[o] = name[o]
    PROVE  NameKnown(o)'
<1>1. path[o] \in Path /\ IInv /\ NameKnown(o)
  BY DEF NamesInv, IInv, TypeOK
<1>2. Keeps(db[path[o]], db'[path[o]]) /\ Grows(db[path[o]], db'[path[o]])
  BY <1>1, SpacesKept DEF Databases
<1>3. Named(The(o)) => Named(db'[path[o]])
  BY <1>2, KeptNames DEF Keeps, The
<1>4. "space" \in The(o).has => "space" \in db'[path[o]].has
  BY <1>2 DEF Grows, The
<1> QED
  BY <1>1, <1>3, <1>4 DEF NameKnown, The

\* A process reads a name for itself.
LEMMA OtherNames ==
    ASSUME IInv, NEW p \in Proc, Step(p), NEW o \in Proc, o # p
    PROVE  name'[o] = name[o]
<1>1. name \in [Proc -> Name \cup {NoName}]
  BY DEF IInv, TypeOK
<1>2. CASE End(p) \/ ReadName(p)
  BY <1>1, <1>2 DEF End, ReadName
<1>3. CASE UNCHANGED name
  BY <1>3
<1>4. End(p) \/ ReadName(p) \/ UNCHANGED name
  BY DEF Step, Work, Start, Look, LookConfig, LookAgain, ReadName, RefuseName, Load, Open, LookForMeta,
         LookForNotes, CreateMeta, BootRecord, BootLook, CheckVersion, Record, RunScript,
         FailScript, LegacyCheck, LookForFixed, Renumber, AssignName, LookForConfig,
         Truncate, Fill, LookForUnit, TruncateUnit, FillUnit, Bind, MakeNote, Stop, Kill,
         Unchanged, procVars
<1> QED
  BY <1>2, <1>3, <1>4

\* What follows connect, with the schema complete.
LEMMA ConnectedNamed ==
    ASSUME NamesInv, NEW p \in Proc, Databases, Upto(The(p), 6),
           NEW l \in {"fixed", "renumber", Connected(p)}, Goto(p, l),
           UNCHANGED <<path, name>>
    PROVE  NameKnown(p)'
<1>1. /\ path[p] \in Path /\ Sound(The(p)) /\ pc'[p] = l
  BY Here DEF NamesInv
<1>2. "space" \in The(p).has
  BY <1>1 DEF Upto, Sound, Adds
<1>3. "space" \in The(p)'.has
  BY <1>1, <1>2 DEF Databases, Grows, The
<1>4. l = "config" => name[p] = NoName
  BY DEF Connected
<1>5. l \notin {"idle", "truncate", "fill"}
  BY DEF Connected
<1> QED
  BY <1>1, <1>3, <1>4, <1>5 DEF NameKnown

LEMMA StepNamed ==
    ASSUME NamesInv, NEW p \in Proc, Step(p), Next
    PROVE  NameKnown(p)'
<1>1. IInv /\ NameKnown(p) /\ Peopled(The(p)) /\ Knows(p) /\ The(p) \in Database
  BY Here DEF NamesInv, The
<1>2. Good(p) /\ Databases
  BY <1>1, StepIsGood DEF Good
<1>3. /\ \A l : Goto(p, l) => pc'[p] = l
      /\ End(p) => name'[p] = NoName /\ pc'[p] = "idle"
  BY <1>1 DEF IInv, TypeOK, Goto, End
<1>4. CASE End(p)
  BY <1>3, <1>4 DEF NameKnown
<1>5. CASE \E c \in Command : Start(p, c)
  <2>1. pc'[p] \in {"look", "load", "config"} /\ name'[p] = NoName
    BY <1>1, <1>3, <1>5 DEF Start, NameKnown
  <2> QED
    BY <2>1 DEF NameKnown
<1>6. CASE /\ ~End(p)
           /\ \/ Look(p) \/ LookConfig(p) \/ LookAgain(p)
              \/ ReadName(p) \/ RefuseName(p) \/ Load(p) \/ Open(p)
              \/ LookForMeta(p) \/ LookForNotes(p) \/ CreateMeta(p) \/ BootRecord(p)
              \/ BootLook(p) \/ CheckVersion(p) \/ Record(p) \/ RunScript(p)
              \/ FailScript(p) \/ Bind(p)
              \/ LookForUnit(p) \/ TruncateUnit(p) \/ FillUnit(p)
  <2>1. \E l \in {"lookConfig", "lookAgain", "unit", "unitTruncate", "unitFill", "ask", "open", "meta", "check", "base", "boot", "script", "bootRecord",
                  "bootLook", "record", "legacy", "serving"} : Goto(p, l)
    BY <1>6 DEF Look, LookConfig, LookAgain, LookForUnit, TruncateUnit, FillUnit,
                ReadName, RefuseName, Load, Open, LookForMeta, LookForNotes,
                CreateMeta, BootRecord, BootLook, CheckVersion, Record, RunScript,
                FailScript, Bind, Change, Onward
  <2> QED
    BY <1>3, <2>1 DEF NameKnown
<1>7. CASE ~End(p) /\ (LegacyCheck(p) \/ LookForFixed(p) \/ Renumber(p))
  <2>1. Upto(The(p), 6)
    BY <1>1, <1>7 DEF LegacyCheck, LookForFixed, Renumber, Knows
  <2>2. PICK l \in {"fixed", "renumber", Connected(p)} :
          Goto(p, l) /\ UNCHANGED <<path, name>>
    BY <1>7 DEF LegacyCheck, LookForFixed, Renumber, Change, Unchanged
  <2> QED
    BY <1>2, <2>1, <2>2, ConnectedNamed
<1>8. CASE AssignName(p)
  <2>1. pc'[p] = "config" /\ UNCHANGED <<path, name>>
    BY <1>3, <1>8 DEF AssignName, Change, Unchanged
  <2>2. The(p).spaces # {}
    BY <1>1, <1>8 DEF AssignName, NameKnown, Peopled
  <2>3. path[p] \in Path /\ db \in [Path -> Database]
    BY <1>1 DEF IInv, TypeOK
  <2>4. name[p] # NoName => Named(db'[path[p]])
    <3>1. CASE UNCHANGED db /\ \A w \in The(p).spaces : w.name # NoName
      BY <2>2, <3>1 DEF Named, The
    <3>2. CASE \E w \in The(p).spaces : w.name = NoName
      <4>1. PICK w \in The(p).spaces :
              /\ w.name = NoName
              /\ db' = [db EXCEPT ![path[p]] =
                   [The(p) EXCEPT !.spaces = (@ \ {w}) \cup {[w EXCEPT !.name = name[p]]}]]
        BY <1>8, <3>2 DEF AssignName, Change
      <4> QED
        BY <1>1, <2>3, <4>1, NamingKeeps
    <3> QED
      BY <1>8, <3>1, <3>2 DEF AssignName
  <2> QED
    BY <2>1, <2>4 DEF NameKnown, The
<1>9. CASE ~End(p) /\ (LookForConfig(p) \/ Truncate(p) \/ Fill(p))
  <2>1. /\ pc[p] \in {"config", "truncate", "fill"} /\ pc'[p] \in {"truncate", "fill", "unit"}
        /\ UNCHANGED <<db, path, name>>
    BY <1>3, <1>9 DEF LookForConfig, Truncate, Fill, Unchanged
  <2> QED
    BY <1>1, <2>1 DEF NameKnown, The
<1>10. CASE MakeNote(p)
  BY <1>10 DEF MakeNote, procVars, NameKnown
<1> QED
  BY <1>4, <1>5, <1>6, <1>7, <1>8, <1>9, <1>10 DEF Step, Work, Stop, Kill

LEMMA NamesInit == Init => NamesInv
<1> SUFFICES ASSUME Init PROVE NamesInv
  OBVIOUS
<1>1. PICK d \in HomeSeed : db = [q \in Path |-> IF q = HomeDb THEN d ELSE NoDatabase]
  BY DEF Init
<1>2. Peopled(d) /\ Peopled(NoDatabase)
  BY SeedAssumption DEF Peopled, NoDatabase
<1>3. \A p \in Proc : NameKnown(p)
  BY DEF Init, NameKnown
<1> QED
  BY <1>1, <1>2, <1>3, InitIsGood DEF NamesInv

LEMMA NamesStep == NamesInv /\ [Next]_vars => NamesInv'
<1> SUFFICES ASSUME NamesInv, [Next]_vars PROVE NamesInv'
  OBVIOUS
<1>1. CASE UNCHANGED vars
  BY <1>1, NextIsGood DEF NamesInv, vars, NameKnown, The
<1>2. CASE Next
  <2>1. IInv /\ IInv'
    BY NextIsGood DEF NamesInv
  <2>2. PICK p \in Proc : Step(p)
    BY <1>2 DEF Next, Step
  <2>3. Good(p) /\ Databases /\ Others(p)
    BY <2>1, <2>2, StepIsGood DEF Good
  <2>4. \A q \in Path : Peopled(db'[q])
    BY <2>1, SpacesKept DEF Keeps, NamesInv
  <2>5. ASSUME NEW o \in Proc PROVE NameKnown(o)'
    <3>1. CASE o = p
      BY <1>2, <2>2, <3>1, StepNamed
    <3>2. CASE o # p
      <4>1. name'[o] = name[o] /\ pc'[o] = pc[o] /\ path'[o] = path[o]
        BY <2>1, <2>2, <2>3, <3>2, OtherNames DEF Others
      <4> QED
        BY <1>2, <2>3, <4>1, OthersNamed
    <3> QED
      BY <3>1, <3>2
  <2> QED
    BY <2>1, <2>4, <2>5 DEF NamesInv
<1> QED
  BY <1>1, <1>2

\* `init` that has asked for a name goes on to the configuration only with a
\* named workspace in the database, whatever other processes do to it meanwhile.
THEOREM NamesAreLeft == Spec => []InitLeavesName
<1>1. NamesInv => InitLeavesName
  BY DEF NamesInv, NameKnown, InitLeavesName, Named
<1>2. Spec => []NamesInv
  BY NamesInit, NamesStep, PTL DEF Spec
<1> QED
  BY <1>1, <1>2, PTL

-----------------------------------------------------------------------------
\* The configuration

\* Whoever is about to fill the configuration finds it as truncated.
WriterInv == ConfigIsWhole /\ \A p \in Proc : pc[p] = "fill" => config = Blank

\* Only Truncate and Fill write the configuration, and Truncate alone leads there.
LEMMA OthersLeaveConfig ==
    ASSUME IInv, NEW p \in Proc, Step(p), ~Truncate(p), ~Fill(p)
    PROVE  config' = config /\ \A o \in Proc : pc'[o] = "fill" => pc[o] = "fill"
<1>1. pc \in [Proc -> Label]
  BY DEF IInv, TypeOK
<1>2. config' = config
  BY DEF Step, Work, Start, Look, LookConfig, LookAgain, ReadName, RefuseName, Load, Open,
         LookForMeta, LookForNotes, CreateMeta, BootRecord, BootLook, CheckVersion, Record,
         RunScript, FailScript, LegacyCheck, LookForFixed, Renumber, AssignName,
         LookForConfig, LookForUnit, TruncateUnit, FillUnit, Bind, MakeNote, Stop, Kill,
         Unchanged, fileVars
<1> DEFINE Next4 == Label \ {"fill"}
<1>3. \/ \E l \in Next4 : Goto(p, l)
      \/ UNCHANGED pc
  <2>1. {"idle", "look", "lookConfig", "lookAgain", "ask", "load", "open", "meta", "base",
         "boot", "bootRecord", "bootLook", "check", "script", "record", "legacy", "fixed",
         "renumber", "name", "bind", "config", "truncate",
         "unit", "unitTruncate", "unitFill", "serving"} \subseteq Next4
    BY DEF Label
  <2>2. Connected(p) \in Next4
    BY <2>1 DEF Connected
  <2> HIDE DEF Next4
  <2>3. CASE End(p) \/ (\E c \in Command : Start(p, c)) \/ MakeNote(p)
    BY <2>1, <2>3 DEF End, Start, MakeNote, procVars
  <2>4. CASE \/ Look(p) \/ LookConfig(p) \/ LookAgain(p) \/ ReadName(p) \/ RefuseName(p)
             \/ Load(p) \/ Open(p) \/ LookForMeta(p) \/ LookForNotes(p) \/ CreateMeta(p)
    BY <2>1, <2>4 DEF Look, LookConfig, LookAgain, ReadName, RefuseName, Load, Open,
                      LookForMeta, LookForNotes, CreateMeta, Change, End
  <2>5. CASE \/ BootRecord(p) \/ BootLook(p) \/ CheckVersion(p) \/ Record(p)
             \/ RunScript(p) \/ FailScript(p)
    BY <2>1, <2>5 DEF BootRecord, BootLook, CheckVersion, Record, RunScript, FailScript,
                      Change, Onward, End
  <2>6. CASE LegacyCheck(p) \/ LookForFixed(p) \/ Renumber(p) \/ AssignName(p)
    BY <2>1, <2>2, <2>6 DEF LegacyCheck, LookForFixed, Renumber, AssignName, Change, End
  <2>7. CASE LookForConfig(p) \/ LookForUnit(p) \/ TruncateUnit(p) \/ FillUnit(p) \/ Bind(p)
    BY <2>1, <2>7 DEF LookForConfig, LookForUnit, TruncateUnit, FillUnit, Bind, End
  <2> QED
    BY <2>3, <2>4, <2>5, <2>6, <2>7 DEF Step, Work, Stop, Kill
<1> QED
  BY <1>1, <1>2, <1>3 DEF Goto

LEMMA WriterStep == IInv /\ OneWriter /\ WriterInv /\ [Next]_vars => WriterInv'
<1> SUFFICES ASSUME IInv, OneWriter, WriterInv, [Next]_vars PROVE WriterInv'
  OBVIOUS
<1>1. CASE UNCHANGED vars
  BY <1>1 DEF vars, WriterInv, ConfigIsWhole
<1>2. CASE Next
  <2>1. PICK p \in Proc : Step(p)
    BY <1>2 DEF Next, Step
  <2>2. pc \in [Proc -> Label] /\ path[p] \in Path
    BY DEF IInv, TypeOK
  <2>3. CASE Truncate(p)
    BY <2>3, ConfigAssumption DEF Truncate, WriterInv, ConfigIsWhole
  <2>4. CASE Fill(p)
    <3>1. config = Blank /\ \A o \in Proc : pc[o] = "fill" => o = p
      BY <2>4 DEF Fill, WriterInv, OneWriter
    <3>2. config' \in Path
      BY <2>2, <2>4, <3>1, ConfigAssumption DEF Fill, Filled, Path
    <3>3. \A o \in Proc : pc'[o] # "fill"
      BY <2>2, <2>4, <3>1 DEF Fill, Goto, End
    <3> QED
      BY <3>2, <3>3, ConfigAssumption DEF WriterInv, ConfigIsWhole
  <2>5. CASE ~Truncate(p) /\ ~Fill(p)
    BY <2>1, <2>5, OthersLeaveConfig DEF WriterInv, ConfigIsWhole
  <2> QED
    BY <2>3, <2>4, <2>5
<1> QED
  BY <1>1, <1>2

\* As long as one command at a time writes the configuration, no server ever
\* finds one that does not parse, whatever else runs or is killed: the premise
\* of ServerComesUp fails for no other reason.
THEOREM LoneWritersLeaveItWhole == Spec /\ []OneWriter => []ConfigIsWhole
<1>1. Init => WriterInv
  BY ConfigAssumption DEF Init, WriterInv, ConfigIsWhole
<1>2. WriterInv => ConfigIsWhole
  BY DEF WriterInv
<1> QED
  BY <1>1, <1>2, WriterStep, Invariant, PTL DEF Spec
=============================================================================
