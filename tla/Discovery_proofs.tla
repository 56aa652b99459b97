---------------------------- MODULE Discovery_proofs ----------------------------
(* Proofs about Discovery, for any tokens, processes and number of faults. *)
EXTENDS Discovery, TLAPS

USE ValuesAssumption, FaultsAssumption

Kept == Tokens \cup {Empty, None}

FileTypes ==
    /\ file \in [Paths -> Contents]
    /\ unsynced \subseteq Paths /\ damaged \subseteq Paths
ProcTypes ==
    /\ pc \in [Procs -> {"off", "load", "legacy", "register", "save", "rename", "run"}]
    /\ store \in [Procs -> [path : Paths, legacy : Paths]]
    /\ creds \in [Procs -> Kept]
    /\ fresh \in [Procs -> BOOLEAN]
    /\ temp \in [Procs -> Contents]
GhostTypes ==
    /\ identity \in [Paths -> Kept]
    /\ issued \subseteq Tokens /\ excused \subseteq Tokens
    /\ faults \in 0..MaxFaults

LEMMA TypeParts == TypeOK <=> FileTypes /\ ProcTypes /\ GhostTypes
  BY DEF TypeOK, FileTypes, ProcTypes, GhostTypes, Kept

\* The disjuncts of Next, for the case splits.
LEMMA Steps ==
    ASSUME [Next]_vars
    PROVE  \/ UNCHANGED vars
           \/ \E p \in Procs : Step(p)
           \/ \E f \in Paths : Sync(f)
           \/ \E f \in Paths, content \in {None, Broken} : Damage(f, content)
           \/ PowerFails
  BY DEF Next

LEMMA TypeInit == Init => TypeOK
<1> SUFFICES ASSUME Init PROVE TypeOK
  OBVIOUS
<1>1. file \in [Paths -> Contents]
  BY DEF Init, Contents
<1> QED BY <1>1 DEF Init, TypeOK, Paths

LEMMA UnsavedTokens == \A p \in Procs : Unsaved(p) \subseteq Tokens
  BY DEF Unsaved

LEMMA FileStep == TypeOK /\ [Next]_vars => FileTypes'
<1> SUFFICES ASSUME TypeOK, [Next]_vars PROVE FileTypes'
  OBVIOUS
<1> USE TypeParts DEF FileTypes, disk
<1>1. CASE UNCHANGED vars
  BY <1>1 DEF vars
<1>2. ASSUME NEW p \in Procs, Step(p) PROVE FileTypes'
  <2>1. CASE Rename(p)
    <3>1. temp[p] \in Contents /\ Path(p) \in Paths
      BY DEF ProcTypes, Path
    <3> QED BY <2>1, <3>1 DEF Rename
  <2>2. CASE ~Rename(p)
    <3>1. UNCHANGED disk
      BY <1>2, <2>2 DEF Step, Start, Load, LoadLegacy, WriteTemp, SaveFails, Register,
         RegisterRefused, RegisterLost, Stop, Killed
    <3> QED BY <3>1
  <2> QED BY <2>1, <2>2
<1>3. ASSUME NEW f \in Paths, Sync(f) PROVE FileTypes'
  BY <1>3 DEF Sync
<1>4. ASSUME NEW f \in Paths, NEW content \in {None, Broken}, Damage(f, content)
      PROVE  FileTypes'
  BY <1>4 DEF Damage, Lose, Contents
<1>5. CASE PowerFails
  BY <1>5 DEF PowerFails, Lose, Contents
<1> QED BY <1>1, <1>2, <1>3, <1>4, <1>5, Steps

LEMMA ProcStep == TypeOK /\ [Next]_vars => ProcTypes'
<1> SUFFICES ASSUME TypeOK, [Next]_vars PROVE ProcTypes'
  OBVIOUS
<1> USE TypeParts DEF ProcTypes, local
<1>1. CASE UNCHANGED vars
  BY <1>1 DEF vars
<1>2. ASSUME NEW p \in Procs, Step(p) PROVE ProcTypes'
  <2>1. CASE Start(p)
    <3>1. \A home \in Homes : DefaultStore(home) \in [path : Paths, legacy : Paths]
      BY DEF DefaultStore, Paths
    <3> QED BY <2>1, <3>1 DEF Start, Goto
  <2>2. CASE Load(p)
    <3>1. Readable(file[Path(p)]) => file[Path(p)] \in Kept
      BY DEF Readable, Kept
    <3> QED BY <2>2, <3>1 DEF Load, Use, Goto, TriesLegacy
  <2>3. CASE LoadLegacy(p)
    <3>1. Readable(file[store[p].legacy]) => file[store[p].legacy] \in Kept
      BY DEF Readable, Kept
    <3> QED BY <2>3, <3>1 DEF LoadLegacy, Goto
  <2>4. CASE WriteTemp(p)
    BY <2>4 DEF WriteTemp, Goto, Kept, Contents
  <2>5. CASE Rename(p)
    BY <2>5 DEF Rename, Use, Goto, Contents
  <2>6. CASE SaveFails(p)
    BY <2>6 DEF SaveFails, Goto, Contents
  <2>7. CASE Register(p)
    BY <2>7 DEF Register, Goto, Kept
  <2>8. CASE RegisterRefused(p) \/ RegisterLost(p) \/ Stop(p) \/ Killed(p)
    BY <2>8 DEF RegisterRefused, RegisterLost, Stop, Killed, Goto
  <2> QED BY <1>2, <2>1, <2>2, <2>3, <2>4, <2>5, <2>6, <2>7, <2>8 DEF Step
<1>3. ASSUME NEW f \in Paths, Sync(f) PROVE ProcTypes'
  BY <1>3 DEF Sync
<1>4. ASSUME NEW f \in Paths, NEW content \in {None, Broken}, Damage(f, content)
      PROVE  ProcTypes'
  BY <1>4 DEF Damage
<1>5. CASE PowerFails
  BY <1>5 DEF PowerFails
<1> QED BY <1>1, <1>2, <1>3, <1>4, <1>5, Steps

LEMMA GhostStep == TypeOK /\ [Next]_vars => GhostTypes'
<1> SUFFICES ASSUME TypeOK, [Next]_vars PROVE GhostTypes'
  OBVIOUS
<1> USE TypeParts DEF GhostTypes, ghosts, Fault
<1>1. CASE UNCHANGED vars
  BY <1>1 DEF vars
<1>2. ASSUME NEW p \in Procs, Step(p) PROVE GhostTypes'
  <2>1. CASE Load(p)
    <3>1. Readable(file[Path(p)]) => file[Path(p)] \in Kept
      BY DEF Readable, Kept
    <3> QED BY <2>1, <3>1 DEF Load, Use
  <2>2. CASE Rename(p)
    BY <2>2 DEF Rename, Use, ProcTypes
  <2>3. CASE SaveFails(p) \/ Killed(p)
    BY <2>3, UnsavedTokens DEF SaveFails, Killed
  <2>4. CASE Register(p) \/ RegisterLost(p)
    BY <2>4 DEF Register, RegisterLost
  <2>5. CASE Start(p) \/ LoadLegacy(p) \/ WriteTemp(p) \/ RegisterRefused(p) \/ Stop(p)
    BY <2>5 DEF Start, LoadLegacy, WriteTemp, RegisterRefused, Stop
  <2> QED BY <1>2, <2>1, <2>2, <2>3, <2>4, <2>5 DEF Step
<1>3. ASSUME NEW f \in Paths, Sync(f) PROVE GhostTypes'
  BY <1>3 DEF Sync
<1>4. ASSUME NEW f \in Paths, NEW content \in {None, Broken}, Damage(f, content)
      PROVE  GhostTypes'
  BY <1>4 DEF Damage
<1>5. CASE PowerFails
  <2>1. \A lost \in SUBSET unsynced :
            excused \cup (UNION {{file[f]} \cap Tokens : f \in lost})
                \cup (UNION {Unsaved(p) : p \in Procs}) \subseteq Tokens
    BY UnsavedTokens
  <2>2. excused' \subseteq Tokens
    BY <1>5, <2>1 DEF PowerFails
  <2> QED BY <1>5, <2>2 DEF PowerFails
<1> QED BY <1>1, <1>2, <1>3, <1>4, <1>5, Steps

LEMMA TypeStep == TypeOK /\ [Next]_vars => TypeOK'
  BY FileStep, ProcStep, GhostStep
     DEF TypeOK, FileTypes, ProcTypes, GhostTypes, Kept

\* Every variable keeps its type, for any number of agents.
THEOREM TypeCorrect == Spec => []TypeOK
  BY TypeInit, TypeStep, PTL DEF Spec
-----------------------------------------------------------------------------

\* What is renamed is what was got.
Carried == \A p \in Procs : pc[p] = "rename" => temp[p] = creds[p]

LEMMA CarriedStep == TypeOK /\ Carried /\ [Next]_vars => Carried'
<1> SUFFICES ASSUME TypeOK, Carried, [Next]_vars PROVE Carried'
  OBVIOUS
<1> USE TypeParts DEF Carried, ProcTypes
<1>1. CASE UNCHANGED vars
  BY <1>1 DEF vars, local
<1>2. ASSUME NEW p \in Procs, Step(p) PROVE Carried'
  BY <1>2 DEF Step, Start, Load, LoadLegacy, Use, WriteTemp, Rename, SaveFails, Register,
     RegisterRefused, RegisterLost, Stop, Killed, Goto
<1>3. ASSUME NEW f \in Paths, Sync(f) PROVE Carried'
  BY <1>3 DEF Sync, local
<1>4. ASSUME NEW f \in Paths, NEW content \in {None, Broken}, Damage(f, content)
      PROVE  Carried'
  BY <1>4 DEF Damage, local
<1>5. CASE PowerFails
  BY <1>5 DEF PowerFails
<1> QED BY <1>1, <1>2, <1>3, <1>4, <1>5, Steps

WholeInv == TypeOK /\ Carried /\ FileWhole

LEMMA WholeInit == Init => WholeInv
<1> SUFFICES ASSUME Init PROVE WholeInv
  OBVIOUS
<1>1. Carried /\ FileWhole
  BY DEF Init, Carried, FileWhole
<1> QED BY <1>1, TypeInit DEF WholeInv

LEMMA WholeStep == WholeInv /\ [Next]_vars => WholeInv'
<1> SUFFICES ASSUME WholeInv, [Next]_vars PROVE WholeInv'
  OBVIOUS
<1> USE TypeParts DEF WholeInv, FileWhole
<1>1. TypeOK' /\ Carried'
  BY TypeStep, CarriedStep
<1>2. CASE UNCHANGED vars
  BY <1>1, <1>2 DEF vars, disk
<1>3. ASSUME NEW p \in Procs, Step(p) PROVE FileWhole'
  <2>1. CASE Rename(p)
    <3>1. temp[p] # Broken
      BY <2>1 DEF Rename, Carried, ProcTypes, Kept
    <3> QED BY <2>1, <3>1 DEF Rename, FileTypes
  <2>2. CASE ~Rename(p)
    BY <1>3, <2>2 DEF Step, Start, Load, LoadLegacy, WriteTemp, SaveFails, Register,
       RegisterRefused, RegisterLost, Stop, Killed, disk
  <2> QED BY <2>1, <2>2
<1>4. ASSUME NEW f \in Paths, Sync(f) PROVE FileWhole'
  BY <1>4 DEF Sync
<1>5. ASSUME NEW f \in Paths, NEW content \in {None, Broken}, Damage(f, content)
      PROVE  FileWhole'
  BY <1>5 DEF Damage, Lose, FileTypes
<1>6. ASSUME PowerFails PROVE FileWhole'
  <2>1. PICK lost \in SUBSET unsynced : Lose(lost, Broken)
    BY <1>6 DEF PowerFails
  <2>2. ASSUME NEW f \in Paths, file'[f] = Broken PROVE f \in damaged'
    BY <2>1, <2>2 DEF Lose
  <2> QED BY <2>2
<1> QED BY <1>1, <1>2, <1>3, <1>4, <1>5, <1>6, Steps

\* At no end of a process and with no other agent saving at the same time is half
\* a credentials file left behind, for any number of agents.
THEOREM FilesStayWhole == Spec => []FileWhole
<1>1. WholeInv => FileWhole
  BY DEF WholeInv
<1> QED BY <1>1, WholeInit, WholeStep, PTL DEF Spec

-----------------------------------------------------------------------------
(* One agent at a time. *)

\* An agent registers, or takes a legacy file over, only while its own file
\* holds no token.
Missing ==
    \A p \in Procs :
        pc[p] \in {"legacy", "register", "save", "rename"} => file[Path(p)] \notin Tokens

\* The token that was used last from a file is still there.
InUse == \A f \in Paths : identity[f] \in Tokens /\ f \notin damaged => file[f] = identity[f]

OneInv == TypeOK /\ Carried /\ Missing /\ InUse /\ UsedIsStored /\ Accounted

LEMMA OneInit == Init => OneInv
<1> SUFFICES ASSUME Init PROVE OneInv
  OBVIOUS
<1>1. Carried /\ Missing /\ InUse /\ UsedIsStored
  BY DEF Init, Carried, Missing, InUse, UsedIsStored
<1>2. Accounted
  BY DEF Init, Accounted
<1> QED BY <1>1, <1>2, TypeInit DEF OneInv

OneAgent == \A p, q \in Procs : p = q

LEMMA MissingStep == OneAgent /\ OneInv /\ [Next]_vars => Missing'
<1> SUFFICES ASSUME OneAgent, OneInv, [Next]_vars PROVE Missing'
  OBVIOUS
<1> USE TypeParts DEF OneInv, Missing, Path, ProcTypes, FileTypes
<1>1. CASE UNCHANGED vars
  BY <1>1 DEF vars, disk, local
<1>2. ASSUME NEW p \in Procs, Step(p) PROVE Missing'
  <2>1. CASE Load(p) \/ Rename(p)
    BY <2>1 DEF OneAgent, Load, Rename, Use, Goto, Readable, disk
  <2>2. CASE ~Load(p) /\ ~Rename(p)
    BY <1>2, <2>2 DEF OneAgent, Step, Start, LoadLegacy, WriteTemp, SaveFails, Register,
       RegisterRefused, RegisterLost, Stop, Killed, Goto, disk
  <2> QED BY <2>1, <2>2
<1>3. ASSUME NEW f \in Paths, Sync(f) PROVE Missing'
  BY <1>3 DEF Sync, local
<1>4. ASSUME NEW f \in Paths, NEW content \in {None, Broken}, Damage(f, content)
      PROVE  Missing'
  BY <1>4 DEF Damage, Lose, local
<1>5. CASE PowerFails
  BY <1>5 DEF PowerFails
<1> QED BY <1>1, <1>2, <1>3, <1>4, <1>5, Steps

LEMMA InUseStep == OneAgent /\ OneInv /\ [Next]_vars => InUse'
<1> SUFFICES ASSUME OneAgent, OneInv, [Next]_vars PROVE InUse'
  OBVIOUS
<1> USE TypeParts DEF OneInv, InUse, Path, ProcTypes, FileTypes, GhostTypes
<1>1. CASE UNCHANGED vars
  BY <1>1 DEF vars, disk, ghosts
<1>2. ASSUME NEW p \in Procs, Step(p) PROVE InUse'
  <2>1. CASE Load(p)
    BY <2>1 DEF Load, Use, disk
  <2>2. CASE Rename(p)
    BY <2>2 DEF Rename, Use, Carried
  <2>3. CASE ~Load(p) /\ ~Rename(p)
    BY <1>2, <2>3 DEF Step, Start, LoadLegacy, WriteTemp, SaveFails, Register,
       RegisterRefused, RegisterLost, Stop, Killed, disk, ghosts
  <2> QED BY <2>1, <2>2, <2>3
<1>3. ASSUME NEW f \in Paths, Sync(f) PROVE InUse'
  BY <1>3 DEF Sync, ghosts
<1>4. ASSUME NEW f \in Paths, NEW content \in {None, Broken}, Damage(f, content)
      PROVE  InUse'
  BY <1>4 DEF Damage, Lose
<1>5. ASSUME PowerFails PROVE InUse'
  <2>1. PICK lost \in SUBSET unsynced : Lose(lost, Broken)
    BY <1>5 DEF PowerFails
  <2> QED BY <1>5, <2>1 DEF PowerFails, Lose
<1> QED BY <1>1, <1>2, <1>3, <1>4, <1>5, Steps

LEMMA UsedStep == OneAgent /\ OneInv /\ [Next]_vars => UsedIsStored'
<1> SUFFICES ASSUME OneAgent, OneInv, [Next]_vars PROVE UsedIsStored'
  OBVIOUS
<1> USE TypeParts DEF OneInv, UsedIsStored, Path, ProcTypes, FileTypes
<1>1. CASE UNCHANGED vars
  BY <1>1 DEF vars, disk, local
<1>2. ASSUME NEW p \in Procs, Step(p) PROVE UsedIsStored'
  <2>1. CASE Load(p)
    BY <2>1 DEF OneAgent, Load, Use, Goto, disk
  <2>2. CASE Rename(p)
    BY <2>2 DEF OneAgent, Rename, Use, Goto, Carried
  <2>3. CASE ~Load(p) /\ ~Rename(p)
    BY <1>2, <2>3 DEF OneAgent, Step, Start, LoadLegacy, WriteTemp, SaveFails, Register,
       RegisterRefused, RegisterLost, Stop, Killed, Goto, disk
  <2> QED BY <2>1, <2>2, <2>3
<1>3. ASSUME NEW f \in Paths, Sync(f) PROVE UsedIsStored'
  BY <1>3 DEF Sync, local
<1>4. ASSUME NEW f \in Paths, NEW content \in {None, Broken}, Damage(f, content)
      PROVE  UsedIsStored'
  BY <1>4 DEF Damage, Lose, local
<1>5. CASE PowerFails
  BY <1>5 DEF PowerFails
<1> QED BY <1>1, <1>2, <1>3, <1>4, <1>5, Steps

LEMMA AccountedStep == OneAgent /\ OneInv /\ [Next]_vars => Accounted'
<1> SUFFICES ASSUME OneAgent, OneInv, [Next]_vars, NEW t \in issued',
                    t \notin excused', t \notin Range(file)'
             PROVE  t \in UNION {Unsaved(p)' : p \in Procs}
  BY DEF Accounted
<1> USE TypeParts DEF OneInv, Path, ProcTypes, FileTypes, GhostTypes
<1>1. t \in issued => t \in excused \/ t \in Range(file)
                       \/ \E p \in Procs : t \in Unsaved(p)
  BY DEF Accounted
<1>2. CASE UNCHANGED vars
  BY <1>1, <1>2 DEF vars, disk, local, ghosts, Range, Unsaved
<1>3. CASE \E p \in Procs : Step(p)
  <2>1. PICK p \in Procs : Step(p)
    BY <1>3
  <2>2. CASE Rename(p)
    <3>1. t \in issued /\ t \notin excused
      BY <2>2 DEF Rename, Use
    <3>2. file' = [file EXCEPT ![Path(p)] = creds[p]]
      BY <2>2 DEF Rename, Carried
    <3>3. t # creds[p]
      BY <3>2 DEF Range
    <3>4. file[Path(p)] \notin Tokens /\ t \in Tokens
      BY <2>2, <3>1 DEF Rename, Missing
    <3>5. t \notin Range(file)
      BY <3>2, <3>4 DEF Range
    <3> QED BY <1>1, <3>1, <3>3, <3>5 DEF OneAgent, Unsaved
  <2>3. CASE Register(p)
    <3>1. t \in issued => t \in UNION {Unsaved(q)' : q \in Procs}
      BY <1>1, <2>3 DEF OneAgent, Register, Goto, disk, Unsaved, Range
    <3>2. t \notin issued => t \in Unsaved(p)'
      BY <2>3 DEF Register, Goto, Unsaved
    <3> QED BY <3>1, <3>2
  <2>4. CASE SaveFails(p) \/ Killed(p)
    BY <1>1, <2>4 DEF OneAgent, SaveFails, Killed, disk, Unsaved, Range
  <2>5. CASE WriteTemp(p)
    BY <1>1, <2>5 DEF OneAgent, WriteTemp, Goto, disk, ghosts, Unsaved, Range
  <2>6. CASE Start(p) \/ Load(p) \/ LoadLegacy(p) \/ RegisterRefused(p)
             \/ RegisterLost(p) \/ Stop(p)
    BY <1>1, <2>6 DEF OneAgent, Start, Load, LoadLegacy, Use, RegisterRefused, RegisterLost,
       Stop, Goto, disk, ghosts, Unsaved, Range
  <2> QED BY <2>1, <2>2, <2>3, <2>4, <2>5, <2>6 DEF Step
<1>4. ASSUME NEW f \in Paths, Sync(f) PROVE t \in UNION {Unsaved(p)' : p \in Procs}
  BY <1>1, <1>4 DEF Sync, local, ghosts, Range, Unsaved
<1>5. ASSUME NEW f \in Paths, NEW content \in {None, Broken}, Damage(f, content)
      PROVE  t \in UNION {Unsaved(p)' : p \in Procs}
  BY <1>1, <1>5 DEF Damage, Lose, local, Range, Unsaved
<1>6. CASE PowerFails
  <2>1. t \in issued /\ t \notin excused /\ \A p \in Procs : t \notin Unsaved(p)
    BY <1>6 DEF PowerFails
  <2>2. PICK f \in Paths : file[f] = t
    BY <1>1, <2>1 DEF Range
  <2>3. file'[f] # t
    BY <1>6 DEF PowerFails, Lose, Range
  <2> QED BY <1>6, <2>1, <2>2, <2>3 DEF PowerFails, Lose
<1> QED BY <1>2, <1>3, <1>4, <1>5, <1>6, Steps

LEMMA OneStep == OneAgent /\ OneInv /\ [Next]_vars => OneInv'
  BY TypeStep, CarriedStep, MissingStep, InUseStep, UsedStep, AccountedStep DEF OneInv

\* The token an agent runs with is the one its next life will find.
THEOREM TokensAreStored ==
    ASSUME OneAgent
    PROVE  Spec => []UsedIsStored
<1>1. OneInv => UsedIsStored
  BY DEF OneInv
<1>2. OneInv /\ [Next]_vars => OneInv'
  BY OneStep
<1> QED BY <1>1, <1>2, OneInit, PTL DEF Spec

\* No registration is orphaned without an end, a failure or damage.
THEOREM RegistrationsAccounted ==
    ASSUME OneAgent
    PROVE  Spec => []Accounted
<1>1. OneInv => Accounted
  BY DEF OneInv
<1>2. OneInv /\ [Next]_vars => OneInv'
  BY OneStep
<1> QED BY <1>1, <1>2, OneInit, PTL DEF Spec

\* The step of IdentityKept.
IdentityStays ==
    \A f \in Paths :
        identity[f] \in Tokens /\ f \notin damaged => identity'[f] = identity[f]

LEMMA IdentityStep == OneAgent /\ OneInv /\ [Next]_vars => IdentityStays
<1> SUFFICES ASSUME OneAgent, OneInv, [Next]_vars PROVE IdentityStays
  OBVIOUS
<1> USE TypeParts DEF OneInv, IdentityStays, Path, ProcTypes, GhostTypes
<1>1. CASE UNCHANGED vars
  BY <1>1 DEF vars, ghosts
<1>2. ASSUME NEW p \in Procs, Step(p) PROVE IdentityStays
  <2>1. CASE Load(p)
    BY <2>1 DEF Load, Use, InUse
  <2>2. CASE Rename(p)
    BY <2>2 DEF Rename, Use, InUse, Missing
  <2>3. CASE ~Load(p) /\ ~Rename(p)
    BY <1>2, <2>3 DEF Step, Start, LoadLegacy, WriteTemp, SaveFails, Register,
       RegisterRefused, RegisterLost, Stop, Killed, ghosts
  <2> QED BY <2>1, <2>2, <2>3
<1>3. ASSUME NEW f \in Paths, Sync(f) PROVE IdentityStays
  BY <1>3 DEF Sync, ghosts
<1>4. ASSUME NEW f \in Paths, NEW content \in {None, Broken}, Damage(f, content) PROVE IdentityStays
  BY <1>4 DEF Damage
<1>5. CASE PowerFails
  BY <1>5 DEF PowerFails
<1> QED BY <1>1, <1>2, <1>3, <1>4, <1>5, Steps

\* The token that was used from a file is used again, unless the file was damaged.
THEOREM AgentsKeepIdentity ==
    ASSUME OneAgent
    PROVE  Spec => IdentityKept
<1>1. OneInv /\ [Next]_vars => OneInv'
  BY OneStep
<1>2. OneInv /\ [Next]_vars => [IdentityStays]_vars
  BY IdentityStep
<1>3. Spec => [][IdentityStays]_vars
  BY <1>1, <1>2, OneInit, PTL DEF Spec
<1> QED BY <1>3, PTL DEF IdentityKept, IdentityStays
=============================================================================
