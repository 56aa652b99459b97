------------------------------- MODULE Discovery -------------------------------
(***************************************************************************)
(* Auto-discovery through the lives of the agent: resolveAutoDiscovery     *)
(* loads the credentials file, takes a legacy file over, or registers and  *)
(* saves the token it gets. A process may end between any two steps.       *)
(*                                                                         *)
(* A file holds a token or not. Looking for the three files (two calls of  *)
(* Stat) is one action: what is created meanwhile is found when it is      *)
(* read.                                                                   *)
(***************************************************************************)
EXTENDS Naturals, Functions

CONSTANTS
    Procs,      \* agents that may be started, one of each at a time
    Tokens,     \* what the server hands out
    Empty,      \* the token of an answer without one
    Broken,     \* a file that cannot be read or parsed
    None,
    Homes,      \* whether os.UserConfigDir finds a directory
    MaxFaults   \* bounds ends, failures and damage

ASSUME ValuesAssumption ==
    /\ {Empty, Broken, None} \cap Tokens = {}
    /\ Empty # Broken /\ Empty # None /\ Broken # None
ASSUME FaultsAssumption == MaxFaults \in Nat /\ Homes \subseteq BOOLEAN

VARIABLES
    file,       \* per path: the token in it, Empty, Broken or None for no file
    unsynced,   \* paths whose last write need not be on the disk yet
    damaged,    \* paths that were broken or removed after their last save
    pc,         \* per process: the step of resolveAutoDiscovery it has come to
    store,      \* ... path and legacyPath; the same path twice for none
    creds,      \* ... its local credentials
    fresh,      \* ... they come from the server, not from the legacy file
    temp,       \* ... the temporary file of Save
    identity,   \* per path: the last token an agent used from it
    issued,     \* tokens of the server
    excused,    \* tokens lost to an end, a failure or damage
    faults

disk == <<file, unsynced, damaged>>
local == <<pc, store, creds, fresh, temp>>
ghosts == <<identity, issued, excused>>
vars == <<disk, local, ghosts, faults>>

Paths == {"sonar", "komari", "beside"}
Contents == Tokens \cup {Empty, Broken, None}

TypeOK ==
    /\ file \in [Paths -> Contents]
    /\ unsynced \subseteq Paths /\ damaged \subseteq Paths
    /\ pc \in [Procs -> {"off", "load", "legacy", "register", "save", "rename", "run"}]
    /\ store \in [Procs -> [path : Paths, legacy : Paths]]
    /\ creds \in [Procs -> Tokens \cup {Empty, None}]
    /\ fresh \in [Procs -> BOOLEAN]
    /\ temp \in [Procs -> Contents]
    /\ identity \in [Paths -> Tokens \cup {Empty, None}]
    /\ issued \subseteq Tokens /\ excused \subseteq Tokens
    /\ faults \in 0..MaxFaults

\* An upstream agent may have left its files.
Init ==
    /\ file \in [Paths -> Tokens \cup {None}] /\ file["sonar"] = None
    /\ unsynced = {} /\ damaged = {}
    /\ pc = [p \in Procs |-> "off"]
    /\ store = [p \in Procs |-> [path |-> "sonar", legacy |-> "sonar"]]
    /\ creds = [p \in Procs |-> None]
    /\ fresh = [p \in Procs |-> FALSE]
    /\ temp = [p \in Procs |-> None]
    /\ identity = [f \in Paths |-> None]
    /\ issued = Range(file) \cap Tokens /\ excused = {}
    /\ faults = 0

Goto(p, step) == pc' = [pc EXCEPT ![p] = step]
Fault == faults < MaxFaults /\ faults' = faults + 1
Path(p) == store[p].path

\* The token a process holds and no file has yet.
Unsaved(p) == IF pc[p] \in {"save", "rename"} /\ fresh[p] THEN {creds[p]} \cap Tokens ELSE {}

-----------------------------------------------------------------------------
(* Load. *)

\* A mutant: without a configuration directory there is no path.
DefaultStoreUnset(home) ==
    IF home THEN [path |-> "sonar", legacy |-> "beside"]
            ELSE [path |-> None, legacy |-> "beside"]

\* defaultCredentialStore: without a configuration directory there is only the
\* file beside the executable.
DefaultStore(home) ==
    LET legacy == IF file["sonar"] = None /\ file["komari"] # None
                  THEN "komari" ELSE "beside"
    IN  IF home THEN [path |-> "sonar", legacy |-> legacy]
                ELSE [path |-> "beside", legacy |-> "beside"]

Start(p) ==
    /\ pc[p] = "off" /\ Goto(p, "load")
    /\ \E home \in Homes : store' = [store EXCEPT ![p] = DefaultStore(home)]
    /\ UNCHANGED <<disk, creds, fresh, temp, ghosts, faults>>

\* loadCredentials: an empty token is refused.
Readable(content) == content \in Tokens

\* The token is in use from here on.
Use(p, token) ==
    /\ Goto(p, "run")
    /\ creds' = [creds EXCEPT ![p] = token]
    /\ identity' = [identity EXCEPT ![Path(p)] = token]

\* A missing file, but not one that cannot be read, leads to the legacy file.
TriesLegacy(p, content) == content = None /\ store[p].legacy # Path(p)

\* A mutant: the legacy file comes first.
LoadLegacyFirst(p) ==
    /\ pc[p] = "load"
    /\ \/ store[p].legacy # Path(p) /\ Goto(p, "legacy") /\ UNCHANGED <<creds, identity>>
       \/ Readable(file[Path(p)]) /\ Use(p, file[Path(p)])
       \/ Goto(p, "register") /\ UNCHANGED <<creds, identity>>
    /\ UNCHANGED <<disk, store, fresh, temp, issued, excused, faults>>

\* A mutant: the agent ends when a file cannot be loaded.
LoadGivesUp(p) ==
    LET content == file[Path(p)] IN
    /\ pc[p] = "load"
    /\ \/ Readable(content) /\ Use(p, content)
       \/ /\ ~Readable(content)
          /\ Goto(p, IF content = Broken THEN "off" ELSE "register")
          /\ UNCHANGED <<creds, identity>>
    /\ UNCHANGED <<disk, store, fresh, temp, issued, excused, faults>>

Load(p) ==
    LET content == file[Path(p)] IN
    /\ pc[p] = "load"
    /\ \/ Readable(content) /\ Use(p, content)
       \/ /\ ~Readable(content)
          /\ Goto(p, IF TriesLegacy(p, content) THEN "legacy" ELSE "register")
          /\ UNCHANGED <<creds, identity>>
    /\ UNCHANGED <<disk, store, fresh, temp, issued, excused, faults>>

LoadLegacy(p) ==
    LET content == file[store[p].legacy] IN
    /\ pc[p] = "legacy"
    /\ \/ /\ Readable(content) /\ Goto(p, "save")
          /\ creds' = [creds EXCEPT ![p] = content]
          /\ fresh' = [fresh EXCEPT ![p] = FALSE]
       \/ /\ ~Readable(content) /\ Goto(p, "register")
          /\ UNCHANGED <<creds, fresh>>
    /\ UNCHANGED <<disk, store, temp, ghosts, faults>>

-----------------------------------------------------------------------------
(* Save. *)

\* A mutant: the file itself is truncated and written.
WriteInPlace(p) ==
    /\ pc[p] = "save" /\ Goto(p, "rename")
    /\ temp' = [temp EXCEPT ![p] = creds[p]]
    /\ file' = [file EXCEPT ![Path(p)] = Broken]
    /\ UNCHANGED <<unsynced, damaged, store, creds, fresh, ghosts, faults>>

\* The temporary file is created, written and closed; nobody reads it before.
WriteTemp(p) ==
    /\ pc[p] = "save" /\ Goto(p, "rename")
    /\ temp' = [temp EXCEPT ![p] = creds[p]]
    /\ UNCHANGED <<disk, store, creds, fresh, ghosts, faults>>

\* A mutant: a migrated token is saved where it was.
RenameToLegacy(p) ==
    /\ pc[p] = "rename" /\ Use(p, creds[p])
    /\ file' = [file EXCEPT ![store[p].legacy] = temp[p]]
    /\ temp' = [temp EXCEPT ![p] = None]
    /\ unsynced' = unsynced \cup {Path(p)} /\ damaged' = damaged \ {Path(p)}
    /\ UNCHANGED <<store, fresh, issued, excused, faults>>

Rename(p) ==
    /\ pc[p] = "rename" /\ Use(p, creds[p])
    /\ file' = [file EXCEPT ![Path(p)] = temp[p]]
    /\ temp' = [temp EXCEPT ![p] = None]
    /\ unsynced' = unsynced \cup {Path(p)} /\ damaged' = damaged \ {Path(p)}
    /\ UNCHANGED <<store, fresh, issued, excused, faults>>

\* A step of Save fails. The agent registers if it was to migrate, and ends if
\* it was to save what it has just got.
SaveFails(p) ==
    /\ pc[p] \in {"save", "rename"} /\ Fault
    /\ Goto(p, IF fresh[p] THEN "off" ELSE "register")
    /\ temp' = [temp EXCEPT ![p] = None]
    /\ excused' = excused \cup Unsaved(p)
    /\ UNCHANGED <<disk, store, creds, fresh, identity, issued>>

-----------------------------------------------------------------------------
(* registerWithAutoDiscovery. The token of an answer is not checked. *)

\* A mutant: the agent runs with the token and does not wait for the save.
RegisterUnsaved(p) ==
    /\ pc[p] = "register"
    /\ \E t \in (Tokens \ issued) \cup {Empty} :
        /\ Use(p, t)
        /\ issued' = issued \cup ({t} \cap Tokens)
        /\ fresh' = [fresh EXCEPT ![p] = TRUE]
    /\ UNCHANGED <<disk, store, temp, excused, faults>>

Register(p) ==
    /\ pc[p] = "register" /\ Goto(p, "save")
    /\ \E t \in (Tokens \ issued) \cup {Empty} :
        /\ creds' = [creds EXCEPT ![p] = t]
        /\ issued' = issued \cup ({t} \cap Tokens)
    /\ fresh' = [fresh EXCEPT ![p] = TRUE]
    /\ UNCHANGED <<disk, store, temp, identity, excused, faults>>

RegisterRefused(p) ==
    /\ pc[p] = "register" /\ Goto(p, "off")
    /\ UNCHANGED <<disk, store, creds, fresh, temp, ghosts, faults>>

\* The server registers the agent, and the answer does not arrive.
RegisterLost(p) ==
    /\ pc[p] = "register" /\ Goto(p, "off") /\ Fault
    /\ \E t \in Tokens \ issued :
        issued' = issued \cup {t} /\ excused' = excused \cup {t}
    /\ UNCHANGED <<disk, store, creds, fresh, temp, identity>>

-----------------------------------------------------------------------------
(* The end of a process, the disk and its users. *)

Stop(p) ==
    /\ pc[p] = "run" /\ Goto(p, "off")
    /\ UNCHANGED <<disk, store, creds, fresh, temp, ghosts, faults>>

\* The deferred Remove does not run: the temporary file stays.
Killed(p) ==
    /\ pc[p] \notin {"off", "run"} /\ Goto(p, "off") /\ Fault
    /\ excused' = excused \cup Unsaved(p)
    /\ UNCHANGED <<disk, store, creds, fresh, temp, identity, issued>>

Sync(f) ==
    /\ f \in unsynced /\ unsynced' = unsynced \ {f}
    /\ UNCHANGED <<file, damaged, local, ghosts, faults>>

Lose(lost, content) ==
    /\ file' = [f \in Paths |-> IF f \in lost THEN content ELSE file[f]]
    /\ damaged' = damaged \cup lost

\* Save does not sync: what is not on the disk may be lost.
PowerFails ==
    /\ Fault
    /\ \E lost \in SUBSET unsynced :
        /\ Lose(lost, Broken)
        /\ excused' = excused \cup (UNION {{file[f]} \cap Tokens : f \in lost})
                              \cup (UNION {Unsaved(p) : p \in Procs})
    /\ pc' = [p \in Procs |-> "off"] /\ unsynced' = {}
    /\ UNCHANGED <<store, creds, fresh, temp, identity, issued>>

\* A file is damaged or removed by somebody else.
Damage(f, content) ==
    /\ file[f] # None /\ Fault /\ Lose({f}, content)
    /\ excused' = excused \cup ({file[f]} \cap Tokens)
    /\ UNCHANGED <<unsynced, local, identity, issued>>

-----------------------------------------------------------------------------
Step(p) ==
    \/ Start(p) \/ Load(p) \/ LoadLegacy(p)
    \/ WriteTemp(p) \/ Rename(p) \/ SaveFails(p)
    \/ Register(p) \/ RegisterRefused(p) \/ RegisterLost(p)
    \/ Stop(p) \/ Killed(p)

Next ==
    \/ \E p \in Procs : Step(p)
    \/ \E f \in Paths : Sync(f) \/ Damage(f, None) \/ Damage(f, Broken)
    \/ PowerFails

Spec == Init /\ [][Next]_vars

\* An agent is started again (by the service manager), goes on, and a server
\* that is asked again and again registers it.
Fairness ==
    \A p \in Procs :
        /\ WF_vars(Start(p) \/ Load(p) \/ LoadLegacy(p))
        /\ WF_vars(WriteTemp(p) \/ Rename(p))
        /\ SF_vars(Register(p))

LiveSpec == Spec /\ Fairness

-----------------------------------------------------------------------------
(* Properties. *)

\* A credentials file is replaced in one step: at no end of the process, and
\* with no other agent saving at the same time, is half a file left behind.
FileWhole == \A f \in Paths : file[f] = Broken => f \in damaged

\* The token an agent runs with is the one its next life will find, so a restart
\* does not make it another agent. (One agent at a time: of two that register at
\* once the later save wins.)
UsedIsStored ==
    \A p \in Procs :
        pc[p] = "run" => Path(p) \in damaged \/ file[Path(p)] = creds[p]

\* No registration on the server is orphaned while all goes well: a token that
\* was handed out is in a file or about to be saved, or it was lost to an end of
\* the process, a failure or damage. (One agent at a time.)
Accounted ==
    issued \subseteq excused \cup Range(file) \cup UNION {Unsaved(p) : p \in Procs}

\* The token that was used from a file is used again, by the next life that
\* has the same file, unless the file was damaged. (One agent at a time.)
IdentityKept ==
    [][\A f \in Paths :
        identity[f] \in Tokens /\ f \notin damaged => identity'[f] = identity[f]]_vars

\* After the last fault, an agent that is started again and again in one
\* environment, with or without a configuration directory, comes to run, and
\* stays with one token.
SettlesDown ==
    (\E path \in {"sonar", "beside"} : <>[](\A p \in Procs : Path(p) = path)) =>
    \E t \in Tokens \cup {Empty} :
        \A p \in Procs :
            /\ []<>(pc[p] = "run")
            /\ <>[](pc[p] = "run" => creds[p] = t)
=============================================================================
