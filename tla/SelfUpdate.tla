------------------------------- MODULE SelfUpdate ------------------------------
(***************************************************************************)
(* The update command: update.Client.Run finds a release, downloads its    *)
(* checksum manifest and its binary, compares, and replaces the executable,*)
(* while releases are published, uploaded again and withdrawn, and while   *)
(* other update commands run.                                              *)
(*                                                                         *)
(* The bytes of a build stand for its checksum: two files have the same    *)
(* checksum if they are the same build. A request, a size that is not the  *)
(* one announced, and every file operation may fail (Fails).               *)
(***************************************************************************)
EXTENDS Naturals, Sequences

CONSTANTS
    Commands,   \* update commands
    Versions,   \* stable versions, <<major, minor, patch>>
    Nightlies,  \* nightly tags, <<time of the build>>, in the order of published_at
    Damaged,    \* bytes that are no build
    None,
    MaxRev,     \* bounds how often the binary of a release is uploaded
    Reuploaded  \* ... and these are the tags of which it is more than once

Tags == Versions \cup Nightlies
Parts == 0..999

ASSUME TagsAssumption ==
    /\ Versions \subseteq Parts \X Parts \X Parts
    /\ \A t \in Nightlies : t \in Seq(Nat) /\ Len(t) = 1
ASSUME ValuesAssumption ==
    Damaged # None /\ MaxRev \in Nat \ {0} /\ {Damaged, None} \cap Tags = {}

VARIABLES
    state,      \* per tag: "unpublished", "published" or "withdrawn"
    binary,     \* ... the upload its binary comes from, 0 for none
    sums,       \* ... the upload its checksum manifest was made for, 0 for none
    exe,        \* the build in the executable's place
    pc,         \* per command: the step it has come to
    current,    \* ... the version it was built as
    candidate,  \* ... the tag it has found
    expected,   \* ... the build the manifest names
    actual      \* ... what it has downloaded

site == <<state, binary, sums>>
vars == <<site, exe, pc, current, candidate, expected, actual>>

Build(t, n) == [tag |-> t, upload |-> n]
Builds == [tag : Tags, upload : 1..MaxRev]

TypeOK ==
    /\ state \in [Tags -> {"unpublished", "published", "withdrawn"}]
    /\ binary \in [Tags -> 0..MaxRev] /\ sums \in [Tags -> 0..MaxRev]
    /\ exe \in Builds
    /\ pc \in [Commands -> {"idle", "find", "checksum", "download", "verify", "apply"}]
    /\ current \in [Commands -> Tags]
    /\ candidate \in [Commands -> Tags \cup {None}]
    /\ expected \in [Commands -> Builds \cup {None}]
    /\ actual \in [Commands -> Builds \cup {Damaged, None}]

Published == {t \in Tags : state[t] = "published"}

Later(t, u) == t[1] > u[1]

\* Some version has been installed by hand. Of the nightlies before it some may
\* still be published.
Init ==
    /\ exe \in [tag : Tags, upload : {1}]
    /\ state \in [Tags -> {"unpublished", "published"}] /\ state[exe.tag] = "published"
    /\ \A t \in Published \ {exe.tag} :
        {t, exe.tag} \subseteq Nightlies /\ Later(exe.tag, t)
    /\ binary = [t \in Tags |-> IF t \in Published THEN 1 ELSE 0] /\ sums = binary
    /\ pc = [c \in Commands |-> "idle"]
    /\ current = [c \in Commands |-> exe.tag]
    /\ candidate = [c \in Commands |-> None]
    /\ expected = [c \in Commands |-> None]
    /\ actual = [c \in Commands |-> None]

-----------------------------------------------------------------------------
(* The release site: a binary and the manifest are uploaded one after the   *)
(* other, a stable release after it was published, and perhaps once more.   *)

Publish(t) ==
    /\ state[t] = "unpublished" /\ state' = [state EXCEPT ![t] = "published"]
    /\ t \in Nightlies => \A u \in Published \cap Nightlies : Later(t, u)
    /\ UNCHANGED <<binary, sums, exe, pc, current, candidate, expected, actual>>

UploadBinary(t) ==
    /\ binary[t] < MaxRev /\ (binary[t] = 0 \/ t \in Reuploaded)
    /\ binary' = [binary EXCEPT ![t] = @ + 1]
    /\ UNCHANGED <<state, sums, exe, pc, current, candidate, expected, actual>>

UploadSums(t) ==
    /\ sums[t] # binary[t] /\ sums' = [sums EXCEPT ![t] = binary[t]]
    /\ UNCHANGED <<state, binary, exe, pc, current, candidate, expected, actual>>

Withdraw(t) ==
    /\ state[t] = "published" /\ state' = [state EXCEPT ![t] = "withdrawn"]
    /\ UNCHANGED <<binary, sums, exe, pc, current, candidate, expected, actual>>

-----------------------------------------------------------------------------
(* Find. *)

isNightly(t) == t \in Nightlies

\* A mutant: every part is compared for itself.
AnyPartGreater(a, b) == \E i \in 1..3 : b[i] > a[i]

\* The first part in which the versions differ decides.
stableNeedsUpdate(a, b) ==
    \E i \in 1..3 : b[i] > a[i] /\ \A j \in 1..i - 1 : a[j] = b[j]

\* releaseCandidate: both assets are there.
Complete(t) == binary[t] > 0 /\ sums[t] > 0

Candidates == {t \in Published \cap Nightlies : Complete(t)}

latestNightly(t) == t \in Candidates /\ \A u \in Candidates : u # t => Later(t, u)

Run(c) ==
    /\ pc[c] = "idle" /\ pc' = [pc EXCEPT ![c] = "find"]
    /\ current' = [current EXCEPT ![c] = exe.tag]
    /\ candidate' = [candidate EXCEPT ![c] = None]
    /\ expected' = [expected EXCEPT ![c] = None]
    /\ actual' = [actual EXCEPT ![c] = None]
    /\ UNCHANGED <<site, exe>>

Found(c, t) ==
    /\ pc' = [pc EXCEPT ![c] = "checksum"]
    /\ candidate' = [candidate EXCEPT ![c] = t]

NotFound(c) == pc' = [pc EXCEPT ![c] = "idle"] /\ UNCHANGED candidate

\* Which stable release is called the latest is the site's choice.
FindStable(c) ==
    /\ pc[c] = "find" /\ ~isNightly(current[c])
    /\ \E t \in Published \cap Versions :
        IF Complete(t) /\ stableNeedsUpdate(current[c], t) THEN Found(c, t) ELSE NotFound(c)
    /\ UNCHANGED <<site, exe, current, expected, actual>>

FindNightly(c) ==
    /\ pc[c] = "find" /\ isNightly(current[c])
    /\ \/ \E t \in Nightlies :
            /\ latestNightly(t)
            /\ IF t # current[c] THEN Found(c, t) ELSE NotFound(c)
       \/ Candidates = {} /\ NotFound(c)
    /\ UNCHANGED <<site, exe, current, expected, actual>>

-----------------------------------------------------------------------------
(* downloadVerifyAndApply. *)

downloadChecksum(c) ==
    LET t == candidate[c] IN
    /\ pc[c] = "checksum" /\ pc' = [pc EXCEPT ![c] = "download"]
    /\ t \in Published
    /\ expected' = [expected EXCEPT ![c] = Build(t, sums[t])]
    /\ UNCHANGED <<site, exe, current, candidate, actual>>

downloadAsset(c) ==
    LET t == candidate[c] IN
    /\ pc[c] = "download" /\ pc' = [pc EXCEPT ![c] = "verify"]
    /\ t \in Published
    /\ \E bytes \in {Build(t, binary[t]), Damaged} :
        actual' = [actual EXCEPT ![c] = bytes]
    /\ UNCHANGED <<site, exe, current, candidate, expected>>

\* A mutant: only a file that is no build at all is refused.
VerifyShape(c) ==
    /\ pc[c] = "verify"
    /\ pc' = [pc EXCEPT ![c] = IF actual[c] # None THEN "apply" ELSE "idle"]
    /\ UNCHANGED <<site, exe, current, candidate, expected, actual>>

Verify(c) ==
    /\ pc[c] = "verify"
    /\ pc' = [pc EXCEPT ![c] = IF actual[c] = expected[c] THEN "apply" ELSE "idle"]
    /\ UNCHANGED <<site, exe, current, candidate, expected, actual>>

\* goupdate.Apply replaces the executable or leaves it alone (Fails).
Apply(c) ==
    /\ pc[c] = "apply" /\ pc' = [pc EXCEPT ![c] = "idle"]
    /\ exe' = actual[c]
    /\ UNCHANGED <<site, current, candidate, expected, actual>>

\* A step fails, or the command is killed.
Fails(c) ==
    /\ pc[c] # "idle" /\ pc' = [pc EXCEPT ![c] = "idle"]
    /\ UNCHANGED <<site, exe, current, candidate, expected, actual>>

-----------------------------------------------------------------------------
Next ==
    \/ \E t \in Tags : Publish(t) \/ UploadBinary(t) \/ UploadSums(t) \/ Withdraw(t)
    \/ \E c \in Commands :
        \/ Run(c) \/ FindStable(c) \/ FindNightly(c)
        \/ downloadChecksum(c) \/ downloadAsset(c) \/ Verify(c) \/ Apply(c)
        \/ Fails(c)

Spec == Init /\ [][Next]_vars

-----------------------------------------------------------------------------
(* Properties. *)

\* Whatever is uploaded, damaged or withdrawn between the steps, the executable
\* is a whole build, and the one the command has announced: Run returns the tag
\* of its candidate as the version now installed.
InstallsWhatItFound ==
    [][exe' # exe => \E c \in Commands :
        /\ candidate[c] \in Tags
        /\ exe' \in {Build(candidate[c], n) : n \in 1..binary[candidate[c]]}]_vars

\* The order of version numbers.
Rank(v) == v[1] * 1000000 + v[2] * 1000 + v[3]

\* A stable agent installs a stable version that is greater than its own.
StableInstallsNewer ==
    [][\A c \in Commands :
        pc[c] = "apply" /\ exe' # exe /\ pc'[c] = "idle" /\ ~isNightly(current[c])
            => exe'.tag \in Versions /\ Rank(exe'.tag) > Rank(current[c])]_vars

\* "Run updates only when [it] finds a newer release" (update.go:40): a nightly agent
\* installs a nightly that is later than its own.
NightlyInstallsNewer ==
    [][\A c \in Commands :
        pc[c] = "apply" /\ exe' # exe /\ pc'[c] = "idle" /\ isNightly(current[c])
            => exe'.tag \in Nightlies /\ Later(exe'.tag, current[c])]_vars
=============================================================================
