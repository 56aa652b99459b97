---------------------------- MODULE SelfUpdate_proofs ---------------------------
(* Proofs about SelfUpdate, for any versions, commands and uploads. *)
EXTENDS SelfUpdate, TLAPS

USE TagsAssumption, ValuesAssumption

SiteTypes ==
    /\ state \in [Tags -> {"unpublished", "published", "withdrawn"}]
    /\ binary \in [Tags -> 0..MaxRev] /\ sums \in [Tags -> 0..MaxRev]
    /\ exe \in Builds
CommandTypes ==
    /\ pc \in [Commands -> {"idle", "find", "checksum", "download", "verify", "apply"}]
    /\ current \in [Commands -> Tags]
    /\ candidate \in [Commands -> Tags \cup {None}]
FileTypes ==
    /\ expected \in [Commands -> Builds \cup {None}]
    /\ actual \in [Commands -> Builds \cup {Damaged, None}]

LEMMA TypeParts == TypeOK <=> SiteTypes /\ CommandTypes /\ FileTypes
  BY DEF TypeOK, SiteTypes, CommandTypes, FileTypes

\* A command in its course, with the release it has found.
Underway(c) == pc[c] \in {"checksum", "download", "verify", "apply"}

\* What has been found is a whole release that the running version needs.
Needed(c) ==
    /\ candidate[c] \in Tags /\ Complete(candidate[c])
    /\ ~isNightly(current[c]) =>
        candidate[c] \in Versions /\ stableNeedsUpdate(current[c], candidate[c])
    /\ isNightly(current[c]) =>
        candidate[c] \in Nightlies

\* The build the manifest names is one of the uploads of this release.
Named(c) == \E n \in 1..binary[candidate[c]] : expected[c] = Build(candidate[c], n)

CommandInv ==
    \A c \in Commands :
        /\ Underway(c) => Needed(c)
        /\ pc[c] \in {"download", "verify", "apply"} => Named(c)
        /\ pc[c] = "apply" => actual[c] = expected[c]
SiteInv == \A t \in Tags : sums[t] <= binary[t]

UpdateInv == TypeOK /\ SiteInv /\ CommandInv

LEMMA Steps ==
    ASSUME [Next]_vars
    PROVE  \/ UNCHANGED vars
           \/ \E t \in Tags : Publish(t) \/ UploadBinary(t) \/ UploadSums(t) \/ Withdraw(t)
           \/ \E c \in Commands : Run(c)
           \/ \E c \in Commands : FindStable(c)
           \/ \E c \in Commands : FindNightly(c)
           \/ \E c \in Commands : downloadChecksum(c)
           \/ \E c \in Commands : downloadAsset(c)
           \/ \E c \in Commands : Verify(c)
           \/ \E c \in Commands : Apply(c)
           \/ \E c \in Commands : Fails(c)
  BY DEF Next

LEMMA TypeInit == Init => TypeOK
<1> SUFFICES ASSUME Init PROVE TypeOK
  OBVIOUS
<1>1. SiteTypes
  BY DEF Init, SiteTypes, Builds, Published
<1>2. CommandTypes /\ FileTypes
  BY DEF Init, CommandTypes, FileTypes, Builds
<1> QED BY <1>1, <1>2, TypeParts

LEMMA BuildType == \A t \in Tags, n \in 1..MaxRev : Build(t, n) \in Builds
  BY DEF Build, Builds

LEMMA InvInit == Init => UpdateInv
<1> SUFFICES ASSUME Init PROVE UpdateInv
  OBVIOUS
<1>1. SiteInv
  BY DEF Init, SiteInv
<1>2. CommandInv
  BY DEF Init, CommandInv, Underway
<1> QED BY <1>1, <1>2, TypeInit DEF UpdateInv

\* Uploads are never taken back, so what a command has found stays whole and
\* what it was told stays an upload.
LEMMA SiteStep ==
    ASSUME UpdateInv, NEW t \in Tags,
           Publish(t) \/ UploadBinary(t) \/ UploadSums(t) \/ Withdraw(t)
    PROVE  UpdateInv'
<1> USE TypeParts DEF UpdateInv, SiteTypes
<1>1. /\ SiteTypes' /\ SiteInv'
      /\ \A u \in Tags : binary[u] <= binary'[u] /\ (Complete(u) => Complete(u)')
  <2>1. CASE Publish(t) \/ Withdraw(t)
    BY <2>1 DEF Publish, Withdraw, SiteInv, Complete
  <2>2. CASE UploadBinary(t)
    BY <2>2 DEF UploadBinary, SiteInv, Complete
  <2>3. CASE UploadSums(t)
    BY <2>3 DEF UploadSums, SiteInv, Complete
  <2> QED BY <2>1, <2>2, <2>3
<1>2. UNCHANGED <<pc, current, candidate, expected, actual>>
  BY DEF Publish, UploadBinary, UploadSums, Withdraw
<1>3. TypeOK'
  BY <1>1, <1>2 DEF TypeOK, CommandTypes, FileTypes
<1>4. ASSUME NEW c \in Commands, Needed(c) PROVE Needed(c)'
  BY <1>1, <1>2, <1>4 DEF Needed, isNightly, stableNeedsUpdate
<1>5. ASSUME NEW c \in Commands, candidate[c] \in Tags, Named(c) PROVE Named(c)'
  BY <1>1, <1>2, <1>5 DEF Named
<1>6. CommandInv'
  BY <1>2, <1>4, <1>5 DEF CommandInv, Underway, Needed
<1> QED BY <1>1, <1>3, <1>6

LEMMA FoundTypes ==
    ASSUME CommandTypes, NEW c \in Commands,
           NotFound(c) \/ \E t \in Tags : Found(c, t)
    PROVE  /\ pc' \in [Commands -> {"idle", "find", "checksum", "download", "verify", "apply"}]
           /\ candidate' \in [Commands -> Tags \cup {None}]
  BY DEF CommandTypes, Found, NotFound

LEMMA TypeStepCommand ==
    ASSUME UpdateInv, NEW c \in Commands,
           \/ Run(c) \/ FindStable(c) \/ FindNightly(c) \/ downloadChecksum(c)
           \/ downloadAsset(c) \/ Verify(c) \/ Apply(c) \/ Fails(c)
    PROVE  SiteTypes' /\ CommandTypes' /\ FileTypes' /\ SiteInv'
<1> USE TypeParts DEF UpdateInv, site
<1>1. CASE Run(c)
  <2>1. exe.tag \in Tags
    BY DEF SiteTypes, Builds
  <2> QED BY <1>1, <2>1 DEF Run, SiteTypes, CommandTypes, FileTypes, SiteInv
<1>2. CASE FindStable(c)
  <2>1. \E t \in Tags : Found(c, t) \/ NotFound(c)
    BY <1>2 DEF FindStable, Published
  <2>2. UNCHANGED <<site, exe, current, expected, actual>>
    BY <1>2 DEF FindStable
  <2> QED BY <2>1, <2>2, FoundTypes DEF SiteTypes, CommandTypes, FileTypes, SiteInv
<1>3. CASE FindNightly(c)
  <2>1. NotFound(c) \/ \E t \in Tags : Found(c, t)
    BY <1>3 DEF FindNightly, Tags
  <2>2. UNCHANGED <<site, exe, current, expected, actual>>
    BY <1>3 DEF FindNightly
  <2> QED BY <2>1, <2>2, FoundTypes DEF SiteTypes, CommandTypes, FileTypes, SiteInv
<1>4. CASE downloadChecksum(c)
  <2>1. sums[candidate[c]] \in 1..MaxRev
    BY <1>4 DEF downloadChecksum, CommandInv, Underway, Needed, Complete, SiteTypes
  <2>2. Build(candidate[c], sums[candidate[c]]) \in Builds
    BY <1>4, <2>1, BuildType DEF downloadChecksum, Published
  <2> QED BY <1>4, <2>2 DEF downloadChecksum, SiteTypes, CommandTypes, FileTypes, SiteInv
<1>5. CASE downloadAsset(c)
  <2>1. binary[candidate[c]] \in 1..MaxRev
    BY <1>5 DEF downloadAsset, CommandInv, Underway, Needed, Complete, SiteTypes
  <2>2. Build(candidate[c], binary[candidate[c]]) \in Builds
    BY <1>5, <2>1, BuildType DEF downloadAsset, Published
  <2> QED BY <1>5, <2>2 DEF downloadAsset, SiteTypes, CommandTypes, FileTypes, SiteInv
<1>6. CASE Verify(c) \/ Fails(c)
  BY <1>6 DEF Verify, Fails, SiteTypes, CommandTypes, FileTypes, SiteInv
<1>7. CASE Apply(c)
  <2>1. actual[c] \in Builds
    <3>1. candidate[c] \in Tags /\ Named(c) /\ actual[c] = expected[c]
      BY <1>7 DEF Apply, CommandInv, Underway, Needed
    <3>2. binary[candidate[c]] \in 0..MaxRev
      BY <3>1 DEF SiteTypes
    <3> QED BY <3>1, <3>2, BuildType DEF Named
  <2> QED BY <1>7, <2>1 DEF Apply, SiteTypes, CommandTypes, FileTypes, SiteInv
<1> QED BY <1>1, <1>2, <1>3, <1>4, <1>5, <1>6, <1>7

LEMMA CommandStep ==
    ASSUME UpdateInv, NEW c \in Commands,
           \/ Run(c) \/ FindStable(c) \/ FindNightly(c) \/ downloadChecksum(c)
           \/ downloadAsset(c) \/ Verify(c) \/ Apply(c) \/ Fails(c)
    PROVE  CommandInv'
<1> USE TypeParts DEF UpdateInv, SiteTypes, CommandTypes, FileTypes
<1>1. UNCHANGED site
  BY DEF Run, FindStable, FindNightly, Found, NotFound, downloadChecksum, downloadAsset,
     Verify, Apply, Fails
<1>2. \A d \in Commands \ {c} :
        UNCHANGED <<pc[d], current[d], candidate[d], expected[d], actual[d]>>
  BY DEF Run, FindStable, FindNightly, Found, NotFound, downloadChecksum, downloadAsset,
     Verify, Apply, Fails
<1>3. ASSUME NEW d \in Commands,
             UNCHANGED <<current[d], candidate[d]>>, Needed(d)
      PROVE  Needed(d)'
  BY <1>1, <1>3 DEF Needed, Complete, isNightly, stableNeedsUpdate, site
<1>4. ASSUME NEW d \in Commands, UNCHANGED <<candidate[d], expected[d]>>, Named(d)
      PROVE  Named(d)'
  BY <1>1, <1>4 DEF Named, site
<1>5. ASSUME NEW d \in Commands \ {c}
      PROVE  /\ Underway(d)' => Needed(d)'
             /\ pc'[d] \in {"download", "verify", "apply"} => Named(d)'
             /\ pc'[d] = "apply" => actual'[d] = expected'[d]
  BY <1>2, <1>3, <1>4 DEF CommandInv, Underway
<1>6. /\ Underway(c)' => Needed(c)'
      /\ pc'[c] \in {"download", "verify", "apply"} => Named(c)'
      /\ pc'[c] = "apply" => actual'[c] = expected'[c]
  <2>1. CASE Run(c) \/ Apply(c) \/ Fails(c)
    BY <2>1 DEF Run, Apply, Fails, Underway
  <2>2. CASE FindStable(c)
    <3>1. CASE NotFound(c)
      BY <3>1 DEF NotFound, Underway
    <3>2. ASSUME NEW t \in Published \cap Versions, Complete(t),
                 stableNeedsUpdate(current[c], t), Found(c, t)
          PROVE  Needed(c)' /\ pc'[c] = "checksum"
      <4>1. /\ candidate'[c] = t /\ current'[c] = current[c] /\ pc'[c] = "checksum"
            /\ ~isNightly(current[c]) /\ t \in Tags
        BY <2>2, <3>2 DEF FindStable, Found, Published
      <4> QED BY <1>1, <3>2, <4>1 DEF Needed, Complete, isNightly, stableNeedsUpdate, site
    <3> QED BY <2>2, <3>1, <3>2 DEF FindStable, Underway
  <2>3. CASE FindNightly(c)
    <3>1. CASE NotFound(c)
      BY <3>1 DEF NotFound, Underway
    <3>2. ASSUME NEW t \in Nightlies, latestNightly(t), t # current[c], Found(c, t)
          PROVE  Needed(c)' /\ pc'[c] = "checksum"
      <4>1. /\ candidate'[c] = t /\ current'[c] = current[c] /\ pc'[c] = "checksum"
            /\ isNightly(current[c]) /\ t \in Tags
        BY <2>3, <3>2 DEF FindNightly, Found, Tags
      <4>2. Complete(t)
        BY <3>2 DEF latestNightly, Candidates
      <4> QED BY <1>1, <4>1, <4>2 DEF Needed, Complete, isNightly, site
    <3> QED BY <2>3, <3>1, <3>2 DEF FindNightly, Underway
  <2>4. CASE downloadChecksum(c)
    <3>1. /\ pc'[c] = "download" /\ candidate[c] \in Tags /\ Needed(c)
          /\ expected'[c] = Build(candidate[c], sums[candidate[c]])
          /\ UNCHANGED <<current[c], candidate[c]>>
      BY <2>4 DEF downloadChecksum, CommandInv, Underway, Published
    <3>2. sums[candidate[c]] \in 1..binary[candidate[c]]
      BY <3>1 DEF Needed, Complete, SiteInv
    <3> QED BY <1>1, <1>3, <3>1, <3>2 DEF Named, site
  <2>5. CASE downloadAsset(c) \/ Verify(c)
    <3>1. /\ Needed(c) /\ Named(c) /\ UNCHANGED <<current[c], candidate[c], expected[c]>>
          /\ pc'[c] = "apply" => actual'[c] = expected'[c]
      BY <2>5 DEF downloadAsset, Verify, CommandInv, Underway
    <3> QED BY <1>3, <1>4, <3>1
  <2> QED BY <2>1, <2>2, <2>3, <2>4, <2>5
<1> QED BY <1>5, <1>6 DEF CommandInv

LEMMA InvStep == UpdateInv /\ [Next]_vars => UpdateInv'
<1> SUFFICES ASSUME UpdateInv, [Next]_vars PROVE UpdateInv'
  OBVIOUS
<1>1. CASE UNCHANGED vars
  BY <1>1 DEF UpdateInv, TypeOK, SiteInv, CommandInv, Underway, Needed, Named, Complete,
     isNightly, stableNeedsUpdate, vars, site
<1>2. ASSUME NEW t \in Tags, Publish(t) \/ UploadBinary(t) \/ UploadSums(t) \/ Withdraw(t)
      PROVE  UpdateInv'
  BY <1>2, SiteStep
<1>3. ASSUME NEW c \in Commands,
             \/ Run(c) \/ FindStable(c) \/ FindNightly(c) \/ downloadChecksum(c)
             \/ downloadAsset(c) \/ Verify(c) \/ Apply(c) \/ Fails(c)
      PROVE  UpdateInv'
  <2>1. SiteTypes' /\ CommandTypes' /\ FileTypes' /\ SiteInv'
    BY <1>3, TypeStepCommand
  <2> QED BY <1>3, <2>1, CommandStep
          DEF UpdateInv, TypeOK, SiteTypes, CommandTypes, FileTypes
<1> QED BY <1>1, <1>2, <1>3, Steps

\* Every variable keeps its type, for any number of commands and releases.
THEOREM TypeCorrect == Spec => []TypeOK
<1>1. UpdateInv => TypeOK
  BY DEF UpdateInv
<1> QED BY <1>1, InvInit, InvStep, PTL DEF Spec

-----------------------------------------------------------------------------

LEMMA OnlyApplyInstalls ==
    ASSUME UpdateInv, [Next]_vars, exe' # exe
    PROVE  \E c \in Commands : Apply(c)
  BY Steps DEF vars, site, Publish, UploadBinary, UploadSums, Withdraw, Run, FindStable,
     FindNightly, downloadChecksum, downloadAsset, Verify, Fails

\* What Apply installs.
LEMMA Installed ==
    ASSUME UpdateInv, NEW c \in Commands, Apply(c)
    PROVE  Needed(c) /\ Named(c) /\ exe' = expected[c]
  BY DEF Apply, UpdateInv, CommandInv, Underway

\* The step of InstallsWhatItFound.
InstallsFound ==
    exe' # exe => \E c \in Commands :
        /\ candidate[c] \in Tags
        /\ exe' \in {Build(candidate[c], n) : n \in 1..binary[candidate[c]]}

LEMMA FoundStep == UpdateInv /\ [Next]_vars => InstallsFound
<1> SUFFICES ASSUME UpdateInv, [Next]_vars, exe' # exe
             PROVE  \E c \in Commands :
                        /\ candidate[c] \in Tags
                        /\ exe' \in {Build(candidate[c], n) : n \in 1..binary[candidate[c]]}
  BY DEF InstallsFound
<1>1. PICK c \in Commands : Apply(c)
  BY OnlyApplyInstalls
<1> QED BY <1>1, Installed DEF Needed, Named

\* Whatever happens between the steps of any number of commands, the executable
\* is a whole build of the release a command has announced.
THEOREM InstallsOnlyWhatItFound == Spec => InstallsWhatItFound
<1>1. UpdateInv /\ [Next]_vars => [InstallsFound]_vars
  BY FoundStep
<1>2. Spec => [][InstallsFound]_vars
  BY <1>1, InvInit, InvStep, PTL DEF Spec
<1> QED BY <1>2, PTL DEF InstallsWhatItFound, InstallsFound

\* The comparison part by part is that of the version numbers.
LEMMA PartsCompare ==
    ASSUME NEW a \in Versions, NEW b \in Versions, stableNeedsUpdate(a, b)
    PROVE  Rank(b) > Rank(a)
<1>1. PICK a1 \in Parts, a2 \in Parts, a3 \in Parts : a = <<a1, a2, a3>>
  OBVIOUS
<1>2. PICK b1 \in Parts, b2 \in Parts, b3 \in Parts : b = <<b1, b2, b3>>
  OBVIOUS
<1>3. \/ b1 > a1
      \/ b1 = a1 /\ b2 > a2
      \/ b1 = a1 /\ b2 = a2 /\ b3 > a3
  <2>1. PICK i \in 1..3 : b[i] > a[i] /\ \A j \in 1..i - 1 : a[j] = b[j]
    BY DEF stableNeedsUpdate
  <2>2. CASE i = 1
    BY <1>1, <1>2, <2>1, <2>2
  <2>3. CASE i = 2
    <3>1. a[1] = b[1]
      BY <2>1, <2>3
    <3> QED BY <1>1, <1>2, <2>1, <2>3, <3>1
  <2>4. CASE i = 3
    <3>1. a[1] = b[1] /\ a[2] = b[2]
      BY <2>1, <2>4
    <3> QED BY <1>1, <1>2, <2>1, <2>4, <3>1
  <2> QED BY <2>2, <2>3, <2>4
<1>4. /\ Rank(a) = a1 * 1000000 + a2 * 1000 + a3
      /\ Rank(b) = b1 * 1000000 + b2 * 1000 + b3
  BY <1>1, <1>2 DEF Rank
<1>5. /\ a1 \in 0..999 /\ a2 \in 0..999 /\ a3 \in 0..999
      /\ b1 \in 0..999 /\ b2 \in 0..999 /\ b3 \in 0..999
  BY DEF Parts
<1> QED BY <1>3, <1>4, <1>5

\* Only the command that applies becomes idle in a step that installs.
LEMMA ApplierIsIdle ==
    ASSUME UpdateInv, [Next]_vars, exe' # exe, NEW c \in Commands, pc[c] = "apply", pc'[c] = "idle"
    PROVE  Apply(c)
<1> USE TypeParts DEF UpdateInv, CommandTypes
<1>1. PICK d \in Commands : Apply(d)
  BY OnlyApplyInstalls
<1>2. c = d
  BY <1>1 DEF Apply
<1> QED BY <1>1, <1>2

\* The step of StableInstallsNewer.
StableNewer ==
    \A c \in Commands :
        pc[c] = "apply" /\ exe' # exe /\ pc'[c] = "idle" /\ ~isNightly(current[c])
            => exe'.tag \in Versions /\ Rank(exe'.tag) > Rank(current[c])

LEMMA StableStep == UpdateInv /\ [Next]_vars => StableNewer
<1> SUFFICES ASSUME UpdateInv, [Next]_vars, NEW c \in Commands, pc[c] = "apply",
                    exe' # exe, pc'[c] = "idle", ~isNightly(current[c])
             PROVE  exe'.tag \in Versions /\ Rank(exe'.tag) > Rank(current[c])
  BY DEF StableNewer
<1>1. Needed(c) /\ Named(c) /\ exe' = expected[c]
  BY ApplierIsIdle, Installed
<1>2. exe'.tag = candidate[c]
  BY <1>1 DEF Named, Build
<1>3. current[c] \in Versions
  BY TypeParts DEF UpdateInv, CommandTypes, Tags, isNightly
<1> QED BY <1>1, <1>2, <1>3, PartsCompare DEF Needed

\* A stable agent installs a stable version that is greater than its own.
THEOREM StableOnlyNewer == Spec => StableInstallsNewer
<1>1. UpdateInv /\ [Next]_vars => [StableNewer]_vars
  BY StableStep
<1>2. Spec => [][StableNewer]_vars
  BY <1>1, InvInit, InvStep, PTL DEF Spec
<1> QED BY <1>2, PTL DEF StableInstallsNewer, StableNewer
=============================================================================
