------------------------------ MODULE AgentProcess -----------------------------
(***************************************************************************)
(* One invocation of the agent: it loads and validates its configuration,  *)
(* then connects, collects, pings and counts traffic under it. These share *)
(* nothing but the configuration, so a behaviour has one of these duties.  *)
(***************************************************************************)
EXTENDS Configuration, Connectivity, InterfaceCounters, Memory, Disks, PingTask, ResetDate

CONSTANTS
    Invocations,    \* what the invocations to look at find
    Samples,        \* values of /proc/meminfo to look at
    SwapSamples,
    Tables          \* sequences of partitions to look at

ASSUME SamplesAssumption == Samples \subseteq Infos /\ SwapSamples \subseteq Swaps
\* A table is a list of mounts, with sizes and lengths of their paths.
ASSUME TablesAssumption ==
    \A parts \in Tables :
        /\ parts \in Seq(Range(parts))
        /\ \A p \in Range(parts) : p.total \in Nat /\ p.length \in Nat
\* What the command line and the parser of the file let through: values of the
\* fields' types, and a file that is selected and missing is an error.
ASSUME InvocationsAssumption ==
    /\ "ConfigFile" \in Fields
    /\ \A f \in Fields : <<f, Default[f]>> \notin Malformed
    /\ \A i \in Invocations :
        /\ i.file # NoFile
        /\ \A f \in Fields \cap DOMAIN i.flags : <<f, i.flags[f]>> \notin Malformed
        /\ i.file # Broken =>
             \A f \in Fields \cap DOMAIN i.file : <<f, i.file[f]>> \notin Malformed

VARIABLES
    duty,       \* "configure", "connect", "report", "probe" or "count"
    figure      \* the last figure reported: [of, from, is], or None

vars == <<configVars, options, netVars, counterVars, pingVars, dateVars, duty, figure>>

Filters == [include : SUBSET NICs, exclude : SUBSET NICs]
NoFilter == [include |-> {}, exclude |-> {}]
NoServer == [host |-> "", form |-> "empty"]

Init ==
    /\ given \in Invocations /\ cfg = Default /\ status = "given"
    /\ IdleNet /\ preference = "" /\ custom = NoServer
    /\ IdleCounters /\ filter = NoFilter /\ IdlePing /\ IdleDates
    /\ duty = "configure" /\ figure = None

Configure ==
    /\ duty = "configure" /\ (Load \/ Validate)
    /\ UNCHANGED <<options, netVars, counterVars, pingVars, dateVars, duty, figure>>

\* The options of the run; what they were read from is forgotten.
Run ==
    /\ duty = "configure" /\ status = "valid"
    /\ given' = None /\ cfg' = Default /\ status' = "running"
    /\ \/ /\ duty' = "connect" /\ preference' = cfg["PreferIPVersion"]
          /\ custom' \in Customs /\ UNCHANGED <<filter, dateVars>>
       \/ duty' = "report" /\ filter' \in Filters /\ UNCHANGED <<options, dateVars>>
       \/ duty' = "probe" /\ UNCHANGED <<options, filter, dateVars>>
       \/ duty' = "count" /\ StartCounting /\ UNCHANGED <<options, filter>>
    /\ UNCHANGED <<netVars, counter, total, sampled, moved, since, span, speed,
                   pingVars, figure>>

Connect ==
    /\ duty = "connect" /\ NetNext
    /\ UNCHANGED <<configVars, options, counterVars, pingVars, dateVars, duty, figure>>

ReportNetwork ==
    /\ duty = "report" /\ CountersNext
    /\ figure = None
    /\ UNCHANGED <<configVars, options, netVars, pingVars, dateVars, duty, figure>>

\* A figure that is computed from what the system says at this moment.
ReportFigure ==
    /\ duty = "report" /\ IdleCounters /\ filter = NoFilter /\ figure = None
    /\ \/ \E includeCache, raw \in BOOLEAN, info \in Samples :
            figure' = [of |-> "ram", from |-> info, is |-> RAM(includeCache, raw, info)]
       \/ \E swap \in SwapSamples : figure' = [of |-> "swap", from |-> swap, is |-> Swap(swap)]
       \/ \E parts \in Tables :
            \/ figure' = [of |-> "disk", from |-> parts, is |-> Disk(parts)]
            \/ figure' = [of |-> "mounts", from |-> parts, is |-> DiskOf(parts)]
            \/ figure' = [of |-> "disks", from |-> parts, is |-> DiskList(parts)]
    /\ UNCHANGED <<configVars, options, netVars, counterVars, pingVars, dateVars, duty>>

\* A ping task that the server sends.
Ping ==
    /\ duty = "probe" /\ PingNext
    /\ UNCHANGED <<configVars, options, netVars, counterVars, dateVars, duty, figure>>

\* A day later the reports count from another day, or from the same.
Count ==
    /\ duty = "count" /\ NextDay
    /\ UNCHANGED <<configVars, options, netVars, counterVars, pingVars, duty, figure>>

Next == Configure \/ Run \/ Connect \/ ReportNetwork \/ ReportFigure \/ Ping \/ Count

Spec == Init /\ [][Next]_vars

-----------------------------------------------------------------------------
(* Properties. *)

\* The servers, and the addresses of a family, are tried in their order.
DialsInOrder == SortedDials /\ OneOrder /\ CustomServerFirst

\* Memory and swap in use are never more than there is, whichever of the ways to
\* compute them is taken (no word wraps).
MemoryWithinTotal ==
    figure # None =>
        /\ figure.of = "ram" => UsedWithinTotal(figure.from, figure.is)
        /\ figure.of = "swap" => SwapWithinTotal(figure.from, figure.is)

\* Every device counts once, with the greatest of its readable mounts, and the
\* used bytes of the same mount, whatever the order of the partitions; and it is
\* listed once.
DisksCountOnce ==
    figure # None =>
        /\ figure.of = "disk" => CountsDevicesOnce(figure.from, figure.is)
        /\ figure.of = "disks" => ListsDevicesOnce(figure.from, figure.is)
=============================================================================
