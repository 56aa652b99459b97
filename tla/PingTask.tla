-------------------------------- MODULE PingTask -------------------------------
(***************************************************************************)
(* One ping task: task.Probe measures up to 1 + Retries times, and         *)
(* reportPingTask sends what it returns over the connection the task came  *)
(* from. The connection's context may be cancelled at any time.            *)
(*                                                                         *)
(* A measurement is the time of the name lookup and the time to the target.*)
(***************************************************************************)
EXTENDS Integers, Sequences

CONSTANTS
    Kinds,      \* ping types, of "icmp", "tcp" and "http"
    Lookups,    \* times a name lookup may take; 0 for an address
    Rtts,       \* times a target may take
    Timeout,    \* timeout of one measurement
    High,       \* highLatencyThreshold
    Drop,       \* retryDropThresholdTCP
    Retries,    \* highLatencyRetryAttempt
    Unset,      \* no result yet
    Failed      \* the result -1

ASSUME PingTimesAssumption ==
    /\ Lookups \subseteq Nat /\ Rtts \subseteq Nat
    /\ {Timeout, High, Drop, Retries} \subseteq Nat
ASSUME ResultsAssumption == {Unset, Failed} \cap Nat = {} /\ Unset # Failed

VARIABLES
    kind,       \* pingType
    overPost,   \* the task came over the POST fallback
    stage,      \* "idle", "measure", "report", "send" or "done"
    rounds,     \* the measurements that succeeded
    elapsed,    \* the time since Probe was called
    result,     \* what Probe returned
    live,       \* the context is not cancelled
    acked,      \* the server was told that the event was carried out
    received,   \* the result the server has
    sendFailed

task == <<kind, overPost>>
probe == <<rounds, elapsed, result>>
pingVars == <<task, stage, probe, live, acked, received, sendFailed>>

Rounds == [lookup : Lookups, rtt : Rtts]
Results == Nat \cup {Failed, Unset}

PingTypeOK ==
    /\ kind \in Kinds \cup {Unset} /\ overPost \in BOOLEAN
    /\ stage \in {"idle", "measure", "report", "send", "done"}
    /\ rounds \in Seq(Rounds) /\ Len(rounds) <= 1 + Retries
    /\ elapsed \in Nat
    /\ result \in Results /\ received \in Results
    /\ live \in BOOLEAN /\ acked \in BOOLEAN /\ sendFailed \in BOOLEAN

IdlePing ==
    /\ kind = Unset /\ overPost = FALSE
    /\ stage = "idle" /\ rounds = <<>> /\ elapsed = 0
    /\ result = Unset /\ live = TRUE /\ acked = FALSE
    /\ received = Unset /\ sendFailed = FALSE

-----------------------------------------------------------------------------
(* Probe. *)

\* A ping event, in a goroutine of its own.
StartPing ==
    /\ stage = "idle" /\ stage' = "measure"
    /\ kind' \in Kinds /\ overPost' \in BOOLEAN
    /\ UNCHANGED <<probe, live, acked, received, sendFailed>>

Cost(r) == r.lookup + r.rtt

\* A mutant: the lookup is taken off a time it is not part of.
LatencyCorrected(r) == r.rtt - r.lookup

\* icmpPing and tcpPing resolve before they start the clock; httpPing resolves
\* in the DialContext of the request it times.
Latency(r) == IF kind = "http" THEN Cost(r) ELSE r.rtt

Return(value) == result' = value /\ stage' = "report"

\* A mutant: the measurement that was too high is returned after all.
JudgeLast(ms) ==
    LET latency == Latency(ms[Len(ms)]) IN
    IF latency > High /\ Len(ms) <= Retries THEN UNCHANGED <<result, stage>>
    ELSE Return(latency)

\* A mutant: one retry too many.
JudgeOnceMore(ms) ==
    LET latency == Latency(ms[Len(ms)]) IN
    \/ latency <= High /\ Return(latency)
    \/ latency > High /\ Len(ms) <= Retries + 1 /\ UNCHANGED <<result, stage>>
    \/ latency > High /\ Len(ms) > Retries + 1 /\ Return(Failed)

\* What follows the last of the measurements ms.
Judge(ms) ==
    LET latency == Latency(ms[Len(ms)])
        first == Latency(ms[1])
    IN  \/ latency > High /\ Len(ms) <= Retries /\ UNCHANGED <<result, stage>>
        \/ latency > High /\ Len(ms) > Retries /\ Return(Failed)
        \/ /\ latency <= High
           /\ Return(IF kind = "tcp" /\ first > latency + Drop THEN Failed ELSE latency)

Measure ==
    /\ stage = "measure" /\ live
    /\ \E r \in Rounds :
        /\ Cost(r) <= Timeout
        /\ rounds' = Append(rounds, r) /\ elapsed' = elapsed + Cost(r)
        /\ Judge(Append(rounds, r))
    /\ UNCHANGED <<task, live, acked, received, sendFailed>>

\* No address, no answer in time, a refusal, a bad status, or a cancellation.
MeasureFails ==
    /\ stage = "measure" /\ Return(Failed)
    /\ elapsed' = elapsed + Timeout
    /\ UNCHANGED <<task, rounds, live, acked, received, sendFailed>>

-----------------------------------------------------------------------------
(* reportPingTask. *)

\* A mutant: a failed probe is only logged.
ReportSucceeded ==
    /\ stage = "report" /\ stage' = IF live /\ result # Failed THEN "send" ELSE "done"
    /\ UNCHANGED <<task, probe, live, acked, received, sendFailed>>

Report ==
    /\ stage = "report" /\ stage' = IF live THEN "send" ELSE "done"
    /\ UNCHANGED <<task, probe, live, acked, received, sendFailed>>

Send ==
    /\ stage = "send" /\ stage' = "done"
    /\ received' = result
    /\ UNCHANGED <<task, probe, live, acked, sendFailed>>

\* A write or a request that fails; a POST may have arrived all the same. The
\* result is not sent again.
SendFails ==
    /\ stage = "send" /\ stage' = "done" /\ sendFailed' = TRUE
    /\ received' \in {Unset} \cup IF overPost THEN {result} ELSE {}
    /\ UNCHANGED <<task, probe, live, acked>>

-----------------------------------------------------------------------------
(* Meanwhile: the session closes or the fallback ends; the fallback's next   *)
(* request acknowledges the event, for processV2Event has returned true.     *)

Cancel ==
    /\ live /\ live' = FALSE
    /\ UNCHANGED <<task, stage, probe, acked, received, sendFailed>>

Acknowledge ==
    /\ overPost /\ ~acked /\ acked' = TRUE
    /\ UNCHANGED <<task, stage, probe, live, received, sendFailed>>

PingNext ==
    \/ StartPing \/ Measure \/ MeasureFails \/ Report \/ Send \/ SendFails
    \/ Cancel \/ Acknowledge

-----------------------------------------------------------------------------
(* Properties. *)

\* What Probe should return: the first of 1 + Retries times to the target that is
\* not too high; -1 if a measurement failed, if all of them are too high, or if a TCP
\* handshake was slow only because a packet was sent again.
Reference ==
    LET good == {i \in 1..Len(rounds) : rounds[i].rtt <= High}
    IN  CASE good = {} -> Failed
          [] kind = "tcp" /\ \E i \in good : rounds[1].rtt > rounds[i].rtt + Drop -> Failed
          [] OTHER -> rounds[CHOOSE i \in good : \A j \in good : i <= j].rtt

\* However many retries it takes, and whatever the lookups of names take, unless it
\* is an HTTP ping that looks a name up (ExcludesLookup).
ReturnsTheFirstGood ==
    result # Unset =>
        /\ Len(rounds) <= 1 + Retries
        /\ result = Failed \/ result <= High
        /\ (kind = "http" => \A i \in 1..Len(rounds) : rounds[i].lookup = 0)
            => result = Reference

\* "Resolve the IP before Dial, to leave out the DNS time" (ping.go:107): the time
\* of a lookup is no part of a result.
ExcludesLookup == result \notin {Unset, Failed} => result = rounds[Len(rounds)].rtt

\* Probe takes no longer than the timeouts of its measurements, so the joins of
\* pingTasks at the end of a run come to an end.
EndsInTime == elapsed <= (1 + Retries) * Timeout

\* The server learns every result, failures included, unless the context was
\* cancelled or the send failed; and it learns what Probe returned. (Whether it
\* was told that the event was carried out makes no difference: an event that is
\* acknowledged may stay without a result.)
ResultOrCause ==
    /\ stage = "done" => received = result \/ ~live \/ sendFailed
    /\ received # Unset => received = result
=============================================================================
