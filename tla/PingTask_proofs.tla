----------------------------- MODULE PingTask_proofs ----------------------------
(* Proofs about the ping tasks of AgentProcess, for any times, timeouts and number *)
(* of retries. *)
EXTENDS AgentProcess, TLAPS

USE PingTimesAssumption, ResultsAssumption

LEMMA RoundTypes ==
    ASSUME NEW r \in Rounds
    PROVE  Latency(r) \in Nat /\ Cost(r) \in Nat
<1>1. r.lookup \in Nat /\ r.rtt \in Nat
  BY DEF Rounds
<1> QED BY <1>1 DEF Latency, Cost

\* The latency of a measurement, and Reference, for given measurements.
Lat(k, r) == IF k = "http" THEN r.lookup + r.rtt ELSE r.rtt
Good(ms) == {i \in 1..Len(ms) : ms[i].rtt <= High}
RefOf(k, ms) ==
    CASE Good(ms) = {} -> Failed
      [] k = "tcp" /\ \E i \in Good(ms) : ms[1].rtt > ms[i].rtt + Drop -> Failed
      [] OTHER -> ms[CHOOSE i \in Good(ms) : \A j \in Good(ms) : i <= j].rtt
\* No lookup is part of a latency.
Apart(k, ms) == k = "http" => \A i \in 1..Len(ms) : ms[i].lookup = 0

LEMMA ReferenceIs ==
    /\ Reference = RefOf(kind, rounds)
    /\ Reference' = RefOf(kind', rounds')
    /\ \A r : Latency(r) = Lat(kind, r)
  BY DEF Reference, RefOf, Good, Lat, Latency, Cost

LEMMA ApartIs ==
    ASSUME NEW k, NEW ms \in Seq(Rounds), Apart(k, ms), NEW i \in 1..Len(ms)
    PROVE  Lat(k, ms[i]) = ms[i].rtt
<1>1. ms[i].lookup \in Nat /\ ms[i].rtt \in Nat
  <2>1. ms[i] \in Rounds
    OBVIOUS
  <2> QED BY <2>1 DEF Rounds
<1> QED BY <1>1 DEF Apart, Lat

\* What holds between two steps. While Probe measures, every latency so far was
\* too high and a retry is left; each measurement took a timeout at most.
ProbeInv ==
    /\ stage = "idle" => rounds = <<>>
    /\ stage \in {"idle", "measure"} =>
        /\ result = Unset /\ Len(rounds) <= Retries
        /\ \A i \in 1..Len(rounds) : Latency(rounds[i]) > High
        /\ elapsed <= Len(rounds) * Timeout
    /\ elapsed <= (1 + Retries) * Timeout
    /\ stage \notin {"idle", "measure"} => result # Unset
ReportInv ==
    /\ stage \in {"idle", "measure", "report", "send"} => received = Unset
    /\ stage = "done" => received = result \/ ~live \/ sendFailed
    /\ received # Unset => received = result

PingInv == PingTypeOK /\ ProbeInv /\ ReturnsTheFirstGood /\ ReportInv

LEMMA Steps ==
    ASSUME [Next]_vars
    PROVE  \/ StartPing \/ Measure \/ MeasureFails
           \/ Report \/ Send \/ SendFails \/ Cancel \/ Acknowledge \/ UNCHANGED pingVars
  BY DEF Next, Configure, Run, Connect, ReportNetwork, ReportFigure, Ping, PingNext, Count, vars

LEMMA InvInit == Init => PingInv
<1> SUFFICES ASSUME IdlePing PROVE PingInv
  BY DEF Init
<1>1. PingTypeOK
  <2>1. rounds \in Seq(Rounds) /\ Len(rounds) = 0
    BY DEF IdlePing
  <2>2. Len(rounds) <= 1 + Retries
    BY <2>1
  <2>3. elapsed \in Nat /\ result \in Results /\ received \in Results
    BY DEF IdlePing, Results
  <2> QED BY <2>1, <2>2, <2>3 DEF IdlePing, PingTypeOK
<1>2. ReturnsTheFirstGood /\ ReportInv
  BY DEF IdlePing, ReturnsTheFirstGood, ReportInv
<1>3. 0 <= 0 * Timeout /\ 0 <= (1 + Retries) * Timeout
  OBVIOUS
<1>4. ProbeInv
  BY <1>3 DEF IdlePing, ProbeInv
<1> QED BY <1>1, <1>2, <1>4 DEF PingInv

\* One more measurement takes one more timeout at most.
LEMMA MoreTime ==
    ASSUME NEW n \in Nat, NEW e \in Nat, NEW d \in Nat, n <= Retries,
           e <= n * Timeout, d <= Timeout
    PROVE  /\ e + d <= (n + 1) * Timeout
           /\ e + d <= (1 + Retries) * Timeout
<1>1. (n + 1) * Timeout = n * Timeout + Timeout
  OBVIOUS
<1>2. (Retries - n) * Timeout >= 0 /\ (Retries - n) * Timeout \in Int
  OBVIOUS
<1>3. (1 + Retries) * Timeout = n * Timeout + Timeout + (Retries - n) * Timeout
  OBVIOUS
<1>4. n * Timeout \in Int
  OBVIOUS
<1> QED BY <1>1, <1>2, <1>3, <1>4

LEMMA MeasureStep ==
    ASSUME PingInv, Measure
    PROVE  PingInv'
<1> DEFINE n == Len(rounds) + 1
<1>1. /\ stage = "measure" /\ result = Unset /\ received = Unset
      /\ n \in Nat \ {0} /\ n <= 1 + Retries /\ Len(rounds) \in Nat
      /\ elapsed \in Nat /\ elapsed <= Len(rounds) * Timeout
      /\ rounds \in Seq(Rounds)
      /\ \A i \in 1..(n - 1) : Latency(rounds[i]) > High
  BY DEF Measure, PingInv, ProbeInv, ReportInv, PingTypeOK
<1>2. PICK r \in Rounds :
        /\ Cost(r) <= Timeout
        /\ rounds' = Append(rounds, r) /\ elapsed' = elapsed + Cost(r)
        /\ Judge(Append(rounds, r))
  BY DEF Measure
<1>3. UNCHANGED <<kind, overPost, live, acked, received, sendFailed>>
  BY DEF Measure, task
<1>4. /\ Len(rounds') = n /\ rounds' \in Seq(Rounds) /\ rounds'[n] = r
      /\ \A i \in 1..(n - 1) : rounds'[i] = rounds[i]
  BY <1>1, <1>2
<1>5. \A q \in Rounds : Lat(kind, q) \in Nat /\ Latency(q) = Lat(kind, q)
  BY RoundTypes, ReferenceIs
<1>6. /\ \A i \in 1..n : rounds'[i] \in Rounds /\ Lat(kind, rounds'[i]) \in Nat
      /\ \A i \in 1..(n - 1) : Lat(kind, rounds'[i]) > High
  BY <1>1, <1>4, <1>5
<1>7. elapsed' \in Nat /\ elapsed' <= n * Timeout /\ elapsed' <= (1 + Retries) * Timeout
  BY <1>1, <1>2, RoundTypes, MoreTime
<1>8. /\ Lat(kind, r) > High /\ n <= Retries => UNCHANGED <<result, stage>>
      /\ Lat(kind, r) > High /\ n > Retries => Return(Failed)
      /\ Lat(kind, r) <= High =>
            Return(IF kind = "tcp" /\ Lat(kind, rounds'[1]) > Lat(kind, r) + Drop
                   THEN Failed ELSE Lat(kind, r))
  <2>1. Latency(rounds'[1]) = Lat(kind, rounds'[1]) /\ Latency(r) = Lat(kind, r)
    BY ReferenceIs
  <2>2. Lat(kind, r) \in Nat
    BY <1>5
  <2> QED BY <1>1, <1>2, <1>4, <2>1, <2>2 DEF Judge
<1>9. PingTypeOK' <=> stage' \in {"idle", "measure", "report", "send", "done"} /\ result' \in Results
  BY <1>1, <1>2, <1>3, <1>4, <1>7 DEF PingInv, PingTypeOK
<1> HIDE DEF n
<1>10. CASE Lat(kind, r) > High /\ n <= Retries
  <2>1. result' = Unset /\ stage' = "measure"
    BY <1>1, <1>8, <1>10
  <2>2. PingTypeOK'
    BY <1>9, <2>1 DEF Results
  <2>3. \A i \in 1..n : Latency(rounds'[i]) > High
    <3>1. \A i \in 1..n : i = n \/ i \in 1..(n - 1)
      BY <1>1
    <3> QED BY <1>4, <1>6, <1>10, <3>1, ReferenceIs
  <2>4. ProbeInv'
    BY <1>3, <1>4, <1>7, <1>10, <2>1, <2>3 DEF ProbeInv, Latency, Cost
  <2> QED BY <1>1, <1>3, <2>1, <2>2, <2>4 DEF PingInv, ReturnsTheFirstGood, ReportInv
<1>11. CASE Lat(kind, r) > High /\ n > Retries
  <2>1. result' = Failed /\ stage' = "report"
    BY <1>8, <1>11 DEF Return
  <2>2. \A i \in 1..n : Lat(kind, rounds'[i]) > High
    <3>1. \A i \in 1..n : i = n \/ i \in 1..(n - 1)
      BY <1>1
    <3> QED BY <1>4, <1>6, <1>11, <3>1
  <2>3. ASSUME Apart(kind, rounds') PROVE Reference' = Failed
    <3>1. Good(rounds') = {}
      BY <1>4, <1>6, <2>2, <2>3, ApartIs DEF Good
    <3> QED BY <1>3, <3>1, ReferenceIs DEF RefOf
  <2>4. PingTypeOK'
    BY <1>9, <2>1 DEF Results
  <2> QED BY <1>1, <1>3, <1>4, <1>7, <2>1, <2>3, <2>4
          DEF PingInv, ProbeInv, ReturnsTheFirstGood, Apart, ReportInv
<1>12. CASE Lat(kind, r) <= High
  <2>1. /\ result' = IF kind = "tcp" /\ Lat(kind, rounds'[1]) > Lat(kind, r) + Drop
                     THEN Failed ELSE Lat(kind, r)
        /\ stage' = "report"
    BY <1>8, <1>12 DEF Return
  <2>4. ASSUME Apart(kind, rounds') PROVE Reference' = result'
    <3>1. \A i \in 1..n : rounds'[i].rtt = Lat(kind, rounds'[i]) /\ rounds'[i].rtt \in Nat
      BY <1>4, <1>6, <2>4, ApartIs
    <3>2. ASSUME NEW i \in 1..(n - 1) PROVE ~(rounds'[i].rtt <= High)
      <4>1. i \in 1..n
        BY <1>1
      <4>2. rounds'[i].rtt \in Nat /\ rounds'[i].rtt > High
        BY <1>6, <3>1, <4>1
      <4> QED BY <4>2
    <3>3. \A i \in 1..n : i = n \/ i \in 1..(n - 1)
      BY <1>1
    <3>4. n \in 1..n /\ 1 \in 1..n /\ r.rtt = Lat(kind, r) /\ rounds'[n] = r
      BY <1>1, <1>4, <3>1
    <3>5. Good(rounds') = {n}
      BY <1>4, <1>12, <3>2, <3>3, <3>4 DEF Good
    <3>6. (CHOOSE i \in {n} : \A j \in {n} : i <= j) = n
      BY <1>1
    <3>7. RefOf(kind, rounds') = result'
      BY <2>1, <3>1, <3>4, <3>5, <3>6 DEF RefOf
    <3> QED BY <1>3, <3>7, ReferenceIs
  <2>5. result' \in Nat \cup {Failed} /\ (result' = Failed \/ result' <= High)
    BY <1>5, <1>12, <2>1
  <2>6. PingTypeOK'
    BY <1>9, <2>1, <2>5 DEF Results
  <2> QED BY <1>1, <1>3, <1>4, <1>7, <2>1, <2>4, <2>5, <2>6
          DEF PingInv, ProbeInv, ReturnsTheFirstGood, Apart, ReportInv
<1>13. Lat(kind, r) \in Nat /\ n \in Nat
  BY <1>1, <1>5
<1> QED BY <1>10, <1>11, <1>12, <1>13

LEMMA FailsStep ==
    ASSUME PingInv, MeasureFails
    PROVE  PingInv'
<1>1. /\ stage = "measure" /\ received = Unset /\ Len(rounds) \in Nat /\ Len(rounds) <= Retries
      /\ elapsed \in Nat /\ elapsed <= Len(rounds) * Timeout /\ rounds \in Seq(Rounds)
      /\ \A i \in 1..Len(rounds) : Latency(rounds[i]) > High
  BY DEF MeasureFails, PingInv, ProbeInv, ReportInv, PingTypeOK
<1>2. /\ result' = Failed /\ stage' = "report" /\ elapsed' = elapsed + Timeout
      /\ UNCHANGED <<kind, overPost, rounds, live, acked, received, sendFailed>>
  BY DEF MeasureFails, Return, task
<1>3. elapsed' \in Nat /\ elapsed' <= (1 + Retries) * Timeout
  BY <1>1, <1>2, MoreTime
<1>4. \A i \in 1..Len(rounds) : Lat(kind, rounds[i]) \in Nat /\ Lat(kind, rounds[i]) > High
  BY <1>1, RoundTypes, ReferenceIs
<1>6. ASSUME Apart(kind, rounds) PROVE Reference' = Failed
  <2>1. Good(rounds) = {}
    BY <1>1, <1>4, <1>6, ApartIs DEF Good
  <2> QED BY <1>2, <2>1, ReferenceIs DEF RefOf
<1> QED BY <1>1, <1>2, <1>3, <1>6
        DEF PingInv, PingTypeOK, Results, ProbeInv, ReturnsTheFirstGood, Apart, ReportInv

LEMMA StartStep ==
    ASSUME PingInv, StartPing
    PROVE  PingInv'
<1>1. /\ stage = "idle" /\ stage' = "measure" /\ kind' \in Kinds /\ overPost' \in BOOLEAN
      /\ UNCHANGED <<rounds, elapsed, result, live, acked, received, sendFailed>>
      /\ rounds = <<>> /\ result = Unset /\ received = Unset /\ elapsed \in Nat
      /\ elapsed <= Len(rounds) * Timeout /\ elapsed <= (1 + Retries) * Timeout
  BY DEF StartPing, probe, PingInv, PingTypeOK, ProbeInv, ReportInv
<1>2. PingTypeOK'
  BY <1>1 DEF PingInv, PingTypeOK
<1>3. Len(rounds) = 0 /\ Len(rounds') = 0 /\ \A i \in 1..Len(rounds') : FALSE
  BY <1>1
<1>4. ProbeInv'
  BY <1>1, <1>3 DEF ProbeInv
<1> QED BY <1>1, <1>2, <1>4 DEF PingInv, ReturnsTheFirstGood, ReportInv

LEMMA InvStep == PingInv /\ [Next]_vars => PingInv'
<1> SUFFICES ASSUME PingInv, [Next]_vars PROVE PingInv'
  OBVIOUS
<1>1. CASE Report \/ Send \/ SendFails \/ Cancel \/ Acknowledge \/ UNCHANGED pingVars
  <2>1. UNCHANGED <<kind, overPost, rounds, elapsed, result>>
    BY <1>1 DEF Report, Send, SendFails, Cancel, Acknowledge, pingVars, task, probe
  <2>2. stage \in {"idle", "measure"} => stage' = stage
    BY <1>1 DEF Report, Send, SendFails, Cancel, Acknowledge, pingVars
  <2>3. stage \notin {"idle", "measure"} => stage' \notin {"idle", "measure"}
    BY <1>1 DEF Report, Send, SendFails, Cancel, Acknowledge, pingVars
  <2>4. PingTypeOK'
    BY <1>1, <2>1 DEF PingInv, PingTypeOK, Results, Report, Send, SendFails, Cancel, Acknowledge, pingVars
  <2>5. ProbeInv'
    BY <2>1, <2>2, <2>3 DEF PingInv, ProbeInv, Latency, Cost
  <2>6. ReturnsTheFirstGood'
    BY <2>1 DEF PingInv, ReturnsTheFirstGood, Reference
  <2>7. ReportInv'
    BY <1>1, <2>1 DEF PingInv, ProbeInv, ReportInv, Report, Send, SendFails, Cancel, Acknowledge, pingVars
  <2> QED BY <2>4, <2>5, <2>6, <2>7 DEF PingInv
<1> QED BY <1>1, StartStep, MeasureStep, FailsStep, Steps

\* Every variable keeps its type.
THEOREM TypeCorrect == Spec => []PingTypeOK
<1>1. PingInv => PingTypeOK
  BY DEF PingInv
<1> QED BY <1>1, InvInit, InvStep, PTL DEF Spec

\* Probe returns the first time to the target that is not too high, or -1, unless
\* it is an HTTP ping that looks a name up.
THEOREM FirstGoodReturned == Spec => []ReturnsTheFirstGood
<1>1. PingInv => ReturnsTheFirstGood
  BY DEF PingInv
<1> QED BY <1>1, InvInit, InvStep, PTL DEF Spec

\* Probe takes no longer than the timeouts of all its measurements.
THEOREM ProbeEndsInTime == Spec => []EndsInTime
<1>1. PingInv => EndsInTime
  BY DEF PingInv, ProbeInv, EndsInTime
<1> QED BY <1>1, InvInit, InvStep, PTL DEF Spec

\* The server gets what Probe returned, unless the context was cancelled or the
\* send failed.
THEOREM ResultsArrive == Spec => []ResultOrCause
<1>1. PingInv => ResultOrCause
  BY DEF PingInv, ReportInv, ResultOrCause
<1> QED BY <1>1, InvInit, InvStep, PTL DEF Spec
=============================================================================
