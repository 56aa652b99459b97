--------------------------- MODULE InterfaceCounters ---------------------------
(***************************************************************************)
(* The network speed of a report: the sum of the counters of the included  *)
(* interfaces, against the sum of the last sample. One direction stands    *)
(* for both. Interfaces come and go, and their counters restart.           *)
(***************************************************************************)
EXTENDS Integers, FiniteSets, FiniteSetsExt

CONSTANTS
    NICs,
    Virtual,    \* those with the prefix of a loopback or virtual interface
    MaxBytes,   \* bounds what is carried between two samples
    NoTotal

ASSUME CountersAssumption == IsFiniteSet(NICs) /\ NoTotal \notin Nat

VARIABLES
    filter,     \* [include, exclude], the patterns' matches
    counter,    \* BytesSent of the interfaces that exist, else NoTotal
    total,      \* the sum a report has read and not sampled yet, or NoTotal
    sampled,    \* networkSpeed.totalUp, or NoTotal before the first sample
    moved,      \* time has passed since sampledAt
    since,      \* [bytes, gap]: what was carried since the last reading, and
                \* whether an interface left or restarted
    span,       \* ... between the last sample and the reading
    speed       \* [delta, truth] of the last report: counted, and in span

counterVars == <<filter, counter, total, sampled, moved, since, span, speed>>

Quiet == [bytes |-> 0, gap |-> FALSE]
NoSpeed == [delta |-> 0, truth |-> Quiet]

IdleCounters ==
    /\ counter = [n \in NICs |-> 0]
    /\ total = NoTotal /\ sampled = NoTotal /\ moved = FALSE
    /\ since = Quiet /\ span = Quiet /\ speed = NoSpeed

shouldInclude(n) ==
    /\ n \notin Virtual
    /\ \/ n \in filter.include
       \/ n \notin filter.exclude /\ filter.include = {}

Carry(n) ==
    /\ counter[n] # NoTotal /\ counter[n] < MaxBytes
    /\ since.bytes + span.bytes < MaxBytes
    /\ counter' = [counter EXCEPT ![n] = @ + 1]
    /\ since' = IF shouldInclude(n) THEN [since EXCEPT !.bytes = @ + 1] ELSE since
    /\ UNCHANGED <<filter, total, sampled, moved, span, speed>>

\* An interface is removed, or its counter restarts (or wraps).
Leave(n) ==
    /\ counter[n] # NoTotal
    /\ counter' \in {[counter EXCEPT ![n] = v] : v \in {0, NoTotal}}
    /\ since' = IF shouldInclude(n) THEN [since EXCEPT !.gap = TRUE] ELSE since
    /\ UNCHANGED <<filter, total, sampled, moved, span, speed>>

Appear(n) ==
    /\ counter[n] = NoTotal /\ counter' = [counter EXCEPT ![n] = 0]
    /\ UNCHANGED <<filter, total, sampled, moved, since, span, speed>>

TimePasses ==
    /\ ~moved /\ moved' = TRUE
    /\ UNCHANGED <<filter, counter, total, sampled, since, span, speed>>

Join(a, b) == [bytes |-> a.bytes + b.bytes, gap |-> a.gap \/ b.gap]

\* collectNetworkTotals; without any interface, or with an error, the sample of
\* the last report stays.
collectNetworkTotals ==
    LET there == {n \in NICs : counter[n] # NoTotal} IN
    /\ total = NoTotal /\ there # {}
    /\ total' = MapThenSumSet(LAMBDA n : counter[n], {n \in there : shouldInclude(n)})
    /\ span' = since /\ since' = Quiet
    /\ UNCHANGED <<filter, counter, sampled, moved, speed>>

\* A mutant: the difference is taken as it is.
DeltaUnchecked(current, previous) ==
    IF current >= previous THEN current - previous ELSE current

safeCounterDelta(current, previous) == IF current >= previous THEN current - previous ELSE 0

FirstSample ==
    /\ total # NoTotal /\ sampled = NoTotal
    /\ sampled' = total /\ total' = NoTotal /\ moved' = FALSE
    /\ span' = Quiet /\ speed' = NoSpeed
    /\ UNCHANGED <<filter, counter, since>>

\* No time between two reports: the older sample is kept.
SampleAtOnce ==
    /\ total # NoTotal /\ sampled # NoTotal /\ ~moved
    /\ total' = NoTotal /\ speed' = NoSpeed
    /\ since' = Join(span, since) /\ span' = Quiet
    /\ UNCHANGED <<filter, counter, sampled, moved>>

updateNetworkSpeedSample ==
    /\ total # NoTotal /\ sampled # NoTotal /\ moved
    /\ speed' = [delta |-> safeCounterDelta(total, sampled), truth |-> span]
    /\ sampled' = total /\ total' = NoTotal /\ moved' = FALSE
    /\ span' = Quiet
    /\ UNCHANGED <<filter, counter, since>>

CountersNext ==
    \/ \E n \in NICs : Carry(n) \/ Leave(n) \/ Appear(n)
    \/ TimePasses
    \/ collectNetworkTotals \/ FirstSample \/ SampleAtOnce \/ updateNetworkSpeedSample

\* A report never counts bytes that the included interfaces have not carried
\* between two readings, whatever becomes of the interfaces; and it counts every
\* one of them, unless an interface left or restarted.
SpeedIsCarried ==
    /\ speed.delta <= speed.truth.bytes
    /\ ~speed.truth.gap => speed.delta = speed.truth.bytes
=============================================================================
