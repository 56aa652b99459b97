----------------------------- MODULE TrafficTracker -----------------------------
(***************************************************************************)
(* netstatic.Tracker through the lives of the agent: it samples interface  *)
(* counters into a cache, adds the cache to the history at every save,     *)
(* keeps history and configuration in a file, and reads it on Start.       *)
(*                                                                         *)
(* Every method runs under Tracker.mu and is one action. Bytes are counted *)
(* in one direction, a history holds the bytes of every timestamp, and a   *)
(* unit of time stands for any number of seconds.                          *)
(***************************************************************************)
EXTENDS Naturals, Functions

CONSTANTS
    NICs,       \* names of interfaces
    None,
    Retention,  \* DataPreserveDays
    SaveEvery,  \* SaveInterval
    MaxLag,     \* the longest a tick of saveTicker waits for the mutex
    MaxTime,    \* bounds the clock
    MaxBytes    \* bounds what an interface carries

ASSUME NoneAssumption == None \notin Nat
ASSUME TimesAssumption ==
    {Retention, SaveEvery, MaxLag, MaxTime, MaxBytes} \subseteq Nat

VARIABLES
    now,       \* time.Now().Unix()
    wire,      \* per interface: all bytes it has carried
    counter,   \* ... BytesSent, which starts again with the interface
    observed,  \* ... the deltas sampled so far, at the time they were sampled
    phase,     \* how far this life is: "start", "configure", "up" or "closed"
    running,
    loaded,    \* a Start of this life has succeeded
    nics,      \* config.NICs, {} for all
    hist,      \* interfaces
    cache,     \* cache: the samples by time, and their sum
    last,      \* lastCounters
    since,     \* the time since saveTicker ticked
    tick,      \* the tick saveLoop has not handled yet, or None
    file,      \* the history file: "absent" (or empty), "good" or "bad"
    disk,      \* ... its interfaces
    diskNics,  \* ... its config.NICs
    saved      \* the last save succeeded

outside == <<now, wire, counter>>
memory == <<running, loaded, nics, hist, cache, last>>
ticks == <<since, tick>>
stored == <<file, disk, diskNics, saved>>
vars == <<outside, observed, phase, memory, ticks, stored>>

Times == 0..MaxTime
NoBytes == [t \in Times |-> 0]
NoHistory == [n \in NICs |-> NoBytes]
EmptyCache == [n \in NICs |-> [at |-> NoBytes, sum |-> 0]]

Histories == [NICs -> [Times -> Nat]]

TypeOK ==
    /\ now \in Times /\ wire \in [NICs -> Nat] /\ counter \in [NICs -> Nat]
    /\ observed \in Histories
    /\ phase \in {"start", "configure", "up", "closed"}
    /\ running \in BOOLEAN /\ loaded \in BOOLEAN
    /\ nics \subseteq NICs
    /\ hist \in Histories
    /\ cache \in [NICs -> [at : [Times -> Nat], sum : Nat]]
    /\ last \in [NICs -> Nat \cup {None}]
    /\ since \in 0..SaveEvery /\ tick \in Times \cup {None}
    /\ file \in {"absent", "good", "bad"}
    /\ disk \in Histories /\ diskNics \subseteq NICs
    /\ saved \in BOOLEAN

Init ==
    /\ now = 0 /\ wire = [n \in NICs |-> 0] /\ counter = wire
    /\ observed = NoHistory
    /\ phase = "start" /\ running = FALSE /\ loaded = FALSE
    /\ nics = {} /\ hist = NoHistory /\ cache = EmptyCache
    /\ last = [n \in NICs |-> None]
    /\ since = 0 /\ tick = None
    /\ file = "absent" /\ disk = NoHistory /\ diskNics = {} /\ saved = TRUE

-----------------------------------------------------------------------------
(* Time, and the interfaces. *)

\* saveTicker ticks in time, and its tick is handled in time.
TimePasses ==
    /\ now < MaxTime /\ now' = now + 1
    /\ running => since < SaveEvery /\ (tick # None => now < tick + MaxLag)
    /\ since' = IF running THEN since + 1 ELSE since
    /\ UNCHANGED <<wire, counter, observed, phase, memory, tick, stored>>

Carry(n) ==
    /\ wire[n] < MaxBytes
    /\ wire' = [wire EXCEPT ![n] = @ + 1]
    /\ counter' = [counter EXCEPT ![n] = @ + 1]
    /\ UNCHANGED <<now, observed, phase, memory, ticks, stored>>

\* The interface is created anew, or the machine has restarted.
CounterRestarts(n) ==
    /\ counter[n] > 0 /\ counter' = [counter EXCEPT ![n] = 0]
    /\ UNCHANGED <<now, wire, observed, phase, memory, ticks, stored>>

-----------------------------------------------------------------------------
(* What the methods have in common. *)

\* A mutant: what has just expired is still kept, and one unit too much is lost.
PurgedEarly(h) ==
    [n \in NICs |-> [t \in Times |-> IF t + Retention > now THEN h[n][t] ELSE 0]]

\* purgeExpiredLocked.
Purged(h) == [n \in NICs |-> [t \in Times |-> IF t + Retention >= now THEN h[n][t] ELSE 0]]

\* A mutant: the cache is summed up again with every flush.
FlushKeepsCache(stamp) ==
    /\ hist' = Purged([n \in NICs |-> [hist[n] EXCEPT ![stamp] = @ + cache[n].sum]])
    /\ UNCHANGED cache

\* flushLocked, and the purge that always follows it.
Flush(stamp) ==
    /\ hist' = Purged([n \in NICs |-> [hist[n] EXCEPT ![stamp] = @ + cache[n].sum]])
    /\ cache' = EmptyCache

\* A mutant: the file is written before the cache is flushed into the history.
SaveStale ==
    \/ /\ file' = "good" /\ disk' = hist /\ diskNics' = nics' /\ saved' = TRUE
    \/ saved' = FALSE /\ UNCHANGED <<file, disk, diskNics>>

\* saveLocked: the file is replaced by a rename, or, when a step fails, kept.
Save ==
    \/ /\ file' = "good" /\ disk' = hist' /\ diskNics' = nics' /\ saved' = TRUE
    \/ saved' = FALSE /\ UNCHANGED <<file, disk, diskNics>>

\* A mutant: the difference is not checked for a counter that restarted.
DeltaUnchecked(current, previous) == current - previous

\* counterDelta.
Delta(current, previous) == IF current >= previous THEN current - previous ELSE 0

Allowed(n) == nics = {} \/ n \in nics

\* loadLocked, when it returns nil. A file that cannot be parsed is renamed, if
\* possible, and the history in memory stays.
Load ==
    \/ /\ file = "good"
       /\ hist' = Purged(disk) /\ nics' = diskNics
       /\ UNCHANGED stored
    \/ /\ file # "good"
       /\ file' \in {file, "absent"}
       /\ UNCHANGED <<hist, nics, disk, diskNics, saved>>

\* Start of a tracker that does not run.
StartSucceeds ==
    /\ ~running /\ running' = TRUE
    /\ loaded' = TRUE
    /\ Load
    /\ since' = 0 /\ tick' = None
    /\ UNCHANGED <<cache, last>>

\* loadLocked fails: something other than its absence keeps the file from being
\* opened or read. Nothing has changed.
StartFails == ~running /\ UNCHANGED <<memory, ticks, stored>>

-----------------------------------------------------------------------------
(* The life of an agent. *)

\* InitNetStatic: Start, whose error is logged, ...
InitStart ==
    /\ phase = "start" /\ phase' = "configure"
    /\ StartSucceeds \/ StartFails
    /\ UNCHANGED <<outside, observed>>

\* A mutant: samples of interfaces no longer allowed stay in the cache.
ConfigureNICsOnly(S) ==
    /\ phase = "configure" /\ phase' = "up"
    /\ nics' = S
    /\ hist' = Purged(hist)
    /\ Save
    /\ UNCHANGED <<outside, observed, running, loaded, cache, last, ticks>>

\* ... then ConfigureNICs with the interfaces found, or none after an error.
ConfigureNICs(S) ==
    LET kept == IF running /\ S # {} THEN S ELSE NICs IN
    /\ phase = "configure" /\ phase' = "up"
    /\ nics' = S
    /\ last' = [n \in NICs |-> IF n \in kept THEN last[n] ELSE None]
    /\ cache' = [n \in NICs |-> IF n \in kept THEN cache[n] ELSE EmptyCache[n]]
    /\ hist' = Purged(hist)
    /\ Save
    /\ UNCHANGED <<outside, observed, running, loaded, ticks>>

\* NetworkSpeed: a report starts the tracker when it does not run.
ReportStart ==
    /\ phase = "up"
    /\ StartSucceeds \/ StartFails
    /\ UNCHANGED <<outside, observed, phase>>

\* A mutant: a counter that restarted is taken as a delta of its own.
SampleRestarted(S) ==
    LET seen == {n \in S : Allowed(n)}
        delta == [n \in NICs |-> IF n \in seen /\ last[n] # None THEN counter[n] ELSE 0] IN
    /\ running
    /\ last' = [n \in NICs |-> IF n \in seen THEN counter[n] ELSE last[n]]
    /\ cache' = [n \in NICs |-> [at |-> [cache[n].at EXCEPT ![now] = @ + delta[n]],
                                 sum |-> cache[n].sum + delta[n]]]
    /\ observed' = [n \in NICs |-> [observed[n] EXCEPT ![now] = @ + delta[n]]]
    /\ UNCHANGED <<outside, phase, running, loaded, nics, hist, ticks, stored>>

\* sampleLocked, with the interfaces that exist.
Sample(S) ==
    LET seen == {n \in S : Allowed(n)}
        delta == [n \in NICs |-> IF n \in seen /\ last[n] # None
                                   THEN Delta(counter[n], last[n]) ELSE 0] IN
    /\ running
    /\ last' = [n \in NICs |-> IF n \in seen THEN counter[n] ELSE last[n]]
    /\ cache' = [n \in NICs |-> [at |-> [cache[n].at EXCEPT ![now] = @ + delta[n]],
                                 sum |-> cache[n].sum + delta[n]]]
    /\ observed' = [n \in NICs |-> [observed[n] EXCEPT ![now] = @ + delta[n]]]
    /\ UNCHANGED <<outside, phase, running, loaded, nics, hist, ticks, stored>>

\* The channel of saveTicker holds one tick; a second one is dropped.
SaveTicks ==
    /\ running /\ since = SaveEvery /\ since' = 0
    /\ tick' = IF tick = None THEN now ELSE tick
    /\ UNCHANGED <<outside, observed, phase, memory, stored>>

\* saveLoop stamps with the time of the tick.
SaveLoop ==
    /\ running /\ tick # None /\ tick' = None
    /\ Flush(tick)
    /\ nics' = nics /\ Save
    /\ UNCHANGED <<outside, observed, phase, running, loaded, last, since>>

Close ==
    /\ phase = "up" /\ phase' = "closed"
    /\ IF running
         THEN /\ running' = FALSE
              /\ Flush(now)
              /\ nics' = nics /\ Save
              /\ UNCHANGED <<loaded, last>>
         ELSE UNCHANGED <<memory, stored>>
    /\ tick' = None
    /\ UNCHANGED <<outside, observed, since>>

\* The process ends, orderly or not, in the middle of a save too: the rename has
\* happened or not. The next life begins with an empty memory.
ProcessEnds ==
    /\ phase # "start" /\ phase' = "start"
    /\ running' = FALSE /\ loaded' = FALSE
    /\ nics' = {} /\ hist' = NoHistory /\ cache' = EmptyCache
    /\ last' = [n \in NICs |-> None]
    /\ since' = 0 /\ tick' = None
    /\ saved' = TRUE
    /\ UNCHANGED <<outside, observed, file, disk, diskNics>>

\* The file was never synced: a power failure may leave it empty or broken.
PowerFails ==
    /\ phase = "start" /\ file' \in {"absent", "bad"}
    /\ disk' = NoHistory /\ diskNics' = {}
    /\ UNCHANGED <<outside, observed, phase, memory, ticks, saved>>

Next ==
    \/ TimePasses
    \/ \E n \in NICs : Carry(n) \/ CounterRestarts(n)
    \/ InitStart \/ (\E S \in SUBSET NICs : ConfigureNICs(S)) \/ ReportStart
    \/ (\E S \in SUBSET NICs : Sample(S)) \/ SaveTicks \/ SaveLoop
    \/ Close \/ ProcessEnds \/ PowerFails

Spec == Init /\ [][Next]_vars

-----------------------------------------------------------------------------

SumFrom(f, start) == FoldFunctionOnSet(+, 0, f, {t \in Times : t >= start})

\* TotalTrafficBetween(start, now); nothing is stamped later than now.
Total(n, start) == SumFrom(hist[n], start) + SumFrom(cache[n].at, start)

\* Bytes are never counted twice: over crashes, reloads, restarted counters and
\* failed saves, history and file hold no more than the interface carried.
NeverOvercounts ==
    \A n \in NICs : Total(n, 0) <= wire[n] /\ SumFrom(disk[n], 0) <= wire[n]

\* A save leaves no part of the history in memory only, and what it leaves in
\* the cache is no older than the interval between saves: this is all a crash can
\* lose while saves succeed, and Close loses nothing.
LosesLittle ==
    /\ saved => \A n \in NICs, t \in Times : hist[n][t] <= disk[n][t]
    /\ \A n \in NICs, t \in Times :
         cache[n].at[t] > 0 => running /\ now <= t + SaveEvery + MaxLag

\* Once a Start has succeeded, the file loses no traffic of the retention time,
\* whatever is saved (loadLocked comes before every saveLocked).
HistoryKept ==
    [][loaded => \A n \in NICs, t \in Times :
         t + Retention >= now => disk'[n][t] >= disk[n][t]]_vars

\* Only interfaces of the allowlist are sampled and counted from the moment it
\* changes: nothing of another one is in the cache or waits as a last counter.
AllowedOnly ==
    nics # {} => \A n \in NICs \ nics : cache[n] = EmptyCache[n] /\ last[n] = None

\* A flush moves bytes to the time of the flush, so a total from start on may
\* hold bytes sampled before it, but none more than one interval before it.
RestampBounded ==
    \A n \in NICs, start \in Times :
        Total(n, start) <=
          SumFrom(observed[n], IF start > SaveEvery + MaxLag THEN start - SaveEvery - MaxLag ELSE 0)

\* The comment of TotalTrafficBetween: totals in the requested time range, at
\* least while the tracker runs.
TotalsInRange ==
    running => \A n \in NICs, start \in Times :
        Total(n, start) <= SumFrom(observed[n], start)
=============================================================================
