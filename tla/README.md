# Verification of the Sonar agent

TLA+ models of the agent in `src/` (Go), TLC runs on small instances of them, and TLAPS proofs for
every size. `PROJECT.json` lists components, runs, mutants, hazards and theorems, and maps every
definition to the source lines it stands for.

## 1. The system

The agent measures a host and reports to a panel. One process runs:

| part | source | state it keeps | operations |
|---|---|---|---|
| application runtime | `internal/app` | the signal context, the join of the static reporter | Run, Close |
| reporter session | `internal/reporter/rpc_connection.go` | connection, `readDone`, session context, retry counter | the `select` loop, connect with retries, closeSession |
| reader and ping tasks | `rpc_events.go`, `ping_result.go`, `reporter.go` | one goroutine per connection, one per task, `pingTasks` | read, start a task, write or post its result |
| POST fallback | `rpc_fallback.go`, `sender.go` | fallback context, pull and report goroutines | report, pull, reconnect, joins |
| event delivery | `rpc_events.go` | `v2AckEventIDs`, `v2SeenEvents` | snapshot, clear, add, markV2EventSeen |
| static-info reporter | `static_info.go` | a ticker | post the basic information |
| SafeConn | `internal/connectivity/websocket.go` | the write mutex | WriteMessage, Close, ReadMessage |
| traffic tracker | `internal/collector/netstatic`, `netstatic_init.go` | history, unsaved samples, counters, the history file | Start, ConfigureNICs, sample, flush, purge, save, Close |
| reset date | `netstatic/resetdate.go` | none | GetLastResetDate |
| discovery | `internal/discovery` | the credentials file, legacy files | load, migrate, register, save |
| update | `internal/update` | the executable | find, download, verify, apply |
| probe | `internal/task/ping.go`, `ping_result.go` | none | measure with retries, send the result |
| connectivity | `internal/connectivity` | HTTP-client cache, the order of address families | client, look up, sort addresses, dial |
| configuration | `internal/config`, `cmd/root.go` | none | defaults, file, environment, flags, Validate |
| network speed | `internal/collector/net.go` | the last sample | filter, sum, difference |
| memory, disks | `internal/collector/mem.go`, `disk.go` | none | formulas over what the system reports |
| other collectors | `internal/collector` | none | read and parse what the system reports |

Interaction: the root command loads and validates the configuration and calls `app.Run`, which resolves
the token by discovery when a key is configured, and starts the tracker, the static reporter
and `Reporter.Run`. The main loop owns the WebSocket session; its reader turns events into ping tasks, which write on the same connection.
When the retries are used up the main loop runs the POST fallback, whose two goroutines share the
acknowledgement list and the seen-event table with each other (and the table with the reader). Every
report asks the tracker for totals, and starts it if it is not running. A signal cancels the context
all of them watch. The HTTP clients and the dialer of one `connectivity.Manager` serve the reporter, the
static reporter, discovery and the IP collector at once. The update command is another process, which
replaces the executable that the next start of the agent runs.

### What is hard about it, and what makes it correct

| component | hard behaviour | properties that make it correct |
|---|---|---|
| session | seven kinds of goroutine, a cancellation in any state, a peer that drops or stalls, four paths that dial | every goroutine is joined where the next one of its kind starts, no socket is forgotten, one writer per connection, a ping task never outlives its session's context, a cancelled run ends, a lost session is replaced |
| event delivery | two goroutines clear and extend one list; requests arrive late or twice, answers are lost, entries expire or are evicted | an acknowledgement is kept until the server has it, an event is carried out at most once per life, it is dropped only after it was carried out, it is carried out at last |
| traffic tracker | the process ends at any point, saves fail, ticks are late or dropped, counters restart, the allowlist changes | no byte is counted twice, a crash loses one interval at most, the file keeps what has not expired, only allowed interfaces are counted |
| reset date | months without the reset day, the turn of the year, leap days | the answer is that of a day-by-day schedule and lies within the retention time |
| discovery | an end between the registration and the save, two files in a migration, damaged files | an agent runs with the token its next life finds, no registration is orphaned without a fault, no half-written file, it settles on one token |
| update | a release that changes between the steps, a failed or damaged download, two commands, releases that are withdrawn | only a whole build of the announced release is installed, and only a newer one than the current (a nightly agent breaks this) |
| probe | repeated measurements, a deadline over all of them, a cancellation | the first good time to the target is returned, in time, without that of the lookup (HTTP breaks this), and the server gets it unless something failed |
| connectivity | a cache of clients shared by goroutines, an order settled once, one deadline for a lookup and all its dials | a user gets a client with the settings it asked for, whoever filled the cache, and every address is tried in order before a dial fails, unless the deadline passed |
| configuration | four sources, each of which may be absent, empty or malformed | precedence of flags over environment over file over defaults |
| network speed | interfaces that come, go and restart between samples of sums | no more than what was carried is reported, and all of it without such a gap |
| memory, disks | unsigned differences, several mounts of one device | used is within the total, a device counts once |

`PROJECT.json` lists every hazard at its line with the properties that cover it; a hazard no property
covers says why.

## 2. Modules

| module | models | extends or instantiates |
|---|---|---|
| `AgentSession` | the goroutines of a run and what they share | |
| `MCAgentSession` | symmetry for TLC | `AgentSession` |
| `AgentSession_proofs` | its theorems | `AgentSession` |
| `TaskQueue` | abstract: what the fallback promises about events | |
| `EventDelivery` | requests, acknowledgements and the seen-event table; `Promise` is its refinement mapping to `TaskQueue` | `TaskQueue` |
| `MCEventDelivery`, `EventDelivery_proofs` | symmetry; theorems | `EventDelivery` |
| `TrafficTracker`, `TrafficTracker_proofs` | the tracker over many lives of the process | |
| `Calendar` | dates of Go's `time` package (external) | |
| `ResetSchedule` | abstract: a day-by-day schedule of resets | `Calendar` |
| `ResetDate` | `GetLastResetDate`, asked every day; `Schedule` is its refinement mapping to `ResetSchedule` | `Calendar`, `ResetSchedule` |
| `Discovery`, `Discovery_proofs` | `resolveAutoDiscovery` over many lives; theorems | |
| `SelfUpdate`, `MCSelfUpdate`, `SelfUpdate_proofs` | the update command and the release site; versions for TLC; theorems | |
| `PingTask` | one ping task from `Probe` to the sent result | |
| `Configuration` | the sources of a configuration, and `Validate` | |
| `Connectivity` | `connectivity.Manager` and its users | |
| `InterfaceCounters` | the network speed of a report | |
| `Memory`, `Disks` | the figures for memory, swap and disks | `Loops` |
| `Loops` | a loop that keeps the elements of a list it does not skip, in their order; `Connectivity` and `Disks` have such loops | |
| `AgentProcess` | composes the five above with `PingTask` and `ResetDate`: one invocation | all seven |
| `MCAgentProcess` | invocations, clients, servers, tables and samples for TLC | `AgentProcess` |
| `AgentProcess_proofs`, `PingTask_proofs`, `ResetDate_proofs` | theorems about the parts of an invocation | `AgentProcess` |

Operators whose comment begins with *A mutant* are the changed forms of a definition that
`PROJECT.json` names under `mutants`: put in its place, each breaks the property listed with it. No
specification uses them.

### AgentSession

`pc` is the line the main goroutine has reached in `agentRuntime.Run`, `Reporter.Run`,
`runWebSocketConnection`, `connectWithFallback`, `runPostFallback` and `closeSession`, which run on one
goroutine and are therefore one control flow. `conn`, `readDone`, `session` and `retry` are its local
variables; `leaving` says that the running `closeSession` is the one before a return. Each arm of the
`select` is an action of its own (`OnCancel`, `OnDataTick`, `OnHeartbeat`, `OnReadDone`), and every
point where the code can block (a mutex, a write, a join, a dial) ends an action. `reader`, `ping` and
`worker` are the other goroutines. A context check and what follows it are two actions
(`ReadEvent`/`HandleEvent`, `AcceptEvent`/`StartFromEvent`), because a cancellation can come between
them. `link`, `stalled` and the three `Peer...` actions are the network. Contents of messages, the
number of a report and delays are left out: a ticker may tick whenever its loop is at the `select`.

### EventDelivery

A round is `snapshotV2AckEventIDs`, the POST, `clearV2AckEventIDs` and `processV2ResponseEvents`, in
`at`: `idle`, `posted`, `answered`, `handling`, `marked`. The two critical sections `markV2EventSeen`
and `addV2AckEventID` are two actions (`Mark`, `AddAck`). `pending`, `retired` and `stray` are the
server and the network: a request whose POST failed may have been received, may be received later
(`stray`), or never. Time is counted in ages: `seenAge` for an entry, `age` for a round, and `Tick`
lets all of them grow.

### TrafficTracker

Every method holds `Tracker.mu`, so every method is one action. `hist`, `cache`, `last`, `nics` and
`running` are the fields; `file`, `disk` and `diskNics` the file. `phase` is how far the run has come
in using the tracker: `InitStart` and `ConfigureNICs` are the two calls of `InitNetStatic`,
`ReportStart` the call a report makes. `since` and `tick` are the save ticker and its channel of one
tick, so that a tick can be late and one can be dropped. `observed` is a history variable: the deltas
at the time they were sampled. `Save` either replaces the file or leaves it alone, which is what
writing a temporary file and renaming it gives, at every point where the process can end; a power
failure can leave a file that was never synced empty or broken (`PowerFails`).

### ResetDate

A day is a record of year, month and day. `StartCounting` picks a reset day `Config.Validate` admits
and the first day it occurs in some month of `FirstYear`; `NextDay` asks `GetLastResetDate` on each day
after it. Reset day 0 is a run that does not count (`NetworkSpeed` asks for no date then). Time zones
and the time of day are left out.

### Discovery

`pc` is the step of `resolveAutoDiscovery` a process has come to; each read, each half of `Save` (write
the temporary file, rename it) and the request is an action, and `Killed` may come before any of them.
`file` has three paths: the agent's own, the one of the upstream agent, and the one beside the
executable. `Start` picks the path and the legacy path as `defaultCredentialStore` does. `PowerFails`
breaks what was not synced, since `Save` does not sync; `Damage` is somebody else's hand. `identity`,
`issued` and `excused` are history variables. `MaxFaults` bounds ends, failures and damage together.

### SelfUpdate

`state`, `binary` and `sums` are the release site (external): releases are published, get their two
assets one after the other, perhaps again (`Reuploaded`, at most `MaxRev` times), and are withdrawn,
between any two steps of a command. At first some of the nightlies before the installed one may still
be there, as between the two halves of `nightly.yaml:155-174`. A command goes through `find`, `checksum`, `download`, `verify` and `apply`; any step may fail. The bytes
of a build stand for their checksum. A download is the whole asset or damaged.

### PingTask

A measurement is the time of its lookup and the time of its target; `Latency` says which of them each
ping type counts. `Measure` is one turn of the loop in `Probe` with what `Judge` decides after it, then
`Report` and `Send` are `reportPingTask`. `Cancel` may come at any point; `Acknowledge` is the
fallback's next request.

### AgentProcess

An invocation gets its configuration (`Load`, `Validate`), and then connects, reports, answers a ping
task or counts from a reset date: `duty` says which, because these share nothing but the configuration.

In `Connectivity` the users are the goroutines of one manager. `clients` is `httpClients`, a map from
`httpClientKey` (timeout, certificate check and family) to clients; `Request` reads it before it
builds a client and stores it, in one action, as `httpClientMu` makes it. `built` is a history
variable. `Wanted` says what the callers ask for; within one agent they differ in timeout and family
(`sender.go:93`, `ip.go:36` and `:69`, `autodiscovery.go:79`), and the certificate check, which the
manager leaves to its callers, differs in the model as well. A user goes through `lookup`, `sort`,
`dial` and an end. `spent` is the time since the handshake of a WebSocket began: the lookup and the
attempts take theirs from it, and each has `DialTimeout` as well; an HTTP transport dials without the
deadline of the request. `ChosenServer` is the resolver: that of the system when no custom server is
configured (`dns.go:44-46`), otherwise the first of the custom and the fallback servers to which there is
a route.

In `InterfaceCounters` reading the counters and sampling them are two actions, and interfaces move in
between; an interface that is added begins at zero. `ReportFigure` computes a figure from any sample of `Memory` and `Disks`,
which are operators and have no state. `Word` is the width of an unsigned word. The loops over the
addresses of a lookup, over the servers and over the partitions are folds (`Loops!Kept`,
`Disks!Chosen`): one step per round of the loop, which is also what the proofs go by.

## 3. What TLC checks

| run | question | instance |
|---|---|---|
| `session_safety` | does any interleaving leak a goroutine, a socket or a context, or write twice at once? | two connections, two ping tasks, one retry, symmetric |
| `session_liveness` | does a cancelled run end, is a lost session closed and replaced? | one of each, no retry |
| `session_stall` | does it stop when a peer no longer reads? It does not. | one of each, no retry |
| `event_delivery` | is an acknowledgement lost, an event carried out twice? | two events, a table of one, TTL 2, rounds of 1 |
| `event_liveness` | the refinement of `TaskQueue`; is every event carried out and dropped at last? | two events, one of them rejected, a table of two |
| `traffic_history` | counting, losing and keeping traffic, and the allowlist | two interfaces, one byte each, four moments, retention 1, a tick late by 1 |
| `traffic_range` | are totals those of the range? They are not. | one interface, one byte, three moments |
| `discovery` | does an agent keep its identity through faults, and settle? | one agent, three tokens, three files, one fault, with and without a configuration directory |
| `self_update` | what may two commands install while the site changes? | two commands, two stable and two nightly versions, of which one each is uploaded again |
| `nightly_newer` | is what a nightly agent installs newer? It is not. | the same |
| `agent_process` | precedence, clients, dials, speed, memory and disks; what does `Probe` return, and does the server get it; is the last reset the right one, and within the retention time? | 1989 invocations; two users, three clients to ask for, three addresses, a handshake as long as one timeout; two interfaces, two bytes; words of 8; tables of up to three partitions; every ping type, two lookup times, five target times around the thresholds, three retries; 31 reset days, from every month of 2023 to the end of 2024 |
| `http_ping` | is a lookup left out of the latency of an HTTP ping? It is not. | the same, HTTP pings and one user |

**Why the bounds are enough.** Two connections are the old and the new one of a reconnect, and an
identity is reused once nothing refers to it, so sessions may follow each other without end. Two ping
tasks are one that writes and one that waits, or tasks of two sessions. One retry has both outcomes of
the loop in `connectWithFallback`. Two events fill a table and, with a table of one, evict; two
goroutines are all there are. With TTL twice the round time the boundary of `TimeAssumption` is met
exactly: a shorter TTL breaks `AtMostOnce`, as its mutant shows. Four moments with retention 1 hold a
sample, its flush, its expiry, and a tick that is late or dropped; a second interface is there for the
allowlist. A leap year and the year before it contain every kind of month. One fault in `discovery` is
one end, failure or damage at any step, and lives follow each other; three tokens are the one of each
legacy file and a registered one, or a registration, its loss and the next. The times of a ping
lie below, at and above the thresholds `High` and `Drop`, and four measurements are all that `Probe`
makes. Two users fill and share the cache; the three clients they ask for differ in timeout,
certificate check and family. A handshake as long as one timeout, as in `rpc_connection.go:155`, is used
up by a lookup, by one address, or by both together. With words of 8 the samples make the subtractions
wrap, which is what the comparisons in the code are for; no sum of theirs wraps, nor can it where the
pages are distinct pages of the total. Two uploads of a release are the manifest of one with the binary
of the other. Three partitions are a device, its second mount, which may be larger, smaller or not
readable, and another device, in every order. The proofs (below) are for all sizes.

`agent_process` and `http_ping` have `CHECK_DEADLOCK FALSE`: a refused configuration, a figure that was
reported, a result that was sent and the last day of the two years are ends.

**Violations.** All four are listed in `PROJECT.json` under `findings`. `session_stall`:
`SafeConn.WriteMessage` has no write deadline and holds the mutex that `SafeConn.Close` needs, so a
peer that stops reading for ever keeps a cancelled run from ending. `traffic_range`: a flush stamps
the sum of the last interval with its own time, so `TotalTrafficBetween` counts traffic from before
its `start`. `RestampBounded` says how much: not more than one interval and the lag of its tick.
`nightly_newer`: `release.go:40` asks only whether the latest nightly of the site is another one, where `update.go:40`
and `cmd/update.go:18` promise a newer one; an agent whose own nightly was withdrawn installs an older
one that is still published. `http_ping`: `ping.go:129` starts the clock before the request whose dial
resolves the name, where `ping.go:107` and `ping.go:15` say that DNS time is excluded.
`ReturnsTheFirstGood` has the same reference, without lookups, and is about the pings for which it
holds: ICMP and TCP with any lookup, HTTP of an address.

**What the properties leave open**, because the code does it and no document says otherwise. A slow
lookup or a silent address can use up the deadline of a WebSocket handshake before the others are tried
(`FailsOnlyAfterAll` names the deadline, and says that it is the only other cause). Where free, cached,
reclaimable and buffer pages exceed the total, as in some containers, `mem.go:108` and `mem.go:110` can
claim more than there is (`MemoryWithinTotal` is about a consistent `/proc/meminfo`). An acknowledged ping whose task is cancelled
has no result (`ResultOrCause` names the cancellation). Of two agents that start at once one
registration is orphaned, and the run of `discovery` has one agent: that no file is half written with
two is proved (`FilesStayWhole`), not run.

## 4. Fairness

Safety uses none. The liveness runs assume:

* `AgentSession!Fairness`: a goroutine that can go on does (the Go scheduler); a POST, a dial and a
  probe end, because each has a timeout; an arm of a `select` that is ready again and again is chosen
  at last (Go chooses at random), which makes `OnCancel`, `FbCancelled`, `OnReadDone` and `StaticStop`
  strongly fair; a read from a broken connection fails at last, because its buffer is finite, which
  makes `ReadFails` strongly fair. `FbReconnectTick` is a ticker's arm. Nothing is assumed of the
  signal and of the peers.
* `PeersRead`, a premise of `ShutdownCompletes` and `LostSessionEnds`: a peer that stopped reading reads
  again. Without it the run of `session_stall` shows what the code does; that run assumes only that the
  peers settle (`PeersSettle`), so that its counterexample is not a peer that changes its mind for ever.
* `ServerAccepts`, a premise of `SessionRecovers`: a server that is dialled again and again accepts.
* `EventDelivery!Fairness`: the agent stays in the fallback, and requests, offers and answers of the
  pull loop get through if they are tried again and again. The report goroutine is only assumed to
  finish what it does.
* `Discovery!Fairness`: the service manager starts the agent again, a step that is possible is taken,
  and a server that is asked again and again registers the agent (strong fairness, because requests may
  be refused in between). Faults are bounded by `MaxFaults`, so they end. `SettlesDown` is about an
  environment that stays the same in the end, since the file the agent uses depends on it.

## 5. What is proved

TLAPS checks the theorems for all values of the constants that satisfy the named assumptions, each
by an inductive invariant that TLC has checked on an instance first.

* `AgentSession`: all safety properties of `session_safety`, for any number of connections, ping
  tasks and retries, assuming only that the identities differ (`IdsAssumption`,
  `RetriesAssumption`). `SessionInv` adds to the types: `SessionVars` (`conn`, `readDone` and the
  session context are set together, and at which lines), `FallbackVars` (where the fallback's context
  and goroutines may exist), `EndVars` (why and in which order the run ends), `LockVars` (a mutex is
  held exactly by the goroutine that writes) and `PingVars`. `ReaderJoined` alone is not inductive:
  `OnDataTick` without a connection leaves the session for a dial, and no reader may be alive then,
  which needs `readDone` to be empty whenever `conn` is.
* `EventDelivery`: `AckKept`, `AtMostOnce`, `RetiredWereCarriedOut`, `SeenBounded`, and, when the table
  has room for every event (`Roomy`), the refinement of `TaskQueue`. The heart of `DeliveryInv` is
  `Remembered`: the table holds an event for as long as some answer may offer it again, that is, the
  goroutine that marked it has not acknowledged it yet and marked it in this round, or a request
  without the acknowledgement is under way and at most one round younger than the mark. Hence
  `TimeAssumption`, `2 * RoundTime <= TTL`: ten minutes against two rounds of some forty seconds.
* `TrafficTracker`: `NeverOvercounts`, `RestampBounded`, `LosesLittle`, `HistoryKept`, `AllowedOnly`,
  for any interfaces, retention, save interval, lag and horizon. `TrackerInv` adds `Fresh` (a tracker
  that does not run has no samples and no counters), `Age` (what is in the cache is younger than the
  tick before the pending one, or than the last tick when none is pending), `OnDisk` and `InMemory`
  (history and file cover each other). The two properties about amounts need `BytesInv` on top of it:
  `Counted` says that history, cache and what the next sample will find (`Pending`) together are no
  more than the wire carried, for `NeverOvercounts` alone says nothing of the counter that is read
  next; `Stamped` says how far a byte in each of them may have moved from its time.
* `ResetDate` (as part of `AgentProcess`): for every reset day, every month it begins in and every year
  from `FirstYear` on, `WindowKept`, for a retention of 31 days or more, and the refinement of
  `ResetSchedule`, from lemmas on the lengths of months and on the answer of `GetLastResetDate` on a
  given day and on the day after.
* `Discovery`: the types and `FileWhole` for any number of agents at once: `WholeInv` says that a
  process about to rename has its credentials in its temporary file. `UsedIsStored`,
  `Accounted` and `IdentityKept` for one agent (`OneAgent`), any tokens and any number of faults; they
  are false for two, of which the later save wins. `OneInv` adds that an agent
  registers only while its own file holds no token (`Missing`), and that the token last used from an
  undamaged file is still there (`InUse`).
* `SelfUpdate`: both properties of `self_update` for any versions, nightlies, uploads and commands. `UpdateInv`
  says of a command on its way that its candidate is one it needs, that its checksum names an upload of
  this release, and that a verified file is that upload. `StableOnlyNewer` also needs that the
  comparison of parts is the order of version numbers (parts below 1000, `TagsAssumption`).
* `PingTask` (as part of `AgentProcess`): `ReturnsTheFirstGood`, `ResultOrCause` and `EndsInTime`, for any
  times, thresholds and number of retries. `PingInv` says that while `Probe` goes on every measurement so
  far was too high, which makes the last one the first good one.
* `AgentProcess`: every other property of its run. The parts of the process share no state, so each has an
  inductive invariant of its own.
  * `MemoryWithinTotal` for words of any width, by cases of the four paths, from lemmas on when a sum
    does not wrap.
  * `HighestSourceWins` for any fields and invocations (`ConfigInv`). An empty variable and the path of
    the file are the hard cases. `InvocationsAssumption` is what the parsers of the command line and of
    the file let through.
  * `ClientFits` for any users and requests, from `NetInv`. The user's own client is no invariant by
    itself, for it may come out of the cache: `CacheInv` says that what is kept under a key was built with
    just the settings of that key, and that no client was built that the map does not hold.
  * `FailsOnlyAfterAll` and `DialsInOrder` for any answers, times and servers. `AttemptsInv`: what a user
    dials is the sort of an answer by the family it prefers, which without a preference of its own is
    the settled one, and the addresses before `next` have been dialled; `UserInv` bounds the time spent.
    `ServerInv`: the system's resolver is asked without a custom server and only then, and the custom
    server if there was a route to it.
    `HostsAssumption`: no server has the name that stands for the system's resolver.
    `FamiliesAssumption`: an address is of one of the two families. `FallbacksAssumption`: the list of
    servers names each once, as `dns.go:12` does. That nothing is lost, added or reordered within a
    family follows from lemmas on `Kept` (what it does to ranges, lengths, concatenations).
  * `SpeedIsCarried` for any interfaces and readings (`CountersInv`). The invariant names the three
    moments that matter: now, the last reading, and the last sample. `Explains` says what was carried
    between two of them, also while an interface is gone. `CountersAssumption`: finitely many
    interfaces, and no number stands for a missing counter.
  * `DisksCountOnce` for tables of any length (`FigureInv`): after any number of partitions the map has
    one mount of each device seen so far, and none of them is better (`Stands`). `TablesAssumption`: sizes
    and lengths of paths are numbers.

The tracker, the counters and the disks are sums over sets, the dials and the disks loops over
sequences, so these results are inductions over data. The induction theorems of the library
take an operator as a parameter and cannot be used; the proofs take the least element of a
well-founded order instead (`WFMin`), once for the subsets of a finite set (`SubsetInduction`) and once
for the numbers up to a bound, from which induction over sequences follows (`SeqInduction`).

Only model-checked: the liveness properties `ShutdownCompletes`, `LostSessionEnds`, `SessionRecovers`,
`EventuallyRetired` and `SettlesDown` (fairness and `ENABLED` are out of the prover's reach). No theorem
can state `StopsAfterCancellation`, `TotalsInRange`, `NightlyInstallsNewer` and `ExcludesLookup`, which the
code violates.

## 6. What is not modelled

* CPU, load, processes, uptime, operating system, virtualization and GPU: they read and parse what the
  system reports, keep nothing between two calls, and their correctness is that of the parsing.
* The IP collector asks a list of sites in turn until one answers with an address. The clients it asks
  for are users of `Connectivity`; the rest is requests and patterns.
* The count of connections in `net.go`, the output of `free` (printed by a command, not reported), and
  reading `/proc/meminfo` and the partitions.
* The commands that print what components return, logging, domain-name conversion, the big-packet probe
  (not called), installers, migration scripts and the simulator.
* In the modelled parts: what messages contain and how they are encoded, delays of tickers, TLS, proxies
  and pooled connections, the parsing of versions and manifests, and in `TrafficTracker` and
  `InterfaceCounters` the second direction of traffic.

An event that comes over the WebSocket has no identifier, so nothing can be said of its duplicates.
When the first `Start` of a life cannot read the history file, `ConfigureNICs` overwrites it with the
empty history: `HistoryKept` begins with the first `Start` that succeeds.

## 7. Order of the development

1. `AgentSession`, `EventDelivery`, `TrafficTracker` and `ResetDate`, where goroutines, lives and files
   meet, with their proofs.
2. `Discovery`, `SelfUpdate` and `PingTask`, which a release site, a server or a target can disturb at
   every step, with their proofs.
3. `Configuration`, `Connectivity`, `InterfaceCounters`, `Memory` and `Disks`, composed in
   `AgentProcess`, with proofs where no induction over data is needed.
4. Sums and loops: the amounts of `TrafficTracker`, precedence, speed, dials and disks proved.
5. The cache of clients as the map it is, one deadline for lookups and dials; `PingTask` and `ResetDate`
   under the configuration of `AgentProcess`; the violations of nightlies and HTTP pings.

Open: the monthly totals of two directions, the sources of the IP address, and a ledger of ping results
that composes `PingTask` with `EventDelivery` for more than one task.
