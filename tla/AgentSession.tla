----------------------------- MODULE AgentSession -----------------------------
(***************************************************************************)
(* The goroutines of one agent run and what they share: the main loop that *)
(* owns the WebSocket session (runWebSocketConnection), the session's      *)
(* reader, the POST fallback's pull and report goroutines, the ping tasks, *)
(* the static-info reporter, the write mutex of every connection, and the  *)
(* traffic tracker that reports start and shutdown stops.                  *)
(*                                                                         *)
(* What the events, reports and results contain is left out; EventDelivery *)
(* models identifiers, acknowledgements and duplicates.                    *)
(***************************************************************************)
EXTENDS Naturals, FiniteSets

CONSTANTS
    Conns,       \* connection identities; one is reused once nothing refers to it
    Pings,       \* slots for ping-task goroutines, the bound on concurrent ones
    MaxRetries,  \* options.MaxRetries
    NoConn,      \* the nil connection: a ping task without one posts over HTTP
    Main,        \* the goroutine of runWebSocketConnection, as a mutex owner
    Free         \* an unlocked mutex

ASSUME RetriesAssumption == MaxRetries \in Nat
ASSUME IdsAssumption ==
    /\ NoConn \notin Conns
    /\ Main \notin Pings
    /\ Free \notin Pings \cup {Main}

VARIABLES
    cancelled,   \* the context given to Run is cancelled (SIGINT, SIGTERM)
    pc,          \* where the main goroutine is
    leaving,     \* the running closeSession is followed by a return
    retry,       \* retry, in connectWithFallback
    conn,        \* conn, in runWebSocketConnection
    readDone,    \* the connection whose reader readDone belongs to, or NoConn
    session,     \* the session context exists and cancelSession was not called
    link,        \* per connection: "unused", "open", "lost" or "closed"
    stalled,     \* connections whose peer has stopped reading
    mu,          \* per connection: the owner of SafeConn.mu
    reader,      \* per connection: handleWebSocketMessages
    ping,        \* per slot: a ping task, its connection, its own context
    fbLive,      \* fallbackCtx exists and cancelFallback was not called
    worker,      \* the goroutines of runPostFallback: pull and report
    static,      \* RunStaticInfoReporter
    tracker      \* netstatic.Tracker.running

mainVars == <<pc, leaving, retry, conn, readDone, session>>
wireVars == <<link, stalled, mu>>
goVars == <<reader, ping, fbLive, worker, static>>
vars == <<cancelled, mainVars, wireVars, goVars, tracker>>

Workers == {"pull", "report"}

NoPing == [at |-> "idle", via |-> NoConn, live |-> FALSE]

\* ctx.Err() == nil for the session's, the fallback's and a ping task's context.
SessionCtxLive == session /\ ~cancelled
FbCtxLive == fbLive /\ ~cancelled
PingCtxLive(p) == ping[p].live /\ ~cancelled

\* Cancelling a context reaches the ping tasks that were started under it.
CancelPings(c) ==
    ping' = [p \in Pings |->
               IF ping[p].via = c THEN [ping[p] EXCEPT !.live = FALSE] ELSE ping[p]]

\* startPingTask: one more goroutine, or none when the event asks for none
\* (a message, a duplicate, an event that is rejected).
MayStartPing(c, live) ==
    \/ UNCHANGED ping
    \/ \E p \in Pings :
         /\ ping[p].at = "idle"
         /\ ping' = [ping EXCEPT ![p] = [at |-> "probing", via |-> c, live |-> live]]

\* WriteMessage blocks while the peer does not read; it has no deadline.
CanWrite(c) == link[c] \in {"open", "lost"} /\ c \notin stalled
WriteFails(c) == link[c] \in {"lost", "closed"}

\* A connection identity nothing refers to any more.
Reusable(c) ==
    /\ link[c] \in {"unused", "closed"}
    /\ conn # c /\ readDone # c /\ mu[c] = Free
    /\ \A p \in Pings : ping[p].via # c

MainTypes ==
    /\ cancelled \in BOOLEAN /\ leaving \in BOOLEAN
    /\ session \in BOOLEAN /\ tracker \in BOOLEAN
    /\ pc \in {"start", "basicInfo", "select", "dial", "backoff", "fallback",
               "fbDial", "fbCancel", "fbJoinPull", "fbJoinReport", "open",
               "generate", "lock", "write", "hbLock", "hbWrite", "hangup",
               "cancel", "close", "join", "joinPings", "joinStatic",
               "closeTracker", "done"}
    /\ retry \in 0..MaxRetries
    /\ conn \in Conns \cup {NoConn}
    /\ readDone \in Conns \cup {NoConn}

WireTypes ==
    /\ link \in [Conns -> {"unused", "open", "lost", "closed"}]
    /\ stalled \subseteq Conns
    /\ mu \in [Conns -> Pings \cup {Main, Free}]

GoTypes ==
    /\ reader \in [Conns -> {"none", "reading", "event", "done"}]
    /\ ping \in [Pings -> [at : {"idle", "probing", "send", "writing"},
                           via : Conns \cup {NoConn}, live : BOOLEAN]]
    /\ fbLive \in BOOLEAN
    /\ worker \in [Workers -> {"none", "head", "generate", "posting",
                               "handling", "starting", "waiting"}]
    /\ static \in {"none", "idle", "posting", "done"}

TypeOK == MainTypes /\ WireTypes /\ GoTypes

Init ==
    /\ cancelled = FALSE /\ leaving = FALSE
    /\ session = FALSE /\ fbLive = FALSE /\ tracker = FALSE
    /\ pc = "start" /\ retry = 0
    /\ conn = NoConn /\ readDone = NoConn
    /\ link = [c \in Conns |-> "unused"]
    /\ stalled = {}
    /\ mu = [c \in Conns |-> Free]
    /\ reader = [c \in Conns |-> "none"]
    /\ ping = [p \in Pings |-> NoPing]
    /\ worker = [w \in Workers |-> "none"]
    /\ static = "none"

-----------------------------------------------------------------------------
(* The surroundings: the signal, and the network under a connection. *)

Cancel ==
    /\ ~cancelled /\ cancelled' = TRUE
    /\ UNCHANGED <<mainVars, wireVars, goVars, tracker>>

PeerDrops(c) ==
    /\ link[c] = "open" /\ link' = [link EXCEPT ![c] = "lost"]
    /\ UNCHANGED <<cancelled, mainVars, stalled, mu, goVars, tracker>>

PeerStalls(c) ==
    /\ link[c] = "open" /\ c \notin stalled /\ stalled' = stalled \cup {c}
    /\ UNCHANGED <<cancelled, mainVars, link, mu, goVars, tracker>>

PeerResumes(c) ==
    /\ c \in stalled /\ stalled' = stalled \ {c}
    /\ UNCHANGED <<cancelled, mainVars, link, mu, goVars, tracker>>

Environment == Cancel \/ \E c \in Conns : PeerDrops(c) \/ PeerStalls(c) \/ PeerResumes(c)

-----------------------------------------------------------------------------
(* agentRuntime.Run and Reporter.Run, up to the main loop and after it. *)

\* A move of the main goroutine that changes nothing else.
Goto(from, to) ==
    /\ pc = from /\ pc' = to
    /\ UNCHANGED <<cancelled, leaving, retry, conn, readDone, session,
                   wireVars, goVars, tracker>>

\* InitNetStatic, whose Start may fail, then the static-info goroutine.
StartRun ==
    /\ pc = "start" /\ pc' = "basicInfo"
    /\ tracker' \in BOOLEAN
    /\ static' = "idle"
    /\ UNCHANGED <<cancelled, leaving, retry, conn, readDone, session,
                   wireVars, reader, ping, fbLive, worker>>

BasicInfo == Goto("basicInfo", "select")

\* Mutants: the run ends without one of its joins.
JoinPingsAtOnce == Goto("joinPings", "joinStatic")
JoinStaticAtOnce == Goto("joinStatic", "closeTracker")

\* pingTasks.Wait, then runCtx is cancelled.
JoinPings == (\A p \in Pings : ping[p].at = "idle") /\ Goto("joinPings", "joinStatic")

JoinStatic == static = "done" /\ Goto("joinStatic", "closeTracker")

CloseTracker ==
    /\ pc = "closeTracker" /\ pc' = "done"
    /\ tracker' = FALSE
    /\ UNCHANGED <<cancelled, leaving, retry, conn, readDone, session, wireVars, goVars>>

StaticTick ==
    /\ static = "idle" /\ static' = "posting"
    /\ UNCHANGED <<cancelled, mainVars, wireVars, reader, ping, fbLive, worker, tracker>>

StaticPosted ==
    /\ static = "posting" /\ static' = "idle"
    /\ UNCHANGED <<cancelled, mainVars, wireVars, reader, ping, fbLive, worker, tracker>>

StaticStop ==
    /\ static = "idle" /\ static' = "done"
    /\ cancelled \/ pc = "joinStatic"
    /\ UNCHANGED <<cancelled, mainVars, wireVars, reader, ping, fbLive, worker, tracker>>

-----------------------------------------------------------------------------
(* The select of the main loop. *)

\* A mutant: closeSession is not followed by the return.
OnCancelStays == cancelled /\ Goto("select", "cancel")

OnCancel ==
    /\ pc = "select" /\ cancelled
    /\ pc' = "cancel" /\ leaving' = TRUE
    /\ UNCHANGED <<cancelled, retry, conn, readDone, session, wireVars, goVars, tracker>>

OnDataTick ==
    /\ pc = "select"
    /\ IF conn = NoConn
         THEN pc' = "dial" /\ retry' = 0
         ELSE pc' = "generate" /\ UNCHANGED retry
    /\ UNCHANGED <<cancelled, leaving, conn, readDone, session, wireVars, goVars, tracker>>

OnHeartbeat == conn # NoConn /\ Goto("select", "hbLock")

OnReadDone ==
    /\ readDone # NoConn /\ reader[readDone] = "done"
    /\ Goto("select", "cancel")

-----------------------------------------------------------------------------
(* connectWithFallback. *)

\* The dial may succeed although the context has been cancelled meanwhile.
DialOk(c) ==
    /\ Reusable(c)
    /\ \/ pc = "dial" /\ pc' = "open"
       \/ pc = "fbDial" /\ pc' = "fbCancel"
    /\ conn' = c
    /\ link' = [link EXCEPT ![c] = "open"]
    /\ stalled' = stalled \ {c}
    /\ UNCHANGED <<cancelled, leaving, retry, readDone, session, mu, goVars, tracker>>

\* A mutant: the first failed dial ends the run.
DialFailsForGood == Goto("dial", "joinPings")

DialFails == IF cancelled THEN Goto("dial", "joinPings") ELSE Goto("dial", "backoff")

BackoffCancelled == cancelled /\ Goto("backoff", "joinPings")

\* A mutant: one retry too many.
BackoffOverAgain ==
    /\ pc = "backoff" /\ retry <= MaxRetries
    /\ pc' = "dial" /\ retry' = retry + 1
    /\ UNCHANGED <<cancelled, leaving, conn, readDone, session, wireVars, goVars, tracker>>

BackoffOver ==
    /\ pc = "backoff" /\ retry < MaxRetries
    /\ pc' = "dial" /\ retry' = retry + 1
    /\ UNCHANGED <<cancelled, leaving, conn, readDone, session, wireVars, goVars, tracker>>

\* The last retry failed: runPostFallback starts the pull loop.
EnterFallback ==
    /\ pc = "backoff" /\ retry = MaxRetries
    /\ pc' = "fallback"
    /\ fbLive' = TRUE
    /\ worker' = [worker EXCEPT !["pull"] = "head"]
    /\ UNCHANGED <<cancelled, leaving, retry, conn, readDone, session, wireVars,
                   reader, ping, static, tracker>>

\* A tick that finds the semaphore taken is skipped.
FbReportTick ==
    /\ pc = "fallback" /\ worker["report"] = "none"
    /\ worker' = [worker EXCEPT !["report"] = "generate"]
    /\ UNCHANGED <<cancelled, mainVars, wireVars, reader, ping, fbLive, static, tracker>>

\* A mutant: the pull loop is joined before the dial instead of after it.
FbReconnectTickJoins == worker["pull"] = "none" /\ Goto("fallback", "fbDial")

FbReconnectTick == Goto("fallback", "fbDial")

FbDialFails == Goto("fbDial", "fallback")

FbCancelled == cancelled /\ Goto("fallback", "fbCancel")

FbCancel ==
    /\ pc = "fbCancel" /\ pc' = "fbJoinPull"
    /\ fbLive' = FALSE
    /\ CancelPings(NoConn)
    /\ UNCHANGED <<cancelled, leaving, retry, conn, readDone, session, wireVars,
                   reader, worker, static, tracker>>

\* Mutants: runPostFallback returns without one of its joins.
FbJoinPullAtOnce == Goto("fbJoinPull", "fbJoinReport")
FbJoinReportAtOnce == Goto("fbJoinReport", IF conn = NoConn THEN "joinPings" ELSE "open")

FbJoinPull == worker["pull"] = "none" /\ Goto("fbJoinPull", "fbJoinReport")

FbJoinReport ==
    /\ worker["report"] = "none"
    /\ Goto("fbJoinReport", IF conn = NoConn THEN "joinPings" ELSE "open")

-----------------------------------------------------------------------------
(* The session: it is opened, used, and closed by closeSession. *)

\* A report may be due at once.
OpenSession ==
    /\ pc = "open" /\ pc' \in {"generate", "select"}
    /\ readDone' = conn /\ session' = TRUE
    /\ reader' = [reader EXCEPT ![conn] = "reading"]
    /\ UNCHANGED <<cancelled, leaving, retry, conn, wireVars,
                   ping, fbLive, worker, static, tracker>>

\* GenerateReport starts the tracker when it is not running. A report that
\* cannot be built is skipped.
Generate ==
    /\ pc = "generate" /\ pc' \in {"lock", "select"}
    /\ tracker' \in {tracker, TRUE}
    /\ UNCHANGED <<cancelled, leaving, retry, conn, readDone, session, wireVars, goVars>>

LockForWrite ==
    /\ \/ pc = "lock" /\ pc' = "write"
       \/ pc = "hbLock" /\ pc' = "hbWrite"
    /\ mu[conn] = Free /\ mu' = [mu EXCEPT ![conn] = Main]
    /\ UNCHANGED <<cancelled, leaving, retry, conn, readDone, session, link, stalled,
                   goVars, tracker>>

\* A failed report closes the connection at once, a failed heartbeat does not.
WriteEnds ==
    /\ pc \in {"write", "hbWrite"}
    /\ \/ CanWrite(conn) /\ pc' = "select"
       \/ WriteFails(conn) /\ pc' = IF pc = "write" THEN "hangup" ELSE "cancel"
    /\ mu' = [mu EXCEPT ![conn] = Free]
    /\ UNCHANGED <<cancelled, leaving, retry, conn, readDone, session, link, stalled,
                   goVars, tracker>>

\* SafeConn.Close by the main goroutine: it needs the write mutex.
CloseLink == mu[conn] = Free /\ link' = [link EXCEPT ![conn] = "closed"]

HangUp ==
    /\ pc = "hangup" /\ pc' = "cancel"
    /\ CloseLink
    /\ UNCHANGED <<cancelled, leaving, retry, conn, readDone, session, stalled, mu,
                   goVars, tracker>>

CancelSession ==
    /\ pc = "cancel" /\ pc' = "close"
    /\ session' = FALSE
    /\ IF session THEN CancelPings(conn) ELSE UNCHANGED ping
    /\ UNCHANGED <<cancelled, leaving, retry, conn, readDone, wireVars,
                   reader, fbLive, worker, static, tracker>>

\* A mutant: conn is set to nil but not closed.
CloseConnForgets ==
    /\ pc = "close" /\ pc' = "join"
    /\ conn' = NoConn
    /\ UNCHANGED <<cancelled, leaving, retry, readDone, session, wireVars, goVars, tracker>>

CloseConn ==
    /\ pc = "close" /\ pc' = "join"
    /\ IF conn = NoConn THEN UNCHANGED link ELSE CloseLink
    /\ conn' = NoConn
    /\ UNCHANGED <<cancelled, leaving, retry, readDone, session, stalled, mu, goVars, tracker>>

\* A mutant: closeSession does not wait for the reader.
JoinReaderAtOnce ==
    /\ pc = "join" /\ pc' = IF leaving THEN "joinPings" ELSE "select"
    /\ readDone' = NoConn
    /\ UNCHANGED <<cancelled, leaving, retry, conn, session, wireVars, goVars, tracker>>

\* <-readDone.
JoinReader ==
    /\ pc = "join" /\ pc' = IF leaving THEN "joinPings" ELSE "select"
    /\ IF readDone = NoConn
         THEN UNCHANGED reader
         ELSE reader[readDone] = "done" /\ reader' = [reader EXCEPT ![readDone] = "none"]
    /\ readDone' = NoConn
    /\ UNCHANGED <<cancelled, leaving, retry, conn, session, wireVars,
                   ping, fbLive, worker, static, tracker>>

MainStep ==
    \/ StartRun \/ BasicInfo \/ JoinPings \/ JoinStatic \/ CloseTracker
    \/ OnCancel \/ OnDataTick \/ OnHeartbeat \/ OnReadDone
    \/ (\E c \in Conns : DialOk(c)) \/ DialFails \/ BackoffCancelled \/ BackoffOver
    \/ EnterFallback \/ FbReportTick \/ FbReconnectTick \/ FbDialFails
    \/ FbCancelled \/ FbCancel \/ FbJoinPull \/ FbJoinReport
    \/ OpenSession \/ Generate \/ LockForWrite \/ WriteEnds \/ HangUp
    \/ CancelSession \/ CloseConn \/ JoinReader

-----------------------------------------------------------------------------
(* handleWebSocketMessages. *)

\* A message arrived, or was still buffered, and processV2Event found the
\* session's context alive.
ReadEvent(c) ==
    /\ reader[c] = "reading" /\ SessionCtxLive
    /\ reader' = [reader EXCEPT ![c] = "event"]
    /\ UNCHANGED <<cancelled, mainVars, wireVars, ping, fbLive, worker, static, tracker>>

\* A mutant: the task gets a context of its own, not the session's.
HandleEventDetached(c) ==
    /\ reader[c] = "event"
    /\ reader' = [reader EXCEPT ![c] = "reading"]
    /\ MayStartPing(c, TRUE)
    /\ UNCHANGED <<cancelled, mainVars, wireVars, fbLive, worker, static, tracker>>

HandleEvent(c) ==
    /\ reader[c] = "event"
    /\ reader' = [reader EXCEPT ![c] = "reading"]
    /\ MayStartPing(c, session)
    /\ UNCHANGED <<cancelled, mainVars, wireVars, fbLive, worker, static, tracker>>

\* A mutant: only a read from a connection the agent itself closed fails.
ReadFailsClosed(c) ==
    /\ reader[c] = "reading" /\ link[c] = "closed"
    /\ reader' = [reader EXCEPT ![c] = "done"]
    /\ UNCHANGED <<cancelled, mainVars, wireVars, ping, fbLive, worker, static, tracker>>

ReadFails(c) ==
    /\ reader[c] = "reading" /\ link[c] \in {"lost", "closed"}
    /\ reader' = [reader EXCEPT ![c] = "done"]
    /\ UNCHANGED <<cancelled, mainVars, wireVars, ping, fbLive, worker, static, tracker>>

-----------------------------------------------------------------------------
(* reportPingTask. *)

\* Probe returns; a task whose context is cancelled drops its result.
ProbeEnds(p) ==
    /\ ping[p].at = "probing"
    /\ ping' = [ping EXCEPT ![p] =
                  IF PingCtxLive(p) THEN [@ EXCEPT !.at = "send"] ELSE NoPing]
    /\ UNCHANGED <<cancelled, mainVars, wireVars, reader, fbLive, worker, static, tracker>>

\* Without a connection the result is posted; the POST ends by reply, error,
\* timeout or cancellation.
PingPosted(p) ==
    /\ ping[p].at = "send" /\ ping[p].via = NoConn
    /\ ping' = [ping EXCEPT ![p] = NoPing]
    /\ UNCHANGED <<cancelled, mainVars, wireVars, reader, fbLive, worker, static, tracker>>

\* A mutant: a ping result is written without the mutex.
PingLocksNot(p) ==
    LET c == ping[p].via IN
    /\ ping[p].at = "send" /\ c # NoConn
    /\ ping' = [ping EXCEPT ![p].at = "writing"]
    /\ UNCHANGED <<cancelled, mainVars, wireVars, reader, fbLive, worker, static, tracker>>

PingLocks(p) ==
    LET c == ping[p].via IN
    /\ ping[p].at = "send" /\ c # NoConn
    /\ mu[c] = Free /\ mu' = [mu EXCEPT ![c] = p]
    /\ ping' = [ping EXCEPT ![p].at = "writing"]
    /\ UNCHANGED <<cancelled, mainVars, link, stalled, reader, fbLive, worker, static, tracker>>

PingWritten(p) ==
    LET c == ping[p].via IN
    /\ ping[p].at = "writing"
    /\ CanWrite(c) \/ WriteFails(c)
    /\ mu' = [mu EXCEPT ![c] = Free]
    /\ ping' = [ping EXCEPT ![p] = NoPing]
    /\ UNCHANGED <<cancelled, mainVars, link, stalled, reader, fbLive, worker, static, tracker>>

-----------------------------------------------------------------------------
(* runV2PullLoop and sendFallbackReport. *)

WorkerGoes(w, from, to) ==
    /\ worker[w] = from /\ worker' = [worker EXCEPT ![w] = to]
    /\ UNCHANGED <<cancelled, mainVars, wireVars, reader, fbLive, static>>

WorkerMoves(w, from, to) == WorkerGoes(w, from, to) /\ UNCHANGED <<ping, tracker>>

PullHead == WorkerMoves("pull", "head", IF FbCtxLive THEN "posting" ELSE "none")

PullWaits ==
    \/ WorkerMoves("pull", "waiting", "head")
    \/ ~FbCtxLive /\ WorkerMoves("pull", "waiting", "none")

FbGenerate ==
    /\ \E next \in {"posting", "none"} : WorkerGoes("report", "generate", next)
    /\ tracker' \in {tracker, TRUE}
    /\ UNCHANGED ping

PostOk(w) == WorkerMoves(w, "posting", "handling")

PostFails(w) ==
    WorkerMoves(w, "posting", IF w = "pull" /\ FbCtxLive THEN "waiting" ELSE "none")

\* processV2ResponseEvents: the next event passes the context check ...
AcceptEvent(w) == FbCtxLive /\ WorkerMoves(w, "handling", "starting")

\* ... and may start a ping task.
StartFromEvent(w) ==
    /\ WorkerGoes(w, "starting", "handling")
    /\ MayStartPing(NoConn, fbLive)
    /\ UNCHANGED tracker

EventsDone(w) == WorkerMoves(w, "handling", IF w = "pull" THEN "head" ELSE "none")

-----------------------------------------------------------------------------

ReaderStep(c) == ReadEvent(c) \/ HandleEvent(c) \/ ReadFails(c)
PingStep(p) == ProbeEnds(p) \/ PingPosted(p) \/ PingLocks(p) \/ PingWritten(p)
WorkerStep(w) ==
    \/ PostOk(w) \/ PostFails(w) \/ AcceptEvent(w) \/ StartFromEvent(w) \/ EventsDone(w)
StaticStep == StaticTick \/ StaticPosted \/ StaticStop

\* The program has ended; only what it left behind on the network still moves.
Terminated == pc = "done" /\ cancelled /\ UNCHANGED vars

Next ==
    \/ Environment
    \/ MainStep
    \/ \E c \in Conns : ReaderStep(c)
    \/ \E p \in Pings : PingStep(p)
    \/ PullHead \/ PullWaits \/ FbGenerate
    \/ \E w \in Workers : WorkerStep(w)
    \/ StaticStep
    \/ Terminated

Spec == Init /\ [][Next]_vars

-----------------------------------------------------------------------------
(* Safety. *)

\* The main goroutine has left Run's pingTasks.Wait, or the whole of Run.
PingsWaited == {"joinStatic", "closeTracker", "done"}
RunReturned == {"closeTracker", "done"}

\* A reader goroutine lives only inside the session the main loop still has to
\* join: closeSession waits for it, so two readers never coexist and none is
\* alive while the next connection is dialled (handleWebSocketMessages,
\* closeSession).
ReaderJoined ==
    \A c \in Conns : reader[c] # "none" =>
        /\ readDone = c
        /\ pc \in {"select", "generate", "lock", "write", "hbLock", "hbWrite",
                   "hangup", "cancel", "close", "join"}

\* The POST fallback and a WebSocket session exclude each other: as long as the
\* pull or the report goroutine is alive no reader is, and the main goroutine is
\* still inside runPostFallback (its deferred joins come before the return).
FallbackJoined ==
    (\E w \in Workers : worker[w] # "none") =>
        /\ pc \in {"fallback", "fbDial", "fbCancel", "fbJoinPull", "fbJoinReport"}
        /\ \A c \in Conns : reader[c] = "none"

\* Every socket that is not closed is the one the main loop owns: no path
\* through the retries, the fallback, a failed write or shutdown forgets one.
NoSocketLeak == \A c \in Conns : link[c] \in {"open", "lost"} => conn = c

\* SafeConn.WriteMessage: at most one goroutine writes to a connection.
Writers(c) == {p \in Pings : ping[p].at = "writing" /\ ping[p].via = c}
                \cup (IF pc \in {"write", "hbWrite"} /\ conn = c THEN {Main} ELSE {})
OneWriter == \A c \in Conns : \A a, b \in Writers(c) : a = b

\* A ping task whose own context is still alive belongs to the session, or the
\* fallback, that is alive now: the cancellation of a session reaches also the
\* tasks its reader starts between the context check and the end of the session.
PingOwnerAlive ==
    \A p \in Pings : ping[p].at # "idle" /\ ping[p].live =>
        \/ ping[p].via = NoConn /\ fbLive
        \/ ping[p].via # NoConn /\ session /\ readDone = ping[p].via

\* No ping task exists once pingTasks.Wait has returned: every goroutine that
\* could call pingTasks.Add has been joined before.
PingsJoined == pc \in PingsWaited => \A p \in Pings : ping[p].at = "idle"

\* When agentRuntime.Run has returned, no goroutine of the run is left, no
\* mutex is held and no context is live.
NothingOutlivesRun ==
    pc \in RunReturned =>
        /\ \A c \in Conns : reader[c] = "none" /\ mu[c] = Free /\ link[c] \notin {"open", "lost"}
        /\ \A p \in Pings : ping[p].at = "idle"
        /\ \A w \in Workers : worker[w] = "none"
        /\ static = "done" /\ ~session /\ ~fbLive

\* The tracker stopped by Collector.Close stays stopped: no late report restarts
\* it through NetworkSpeed.
TrackerStaysClosed == pc = "done" => ~tracker

\* Run gives up for no other reason than the cancellation of its context.
RunsUntilCancelled == pc \in {"joinPings"} \cup PingsWaited => cancelled

-----------------------------------------------------------------------------
(* The inductive invariant behind the safety properties. *)

\* The main goroutine writes to the connection it has, or is about to.
Writing == {"generate", "lock", "write", "hbLock", "hbWrite", "hangup"}
SessionPcs == {"select", "cancel", "close", "join"} \cup Writing
DialPcs == {"start", "basicInfo", "dial", "backoff"}
FallbackPcs == {"fallback", "fbDial", "fbCancel", "fbJoinPull", "fbJoinReport"}
EndPcs == {"joinPings"} \cup PingsWaited

\* conn, readDone and cancelSession are nil, or set, together.
SessionVars ==
    /\ pc \in DialPcs \cup {"fallback", "fbDial", "join"} \cup EndPcs => conn = NoConn
    /\ pc \in Writing \cup {"open"} => conn # NoConn
    /\ pc \in Writing \cup {"select", "cancel"} => readDone = conn
    /\ pc = "close" => readDone = conn
    /\ pc \notin SessionPcs => readDone = NoConn
    /\ session => pc \in Writing \cup {"select", "cancel"} /\ readDone # NoConn
    /\ \A c \in Conns : reader[c] # "none" => readDone = c

\* The fallback's context and goroutines end inside runPostFallback.
FallbackVars ==
    /\ fbLive => pc \in {"fallback", "fbDial", "fbCancel"}
    /\ worker["pull"] # "none" => pc \in FallbackPcs \ {"fbJoinReport"}
    /\ worker["report"] # "none" => pc \in FallbackPcs

\* Why and in which order the run ends.
EndVars ==
    /\ leaving => cancelled /\ pc \in {"cancel", "close", "join"} \cup EndPcs
    /\ pc = "fbCancel" /\ conn = NoConn => cancelled
    /\ pc \in {"fbJoinPull", "fbJoinReport"} /\ conn = NoConn => cancelled
    /\ pc \in EndPcs => cancelled
    /\ pc \in RunReturned => static = "done"
    /\ pc = "done" => ~tracker

\* A mutex is held exactly by the goroutine that is writing under it.
LockVars ==
    /\ \A c \in Conns : mu[c] = Main <=> pc \in {"write", "hbWrite"} /\ conn = c
    /\ \A c \in Conns, p \in Pings :
         mu[c] = p <=> ping[p].at = "writing" /\ ping[p].via = c

PingVars ==
    /\ \A p \in Pings : ping[p].at = "writing" => ping[p].via # NoConn
    /\ PingOwnerAlive /\ PingsJoined

SessionInv ==
    TypeOK /\ SessionVars /\ FallbackVars /\ EndVars /\ LockVars /\ PingVars /\ NoSocketLeak

-----------------------------------------------------------------------------
(* Fairness and liveness. *)

\* What the Go scheduler, the timeouts and select give: a goroutine that can go
\* on does; an arm of a select that is ready again and again is chosen; the
\* buffer of a broken connection ends. Once the context is cancelled no ping task
\* is started, so a mutex and a list of events need no more than weak fairness.
Fairness ==
    /\ WF_vars(MainStep) /\ WF_vars(FbReconnectTick)
    /\ SF_vars(OnCancel \/ FbCancelled)
    /\ SF_vars(OnReadDone)
    /\ \A c \in Conns : WF_vars(HandleEvent(c))
    /\ SF_vars(\E c \in Conns : ReadFails(c))
    /\ \A p \in Pings : WF_vars(PingStep(p))
    /\ WF_vars(PullHead \/ PullWaits) /\ WF_vars(FbGenerate)
    /\ \A w \in Workers :
         /\ WF_vars(PostOk(w) \/ PostFails(w))
         /\ WF_vars(StartFromEvent(w)) /\ WF_vars(EventsDone(w))
    /\ WF_vars(StaticPosted) /\ SF_vars(StaticStop)

\* The peers that stopped reading read again at last.
PeersRead == <>[](stalled = {})

\* A server that is dialled again and again accepts at last.
ServerAccepts == SF_vars(\E c \in Conns : DialOk(c))

\* A peer may have stopped for good, but it does not go on changing its mind.
PeersSettle == <>[][UNCHANGED stalled]_stalled

SpecPeersSettle == Spec /\ Fairness /\ PeersSettle
FairSpec == Spec /\ Fairness

\* Cancelling the context ends the run when peers read: every loop is left,
\* every join succeeds and the tracker is closed.
ShutdownCompletes == PeersRead => (cancelled ~> pc = "done")

\* runWebSocketConnection stops after the cancellation of its context, as
\* TestWebSocketDisconnectCancelsPingTask demands of it.
StopsAfterCancellation == cancelled ~> pc \in {"joinPings"} \cup PingsWaited

\* A lost connection is noticed, by the reader or a failed write, and its session
\* closed, also when it is lost before the session is opened, or in the fallback.
LostSessionEnds ==
    PeersRead => \A c \in Conns : link[c] = "lost" ~> link[c] = "closed"

\* Without a session the agent gets one again from a server that accepts at
\* last, through the retries and the fallback, unless it is told to stop.
SessionRecovers == ServerAccepts => (pc = "dial" ~> (session \/ cancelled))
=============================================================================
