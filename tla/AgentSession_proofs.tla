-------------------------- MODULE AgentSession_proofs --------------------------
(***************************************************************************)
(* Proofs about AgentSession, for any number of connections, ping tasks    *)
(* and retries.                                                            *)
(***************************************************************************)
EXTENDS AgentSession, TLAPS

USE RetriesAssumption, IdsAssumption

\* The steps that leave the main goroutine's variables alone.
LEMMA MainTypesStep == TypeOK /\ [Next]_vars => MainTypes'
<1> SUFFICES ASSUME TypeOK, [Next]_vars PROVE MainTypes'
  OBVIOUS
<1> USE DEF TypeOK, MainTypes, mainVars
<1>1. CASE UNCHANGED mainVars /\ cancelled' \in BOOLEAN /\ tracker' \in BOOLEAN
  BY <1>1
<1>2. ASSUME NEW from, NEW to, Goto(from, to), to \in {"select", "hbLock", "dial", "backoff",
                "fallback", "fbDial", "fbCancel", "fbJoinReport", "open", "cancel",
                "joinPings", "joinStatic", "closeTracker"}
      PROVE  MainTypes'
  BY <1>2 DEF Goto
<1>3. CASE BasicInfo \/ JoinPings \/ JoinStatic \/ OnHeartbeat \/ OnReadDone
  BY <1>2, <1>3 DEF BasicInfo, JoinPings, JoinStatic, OnHeartbeat, OnReadDone
<1>4. CASE DialFails \/ BackoffCancelled \/ FbReconnectTick \/ FbDialFails \/ FbCancelled
           \/ FbJoinPull \/ FbJoinReport
  BY <1>2, <1>4 DEF DialFails, BackoffCancelled, FbReconnectTick, FbDialFails, FbCancelled,
                    FbJoinPull, FbJoinReport
<1>5. CASE StartRun \/ CloseTracker \/ OnCancel \/ OnDataTick
  <2>1. CASE StartRun \/ CloseTracker \/ OnCancel
    BY <2>1 DEF StartRun, CloseTracker, OnCancel
  <2>2. CASE OnDataTick
    <3>1. retry' \in 0..MaxRetries
      BY <2>2 DEF OnDataTick
    <3> QED BY <2>2, <3>1 DEF OnDataTick
  <2> QED BY <1>5, <2>1, <2>2
<1>6. CASE (\E c \in Conns : DialOk(c)) \/ EnterFallback \/ FbReportTick \/ FbCancel
  BY <1>6 DEF DialOk, EnterFallback, FbReportTick, FbCancel
<1>7. CASE BackoffOver
  BY <1>7 DEF BackoffOver
<1>8. CASE OpenSession \/ Generate \/ LockForWrite \/ WriteEnds \/ HangUp
  BY <1>8 DEF OpenSession, Generate, LockForWrite, WriteEnds, HangUp
<1>9. CASE CancelSession \/ CloseConn \/ JoinReader
  BY <1>9 DEF CancelSession, CloseConn, JoinReader
<1>10. CASE Environment
  BY <1>1, <1>10 DEF Environment, Cancel, PeerDrops, PeerStalls, PeerResumes
<1>11. CASE \E c \in Conns : ReaderStep(c)
  BY <1>1, <1>11 DEF ReaderStep, ReadEvent, HandleEvent, ReadFails
<1>12. CASE \E p \in Pings : PingStep(p)
  BY <1>1, <1>12 DEF PingStep, ProbeEnds, PingPosted, PingLocks, PingWritten
<1>13. CASE PullHead \/ PullWaits \/ FbGenerate \/ \E w \in Workers : WorkerStep(w)
  BY <1>1, <1>13 DEF PullHead, PullWaits, FbGenerate, WorkerStep, PostOk, PostFails,
       AcceptEvent, StartFromEvent, EventsDone, WorkerMoves, WorkerGoes
<1>14. CASE StaticStep \/ Terminated \/ UNCHANGED vars
  BY <1>1, <1>14 DEF StaticStep, StaticTick, StaticPosted, StaticStop, Terminated, vars
<1> QED
  BY <1>3, <1>4, <1>5, <1>6, <1>7, <1>8, <1>9, <1>10, <1>11, <1>12, <1>13, <1>14
     DEF Next, MainStep

LEMMA WireTypesStep == TypeOK /\ [Next]_vars => WireTypes'
<1> SUFFICES ASSUME TypeOK, [Next]_vars PROVE WireTypes'
  OBVIOUS
<1> USE DEF TypeOK, WireTypes, wireVars
<1>1. CASE UNCHANGED wireVars
  BY <1>1
<1>2. CASE Environment
  BY <1>1, <1>2 DEF Environment, Cancel, PeerDrops, PeerStalls, PeerResumes
<1>3. CASE \E c \in Conns : DialOk(c)
  BY <1>3 DEF DialOk
<1>4. CASE LockForWrite \/ WriteEnds \/ HangUp \/ CloseConn
  BY <1>1, <1>4 DEF LockForWrite, WriteEnds, HangUp, CloseConn, CloseLink
<1>5. CASE \E p \in Pings : PingLocks(p) \/ PingWritten(p)
  BY <1>5 DEF PingLocks, PingWritten
<1> QED
  BY <1>1, <1>2, <1>3, <1>4, <1>5
     DEF Next, vars, MainStep, StartRun, BasicInfo, JoinPings, JoinStatic, CloseTracker,
         OnCancel, OnDataTick, OnHeartbeat, OnReadDone, DialFails, BackoffCancelled,
         BackoffOver, EnterFallback, FbReportTick, FbReconnectTick, FbDialFails,
         FbCancelled, FbCancel, FbJoinPull, FbJoinReport, OpenSession, Generate,
         CancelSession, JoinReader, Goto, ReaderStep, ReadEvent, HandleEvent, ReadFails,
         PingStep, ProbeEnds, PingPosted, PullHead, PullWaits, FbGenerate, WorkerStep,
         PostOk, PostFails, AcceptEvent, StartFromEvent, EventsDone, WorkerMoves,
         WorkerGoes, StaticStep, StaticTick, StaticPosted, StaticStop, Terminated

PingType == [at : {"idle", "probing", "send", "writing"}, via : Conns \cup {NoConn},
             live : BOOLEAN]

LEMMA GoTypesStep == TypeOK /\ [Next]_vars => GoTypes'
<1> SUFFICES ASSUME TypeOK, [Next]_vars PROVE GoTypes'
  OBVIOUS
<1>0. /\ reader \in [Conns -> {"none", "reading", "event", "done"}]
      /\ ping \in [Pings -> PingType]
      /\ fbLive \in BOOLEAN
      /\ worker \in [Workers -> {"none", "head", "generate", "posting",
                                 "handling", "starting", "waiting"}]
      /\ static \in {"none", "idle", "posting", "done"}
      /\ conn \in Conns \cup {NoConn} /\ readDone \in Conns \cup {NoConn}
      /\ session \in BOOLEAN
  BY DEF TypeOK, GoTypes, MainTypes, PingType
<1>1. SUFFICES /\ reader' \in [Conns -> {"none", "reading", "event", "done"}]
               /\ ping' \in [Pings -> PingType]
               /\ fbLive' \in BOOLEAN
               /\ worker' \in [Workers -> {"none", "head", "generate", "posting",
                                           "handling", "starting", "waiting"}]
               /\ static' \in {"none", "idle", "posting", "done"}
  BY DEF GoTypes, PingType
<1> DEFINE Goal == GoTypes'
<1>2. CASE UNCHANGED goVars
  BY <1>0, <1>2 DEF goVars
<1>3. ASSUME NEW c \in Conns \cup {NoConn}, CancelPings(c) PROVE ping' \in [Pings -> PingType]
  <2>1. \A r \in PingType : [r EXCEPT !.live = FALSE] \in PingType
    BY DEF PingType
  <2> QED BY <1>0, <1>3, <2>1 DEF CancelPings
<1>4. ASSUME NEW c \in Conns \cup {NoConn}, NEW live \in BOOLEAN, MayStartPing(c, live)
      PROVE  ping' \in [Pings -> PingType]
  <2>1. [at |-> "probing", via |-> c, live |-> live] \in PingType
    BY DEF PingType
  <2> QED BY <1>0, <1>4, <2>1 DEF MayStartPing
<1>5. CASE StartRun \/ StaticStep
  BY <1>0, <1>5 DEF StartRun, StaticStep, StaticTick, StaticPosted, StaticStop
<1>6. CASE EnterFallback \/ FbReportTick
  BY <1>0, <1>6 DEF EnterFallback, FbReportTick
<1>7. CASE FbCancel
  BY <1>0, <1>3, <1>7 DEF FbCancel
<1>8. CASE OpenSession \/ JoinReader
  BY <1>0, <1>8 DEF OpenSession, JoinReader
<1>9. CASE CancelSession
  BY <1>0, <1>3, <1>9 DEF CancelSession
<1>10. CASE \E c \in Conns : ReaderStep(c)
  BY <1>0, <1>4, <1>10 DEF ReaderStep, ReadEvent, HandleEvent, ReadFails
<1>11. ASSUME NEW p \in Pings, PingStep(p) PROVE ping' \in [Pings -> PingType]
  <2>1. NoPing \in PingType /\ ping[p] \in PingType
    BY <1>0 DEF NoPing, PingType
  <2>2. [ping[p] EXCEPT !.at = "send"] \in PingType
        /\ [ping[p] EXCEPT !.at = "writing"] \in PingType
    BY <2>1 DEF PingType
  <2> QED BY <1>0, <1>11, <2>1, <2>2 DEF PingStep, ProbeEnds, PingPosted, PingLocks, PingWritten
<1>12. CASE \E p \in Pings : PingStep(p)
  BY <1>0, <1>11, <1>12 DEF PingStep, ProbeEnds, PingPosted, PingLocks, PingWritten
<1>13. CASE PullHead \/ PullWaits \/ FbGenerate
  BY <1>0, <1>13 DEF PullHead, PullWaits, FbGenerate, WorkerMoves, WorkerGoes
<1>14. ASSUME NEW w \in Workers, PostOk(w) \/ PostFails(w) \/ AcceptEvent(w) \/ EventsDone(w)
       PROVE  Goal
  BY <1>0, <1>14 DEF PostOk, PostFails, AcceptEvent, EventsDone, WorkerMoves, WorkerGoes,
                     Goal, GoTypes, PingType
<1>15. ASSUME NEW w \in Workers, StartFromEvent(w) PROVE Goal
  BY <1>0, <1>4, <1>15 DEF StartFromEvent, WorkerGoes, Goal, GoTypes, PingType
<1> QED
  BY <1>2, <1>5, <1>6, <1>7, <1>8, <1>9, <1>10, <1>12, <1>13, <1>14, <1>15
     DEF Next, vars, MainStep, BasicInfo, JoinPings, JoinStatic, CloseTracker,
         OnCancel, OnDataTick, OnHeartbeat, OnReadDone, DialOk, DialFails, BackoffCancelled,
         BackoffOver, FbReconnectTick, FbDialFails, FbCancelled, FbJoinPull, FbJoinReport,
         Generate, LockForWrite, WriteEnds, HangUp, CloseConn, Goto, Environment, Cancel,
         PeerDrops, PeerStalls, PeerResumes, WorkerStep, Terminated, Goal, GoTypes, PingType

LEMMA TypeStep == TypeOK /\ [Next]_vars => TypeOK'
BY MainTypesStep, WireTypesStep, GoTypesStep DEF TypeOK

LEMMA TypeInit == Init => TypeOK
<1> SUFFICES ASSUME Init PROVE TypeOK
  OBVIOUS
<1>1. MainTypes
  <2>1. retry \in 0..MaxRetries
    BY DEF Init
  <2> QED BY <2>1 DEF Init, MainTypes
<1>2. WireTypes
  BY DEF Init, WireTypes
<1>3. GoTypes
  BY DEF Init, GoTypes, NoPing
<1> QED BY <1>1, <1>2, <1>3 DEF TypeOK

\* Type correctness: every program counter, flag and mutex keeps its range.
THEOREM TypeCorrect == Spec => []TypeOK
BY TypeInit, TypeStep, PTL DEF Spec

-----------------------------------------------------------------------------

\* The main loop's variables are nil, or set, together, and a reader is joined
\* by the session it belongs to.
LEMMA SessionVarsStep == TypeOK /\ SessionVars /\ [Next]_vars => SessionVars'
<1> SUFFICES ASSUME TypeOK, SessionVars, [Next]_vars PROVE SessionVars'
  OBVIOUS
<1> USE DEF SessionVars, SessionPcs, Writing, DialPcs, EndPcs, PingsWaited
<1>t. /\ reader \in [Conns -> {"none", "reading", "event", "done"}]
      /\ conn \in Conns \cup {NoConn} /\ readDone \in Conns \cup {NoConn}
  BY DEF TypeOK, MainTypes, GoTypes
<1>1. CASE UNCHANGED <<mainVars, reader>>
  BY <1>1 DEF mainVars
<1>2. CASE StartRun \/ BasicInfo \/ JoinPings \/ JoinStatic \/ CloseTracker
  BY <1>2 DEF StartRun, BasicInfo, JoinPings, JoinStatic, CloseTracker, Goto, goVars
<1>3. CASE OnCancel \/ OnDataTick \/ OnHeartbeat \/ OnReadDone
  BY <1>3 DEF OnCancel, OnDataTick, OnHeartbeat, OnReadDone, Goto, goVars
<1>4. ASSUME NEW c \in Conns, DialOk(c) PROVE SessionVars'
  BY <1>4 DEF DialOk, goVars
<1>5. CASE DialFails \/ BackoffCancelled \/ BackoffOver \/ EnterFallback
  BY <1>5 DEF DialFails, BackoffCancelled, BackoffOver, EnterFallback, Goto, goVars
<1>6. CASE FbReconnectTick \/ FbDialFails \/ FbCancelled \/ FbCancel
  BY <1>6 DEF FbReconnectTick, FbDialFails, FbCancelled, FbCancel, Goto, goVars
<1>7. CASE FbJoinPull \/ FbJoinReport
  BY <1>7 DEF FbJoinPull, FbJoinReport, Goto, goVars
<1>8. CASE OpenSession
  BY <1>8, <1>t DEF OpenSession
<1>9. CASE Generate \/ LockForWrite \/ WriteEnds \/ HangUp
  BY <1>9 DEF Generate, LockForWrite, WriteEnds, HangUp, goVars
<1>10. CASE CancelSession \/ CloseConn
  BY <1>10 DEF CancelSession, CloseConn, goVars
<1>11. CASE JoinReader
  BY <1>11, <1>t DEF JoinReader
<1>12. ASSUME NEW c \in Conns, ReaderStep(c) PROVE SessionVars'
  BY <1>12, <1>t DEF ReaderStep, ReadEvent, HandleEvent, ReadFails, mainVars
<1> QED
  BY <1>1, <1>2, <1>3, <1>4, <1>5, <1>6, <1>7, <1>8, <1>9, <1>10, <1>11, <1>12
     DEF Next, vars, goVars, MainStep, FbReportTick, Environment, Cancel, PeerDrops,
         PeerStalls, PeerResumes, PingStep, ProbeEnds, PingPosted, PingLocks, PingWritten,
         PullHead, PullWaits, FbGenerate, WorkerStep, PostOk, PostFails, AcceptEvent,
         StartFromEvent, EventsDone, WorkerMoves, WorkerGoes, StaticStep, StaticTick,
         StaticPosted, StaticStop, Terminated

\* runPostFallback does not return before its context is cancelled and its pull
\* and report goroutines have ended.
LEMMA FallbackVarsStep == TypeOK /\ FallbackVars /\ [Next]_vars => FallbackVars'
<1> SUFFICES ASSUME TypeOK, FallbackVars, [Next]_vars PROVE FallbackVars'
  OBVIOUS
<1> USE DEF FallbackVars, FallbackPcs
<1>t. worker \in [Workers -> {"none", "head", "generate", "posting",
                               "handling", "starting", "waiting"}]
      /\ "pull" \in Workers /\ "report" \in Workers /\ Workers = {"pull", "report"}
  BY DEF TypeOK, GoTypes, Workers
<1>1. CASE UNCHANGED <<pc, fbLive, worker>>
  BY <1>1
<1>2. CASE StartRun \/ BasicInfo \/ JoinPings \/ JoinStatic \/ CloseTracker
  BY <1>2 DEF StartRun, BasicInfo, JoinPings, JoinStatic, CloseTracker, Goto, goVars
<1>3. CASE OnCancel \/ OnDataTick \/ OnHeartbeat \/ OnReadDone
  BY <1>3 DEF OnCancel, OnDataTick, OnHeartbeat, OnReadDone, Goto, goVars
<1>4. ASSUME NEW c \in Conns, DialOk(c) PROVE FallbackVars'
  BY <1>4 DEF DialOk, goVars
<1>5. CASE DialFails \/ BackoffCancelled \/ BackoffOver
  BY <1>5 DEF DialFails, BackoffCancelled, BackoffOver, Goto, goVars
<1>6. CASE EnterFallback \/ FbReportTick
  BY <1>6, <1>t DEF EnterFallback, FbReportTick, mainVars
<1>7. CASE FbReconnectTick \/ FbDialFails \/ FbCancelled \/ FbCancel
  BY <1>7 DEF FbReconnectTick, FbDialFails, FbCancelled, FbCancel, Goto, goVars
<1>8. CASE FbJoinPull \/ FbJoinReport
  BY <1>8 DEF FbJoinPull, FbJoinReport, Goto, goVars
<1>9. CASE OpenSession \/ Generate \/ LockForWrite \/ WriteEnds \/ HangUp
  <2>1. pc \notin FallbackPcs
    BY <1>9 DEF OpenSession, Generate, LockForWrite, WriteEnds, HangUp
  <2>2. UNCHANGED <<fbLive, worker>>
    BY <1>9 DEF OpenSession, Generate, LockForWrite, WriteEnds, HangUp, goVars
  <2> QED BY <2>1, <2>2
<1>10. CASE CancelSession \/ CloseConn \/ JoinReader
  BY <1>10 DEF CancelSession, CloseConn, JoinReader, goVars
<1>11. ASSUME NEW w \in Workers, NEW from, NEW to, from # "none", WorkerGoes(w, from, to)
       PROVE  FallbackVars'
  BY <1>11, <1>t DEF WorkerGoes, mainVars
<1>12. CASE PullHead \/ PullWaits \/ FbGenerate
  BY <1>11, <1>12, <1>t DEF PullHead, PullWaits, FbGenerate, WorkerMoves
<1>13. ASSUME NEW w \in Workers, WorkerStep(w) PROVE FallbackVars'
  BY <1>11, <1>13 DEF WorkerStep, PostOk, PostFails, AcceptEvent, StartFromEvent,
                      EventsDone, WorkerMoves
<1> QED
  BY <1>1, <1>2, <1>3, <1>4, <1>5, <1>6, <1>7, <1>8, <1>9, <1>10, <1>12, <1>13
     DEF Next, vars, goVars, mainVars, MainStep, Environment, Cancel, PeerDrops,
         PeerStalls, PeerResumes, ReaderStep, ReadEvent, HandleEvent, ReadFails,
         PingStep, ProbeEnds, PingPosted, PingLocks, PingWritten,
         StaticStep, StaticTick, StaticPosted, StaticStop, Terminated

\* The run ends only after a cancellation, and nothing restarts the tracker then.
LEMMA EndVarsStep ==
    TypeOK /\ SessionVars /\ FallbackVars /\ EndVars /\ [Next]_vars => EndVars'
<1> SUFFICES ASSUME TypeOK, SessionVars, FallbackVars, EndVars, [Next]_vars PROVE EndVars'
  OBVIOUS
<1> USE DEF EndVars, EndPcs, PingsWaited, RunReturned
<1>1. CASE UNCHANGED <<pc, leaving, conn, static, tracker>> /\ (cancelled => cancelled')
  BY <1>1
<1>2. CASE StartRun \/ BasicInfo \/ JoinPings \/ JoinStatic \/ CloseTracker
  BY <1>2 DEF StartRun, BasicInfo, JoinPings, JoinStatic, CloseTracker, Goto, goVars
<1>3. CASE OnCancel \/ OnDataTick \/ OnHeartbeat \/ OnReadDone
  BY <1>3 DEF OnCancel, OnDataTick, OnHeartbeat, OnReadDone, Goto, goVars
<1>4. ASSUME NEW c \in Conns, DialOk(c) PROVE EndVars'
  BY <1>4 DEF DialOk, goVars
<1>5. CASE DialFails \/ BackoffCancelled \/ BackoffOver \/ EnterFallback
  BY <1>5 DEF DialFails, BackoffCancelled, BackoffOver, EnterFallback, Goto, goVars
<1>6. CASE FbReconnectTick \/ FbDialFails \/ FbCancelled \/ FbCancel
  BY <1>6 DEF FbReconnectTick, FbDialFails, FbCancelled, FbCancel, Goto, goVars
<1>7. CASE FbJoinPull \/ FbJoinReport
  BY <1>7 DEF FbJoinPull, FbJoinReport, Goto, goVars
<1>8. CASE OpenSession \/ Generate \/ LockForWrite \/ WriteEnds \/ HangUp
  <2>1. ~leaving
    BY <1>8 DEF OpenSession, Generate, LockForWrite, WriteEnds, HangUp
  <2>2. pc' \in {"generate", "select", "lock", "write", "hbWrite", "hangup", "cancel"}
    BY <1>8 DEF OpenSession, Generate, LockForWrite, WriteEnds, HangUp
  <2>3. UNCHANGED leaving
    BY <1>8 DEF OpenSession, Generate, LockForWrite, WriteEnds, HangUp
  <2> QED BY <2>1, <2>2, <2>3
<1>9. CASE CancelSession \/ CloseConn \/ JoinReader
  BY <1>9 DEF CancelSession, CloseConn, JoinReader, goVars, SessionVars, SessionPcs, Writing
<1>10. CASE FbGenerate
  BY <1>10 DEF FbGenerate, WorkerGoes, mainVars, FallbackVars, FallbackPcs
<1>11. CASE StaticStep
  BY <1>11 DEF StaticStep, StaticTick, StaticPosted, StaticStop, mainVars
<1>12. CASE Cancel
  BY <1>12 DEF Cancel, mainVars, goVars
<1> QED
  BY <1>1, <1>2, <1>3, <1>4, <1>5, <1>6, <1>7, <1>8, <1>9, <1>10, <1>11, <1>12
     DEF Next, vars, goVars, mainVars, MainStep, FbReportTick, Environment, PeerDrops,
         PeerStalls, PeerResumes, ReaderStep, ReadEvent, HandleEvent, ReadFails,
         PingStep, ProbeEnds, PingPosted, PingLocks, PingWritten,
         PullHead, PullWaits, WorkerStep, PostOk, PostFails, AcceptEvent,
         StartFromEvent, EventsDone, WorkerMoves, WorkerGoes, Terminated

\* Every socket that is not closed stays the main loop's own.
LEMMA NoSocketLeakStep ==
    TypeOK /\ SessionVars /\ NoSocketLeak /\ [Next]_vars => NoSocketLeak'
<1> SUFFICES ASSUME TypeOK, SessionVars, NoSocketLeak, [Next]_vars PROVE NoSocketLeak'
  OBVIOUS
<1> USE DEF NoSocketLeak
<1>t. link \in [Conns -> {"unused", "open", "lost", "closed"}]
  BY DEF TypeOK, WireTypes
<1>1. CASE UNCHANGED <<link, conn>>
  BY <1>1
<1>2. ASSUME NEW c \in Conns, PeerDrops(c) PROVE NoSocketLeak'
  BY <1>2, <1>t DEF PeerDrops, mainVars
<1>3. ASSUME NEW c \in Conns, DialOk(c) PROVE NoSocketLeak'
  <2>1. conn = NoConn
    BY <1>3 DEF DialOk, SessionVars, DialPcs
  <2>2. \A d \in Conns : link[d] \notin {"open", "lost"}
    BY <2>1, IdsAssumption
  <2> QED BY <1>3, <1>t, <2>2 DEF DialOk
<1>4. CASE HangUp \/ CloseConn
  BY <1>4, <1>t DEF HangUp, CloseConn, CloseLink, MainTypes, TypeOK
<1> QED
  BY <1>1, <1>2, <1>3, <1>4
     DEF Next, vars, goVars, mainVars, wireVars, MainStep, Environment, Cancel, PeerStalls,
         PeerResumes, StartRun, BasicInfo, JoinPings, JoinStatic, CloseTracker,
         OnCancel, OnDataTick, OnHeartbeat, OnReadDone, DialFails, BackoffCancelled,
         BackoffOver, EnterFallback, FbReportTick, FbReconnectTick, FbDialFails,
         FbCancelled, FbCancel, FbJoinPull, FbJoinReport, OpenSession, Generate,
         LockForWrite, WriteEnds, CancelSession, JoinReader, Goto, ReaderStep, ReadEvent,
         HandleEvent, ReadFails, PingStep, ProbeEnds, PingPosted, PingLocks, PingWritten,
         PullHead, PullWaits, FbGenerate, WorkerStep, PostOk, PostFails, AcceptEvent,
         StartFromEvent, EventsDone, WorkerMoves, WorkerGoes, StaticStep, StaticTick,
         StaticPosted, StaticStop, Terminated

\* A step leaves the writing ping tasks as they are.
WritersKept ==
    \A p \in Pings : /\ ping'[p].at = "writing" <=> ping[p].at = "writing"
                     /\ ping[p].at = "writing" => ping'[p].via = ping[p].via

\* Cancelling a context touches neither where a task is nor its connection.
LEMMA CancelPingsKeeps ==
    ASSUME TypeOK, NEW c, CancelPings(c)
    PROVE  /\ WritersKept
           /\ \A p \in Pings : /\ ping'[p].at = ping[p].at /\ ping'[p].via = ping[p].via
                               /\ ping'[p].live => ping[p].live
                               /\ ping[p].via = c => ~ping'[p].live
<1>t. ping \in [Pings -> [at : {"idle", "probing", "send", "writing"},
                         via : Conns \cup {NoConn}, live : BOOLEAN]]
  BY DEF TypeOK, GoTypes
<1>1. ASSUME NEW p \in Pings
      PROVE  /\ ping'[p].at = ping[p].at /\ ping'[p].via = ping[p].via
             /\ ping'[p].live => ping[p].live
             /\ ping[p].via = c => ~ping'[p].live
  <2>1. CASE ping[p].via = c
    <3>1. ping'[p] = [ping[p] EXCEPT !.live = FALSE]
      BY <2>1 DEF CancelPings
    <3> QED BY <1>t, <3>1
  <2>2. CASE ping[p].via # c
    BY <2>2 DEF CancelPings
  <2> QED BY <2>1, <2>2
<1> QED BY <1>1 DEF WritersKept

\* Starting a task touches no task but an idle slot.
LEMMA MayStartPingKeeps ==
    ASSUME TypeOK, NEW c \in Conns \cup {NoConn}, NEW live \in BOOLEAN, MayStartPing(c, live)
    PROVE  /\ WritersKept
           /\ \A p \in Pings : \/ ping'[p] = ping[p]
                               \/ ping'[p] = [at |-> "probing", via |-> c, live |-> live]
  BY DEF MayStartPing, WritersKept, TypeOK, GoTypes

\* SafeConn.mu is held exactly by the goroutine that writes under it.
LEMMA LockVarsStep ==
    TypeOK /\ SessionVars /\ LockVars /\ [Next]_vars => LockVars'
<1> SUFFICES ASSUME TypeOK, SessionVars, LockVars, [Next]_vars PROVE LockVars'
  OBVIOUS
<1> DEFINE Quiet == {pc, pc'} \cap {"write", "hbWrite"} = {} \/ UNCHANGED <<pc, conn>>
<1>t. /\ ping \in [Pings -> [at : {"idle", "probing", "send", "writing"},
                             via : Conns \cup {NoConn}, live : BOOLEAN]]
      /\ mu \in [Conns -> Pings \cup {Main, Free}]
      /\ conn \in Conns \cup {NoConn}
  BY DEF TypeOK, GoTypes, WireTypes, MainTypes
<1>q. CASE UNCHANGED mu /\ WritersKept /\ Quiet
  <2>1. ASSUME NEW c \in Conns
        PROVE  (pc' \in {"write", "hbWrite"} /\ conn' = c) <=> (pc \in {"write", "hbWrite"} /\ conn = c)
    BY <1>q
  <2>2. ASSUME NEW c \in Conns, NEW p \in Pings
        PROVE  (ping'[p].at = "writing" /\ ping'[p].via = c) <=> (ping[p].at = "writing" /\ ping[p].via = c)
    BY <1>q DEF WritersKept
  <2> QED BY <1>q, <2>1, <2>2 DEF LockVars
<1>w. UNCHANGED ping => WritersKept
  BY DEF WritersKept
<1>1. CASE MainStep
  <2>1. CASE StartRun \/ BasicInfo \/ JoinPings \/ JoinStatic \/ CloseTracker
             \/ OnCancel \/ OnDataTick \/ OnHeartbeat \/ OnReadDone
    BY <1>q, <1>w, <2>1 DEF StartRun, BasicInfo, JoinPings, JoinStatic, CloseTracker, OnCancel,
         OnDataTick, OnHeartbeat, OnReadDone, Goto, wireVars, goVars
  <2>2. ASSUME NEW c \in Conns, DialOk(c) PROVE LockVars'
    BY <1>q, <1>w, <2>2 DEF DialOk, goVars
  <2>3. CASE DialFails \/ BackoffCancelled \/ BackoffOver \/ EnterFallback
    BY <1>q, <1>w, <2>3 DEF DialFails, BackoffCancelled, BackoffOver, EnterFallback, Goto,
         wireVars, goVars
  <2>4. CASE FbReportTick \/ FbReconnectTick \/ FbDialFails \/ FbCancelled \/ FbJoinPull
             \/ FbJoinReport
    BY <1>q, <1>w, <2>4 DEF FbReportTick, FbReconnectTick, FbDialFails, FbCancelled, FbJoinPull,
         FbJoinReport, Goto, wireVars, goVars, mainVars
  <2>5. CASE FbCancel
    BY <1>q, <2>5, CancelPingsKeeps DEF FbCancel, wireVars
  <2>6. CASE OpenSession \/ Generate \/ HangUp
    BY <1>q, <1>w, <2>6 DEF OpenSession, Generate, HangUp, wireVars, goVars
  <2>7. CASE LockForWrite
    <3>1. conn \in Conns
      BY <1>t, <2>7 DEF LockForWrite, SessionVars, Writing
    <3> QED BY <1>t, <2>7, <3>1 DEF LockForWrite, LockVars, goVars
  <2>8. CASE WriteEnds
    <3>1. conn \in Conns
      BY <1>t, <2>8 DEF WriteEnds, SessionVars, Writing
    <3>2. mu[conn] = Main /\ pc' \notin {"write", "hbWrite"} /\ UNCHANGED <<conn, ping>>
      BY <2>8, <3>1 DEF WriteEnds, LockVars, goVars
    <3> QED BY <1>t, <2>8, <3>1, <3>2 DEF WriteEnds, LockVars
  <2>9. CASE CancelSession
    BY <1>q, <1>w, <2>9, CancelPingsKeeps DEF CancelSession, wireVars
  <2>10. CASE CloseConn \/ JoinReader
    BY <1>q, <1>w, <2>10 DEF CloseConn, JoinReader, wireVars, goVars
  <2> QED BY <1>1, <2>1, <2>2, <2>3, <2>4, <2>5, <2>6, <2>7, <2>8, <2>9, <2>10 DEF MainStep
<1>2. ASSUME NEW c \in Conns, ReaderStep(c) PROVE LockVars'
  <2>1. CASE HandleEvent(c)
    <3>1. session \in BOOLEAN
      BY DEF TypeOK, MainTypes
    <3> QED BY <1>q, <2>1, <3>1, MayStartPingKeeps DEF HandleEvent, mainVars, wireVars
  <2>2. CASE ReadEvent(c) \/ ReadFails(c)
    BY <1>q, <1>w, <2>2 DEF ReadEvent, ReadFails, mainVars, wireVars
  <2> QED BY <1>2, <2>1, <2>2 DEF ReaderStep
<1>3. ASSUME NEW p \in Pings, PingStep(p) PROVE LockVars'
  <2>1. CASE ProbeEnds(p) \/ PingPosted(p)
    BY <1>t, <1>q, <1>3, <2>1 DEF ProbeEnds, PingPosted, NoPing, WritersKept, mainVars, wireVars
  <2>2. CASE PingLocks(p)
    <3>1. ping[p].via \in Conns /\ mu' = [mu EXCEPT ![ping[p].via] = p] /\ mu[ping[p].via] = Free
      BY <1>t, <2>2 DEF PingLocks
    <3>2. \A r \in Pings : ping'[r].via = ping[r].via
                           /\ ping'[r].at = IF r = p THEN "writing" ELSE ping[r].at
      BY <1>t, <2>2 DEF PingLocks
    <3> QED BY <1>t, <1>3, <2>2, <3>1, <3>2 DEF PingLocks, mainVars, LockVars
  <2>3. CASE PingWritten(p)
    <3>1. \A r \in Pings \ {p} : ping'[r] = ping[r]
      BY <1>t, <2>3 DEF PingWritten
    <3>2. ping'[p].at # "writing"
      BY <1>t, <1>3, <2>3 DEF PingWritten, NoPing
    <3>3. ping[p].at = "writing" /\ mu' = [mu EXCEPT ![ping[p].via] = Free]
          /\ UNCHANGED <<pc, conn>>
      BY <2>3 DEF PingWritten, mainVars
    <3> QED BY <1>t, <1>3, <3>1, <3>2, <3>3 DEF LockVars
  <2> QED BY <1>3, <2>1, <2>2, <2>3 DEF PingStep
<1>4. ASSUME NEW w \in Workers, WorkerStep(w) PROVE LockVars'
  <2>1. CASE StartFromEvent(w)
    <3>1. fbLive \in BOOLEAN
      BY DEF TypeOK, GoTypes
    <3> QED BY <1>q, <2>1, <3>1, MayStartPingKeeps
            DEF StartFromEvent, WorkerGoes, mainVars, wireVars
  <2>2. CASE PostOk(w) \/ PostFails(w) \/ AcceptEvent(w) \/ EventsDone(w)
    BY <1>q, <1>w, <2>2 DEF PostOk, PostFails, AcceptEvent, EventsDone, WorkerMoves, WorkerGoes,
         mainVars, wireVars
  <2> QED BY <1>4, <2>1, <2>2 DEF WorkerStep
<1>5. CASE PullHead \/ PullWaits \/ FbGenerate \/ StaticStep
  BY <1>q, <1>w, <1>5 DEF PullHead, PullWaits, FbGenerate, WorkerMoves, WorkerGoes, StaticStep,
       StaticTick, StaticPosted, StaticStop, mainVars, wireVars
<1>6. CASE Environment \/ Terminated \/ UNCHANGED vars
  BY <1>q, <1>w, <1>6 DEF Environment, Cancel, PeerDrops, PeerStalls, PeerResumes, Terminated,
       vars, mainVars, wireVars, goVars
<1> QED BY <1>1, <1>2, <1>3, <1>4, <1>5, <1>6 DEF Next

\* Every ping task lives under the context of its connection, and ends before
\* Run's pingTasks.Wait returns.
LEMMA PingVarsStep ==
    TypeOK /\ SessionVars /\ FallbackVars /\ PingVars /\ [Next]_vars => PingVars'
<1> SUFFICES ASSUME TypeOK, SessionVars, FallbackVars, PingVars, [Next]_vars PROVE PingVars'
  OBVIOUS
<1> USE DEF PingVars, PingOwnerAlive, PingsJoined, PingsWaited
<1>t. /\ ping \in [Pings -> [at : {"idle", "probing", "send", "writing"},
                             via : Conns \cup {NoConn}, live : BOOLEAN]]
      /\ conn \in Conns \cup {NoConn} /\ session \in BOOLEAN /\ fbLive \in BOOLEAN
  BY DEF TypeOK, GoTypes, MainTypes
<1>q. CASE UNCHANGED <<ping, fbLive, session, readDone>>
           /\ (pc' \in PingsWaited => pc \in PingsWaited)
  BY <1>q
\* A task that one step starts, under a live context or already cancelled.
<1>s. ASSUME NEW c \in Conns \cup {NoConn}, NEW live \in BOOLEAN, MayStartPing(c, live),
             live => IF c = NoConn THEN fbLive ELSE session /\ readDone = c,
             UNCHANGED <<fbLive, mainVars>>, pc \notin PingsWaited
      PROVE  PingVars'
  <2>1. \A p \in Pings : \/ ping'[p] = ping[p]
                         \/ ping'[p] = [at |-> "probing", via |-> c, live |-> live]
    BY <1>s, MayStartPingKeeps
  <2> QED BY <1>s, <2>1 DEF mainVars
\* A task that one step moves on under the same context, or ends.
<1>m. ASSUME NEW p \in Pings, \A r \in Pings \ {p} : ping'[r] = ping[r],
             \/ ping'[p] = NoPing
             \/ /\ ping[p].at # "idle" /\ ping'[p].at \in {"send", "writing"}
                /\ ping'[p].at = "writing" => ping[p].via # NoConn
                /\ ping'[p].via = ping[p].via /\ ping'[p].live = ping[p].live,
             UNCHANGED <<fbLive, mainVars>>
      PROVE  PingVars'
  <2>1. CASE ping'[p] = NoPing
    <3>1. ping'[p].at = "idle" /\ ~ping'[p].live
      BY <2>1 DEF NoPing
    <3>2. UNCHANGED <<pc, session, readDone, fbLive>>
      BY <1>m DEF mainVars
    <3>3. \A r \in Pings : ping'[r] = ping[r] \/ (r = p /\ ping'[r] = NoPing)
      BY <1>m, <2>1
    <3>4. \A r \in Pings : ping'[r].at = "writing" => ping'[r].via # NoConn
      BY <3>1, <3>3
    <3>5. PingOwnerAlive'
      BY <3>1, <3>2, <3>3
    <3>6. PingsJoined'
      BY <3>1, <3>2, <3>3
    <3> QED BY <3>4, <3>5, <3>6
  <2>2. CASE ping'[p] # NoPing
    BY <1>m, <2>2 DEF mainVars
  <2> QED BY <2>1, <2>2
<1>1. CASE MainStep
  <2>1. CASE StartRun \/ BasicInfo \/ JoinStatic \/ CloseTracker
             \/ OnCancel \/ OnDataTick \/ OnHeartbeat \/ OnReadDone
    BY <1>q, <2>1 DEF StartRun, BasicInfo, JoinStatic, CloseTracker, OnCancel,
         OnDataTick, OnHeartbeat, OnReadDone, Goto, goVars
  <2>2. CASE JoinPings
    BY <2>2 DEF JoinPings, Goto, goVars
  <2>3. ASSUME NEW c \in Conns, DialOk(c) PROVE PingVars'
    BY <1>q, <2>3 DEF DialOk, goVars
  <2>4. CASE DialFails \/ BackoffCancelled \/ BackoffOver
    BY <1>q, <2>4 DEF DialFails, BackoffCancelled, BackoffOver, Goto, goVars
  <2>5. CASE EnterFallback
    BY <2>5 DEF EnterFallback
  <2>6. CASE FbReportTick \/ FbReconnectTick \/ FbDialFails \/ FbCancelled \/ FbJoinPull
             \/ FbJoinReport
    BY <1>q, <2>6 DEF FbReportTick, FbReconnectTick, FbDialFails, FbCancelled, FbJoinPull,
         FbJoinReport, Goto, goVars, mainVars
  <2>7. CASE FbCancel
    <3>1. \A p \in Pings : /\ ping'[p].at = ping[p].at /\ ping'[p].via = ping[p].via
                           /\ ping'[p].live => ping[p].live
                           /\ ping[p].via = NoConn => ~ping'[p].live
      BY <2>7, CancelPingsKeeps DEF FbCancel
    <3> QED BY <2>7, <3>1 DEF FbCancel
  <2>8. CASE OpenSession
    <3>1. ~session
      BY <2>8 DEF OpenSession, SessionVars, Writing
    <3> QED BY <2>8, <3>1 DEF OpenSession
  <2>9. CASE Generate \/ LockForWrite \/ WriteEnds \/ HangUp \/ CloseConn
    BY <1>q, <2>9 DEF Generate, LockForWrite, WriteEnds, HangUp, CloseConn, goVars
  <2>10. CASE CancelSession
    <3>1. CASE session
      <4>1. readDone = conn
        BY <2>10 DEF CancelSession, SessionVars
      <4>2. \A p \in Pings : /\ ping'[p].at = ping[p].at /\ ping'[p].via = ping[p].via
                             /\ ping'[p].live => ping[p].live
                             /\ ping[p].via = conn => ~ping'[p].live
        BY <2>10, <3>1, CancelPingsKeeps DEF CancelSession
      <4> QED BY <2>10, <4>1, <4>2 DEF CancelSession
    <3>2. CASE ~session
      BY <2>10, <3>2 DEF CancelSession
    <3> QED BY <3>1, <3>2
  <2>11. CASE JoinReader
    <3>1. ~session
      BY <2>11 DEF JoinReader, SessionVars, Writing
    <3> QED BY <2>11, <3>1 DEF JoinReader
  <2> QED BY <1>1, <2>1, <2>2, <2>3, <2>4, <2>5, <2>6, <2>7, <2>8, <2>9, <2>10, <2>11
          DEF MainStep
<1>2. ASSUME NEW c \in Conns, ReaderStep(c) PROVE PingVars'
  <2>1. CASE HandleEvent(c)
    <3>1. readDone = c /\ c # NoConn
      BY <2>1 DEF HandleEvent, SessionVars
    <3>2. pc \notin PingsWaited
      BY <3>1 DEF SessionVars, SessionPcs, Writing
    <3> QED BY <1>s, <1>t, <2>1, <3>1, <3>2 DEF HandleEvent
  <2>2. CASE ReadEvent(c) \/ ReadFails(c)
    BY <1>q, <2>2 DEF ReadEvent, ReadFails, mainVars
  <2> QED BY <1>2, <2>1, <2>2 DEF ReaderStep
<1>3. ASSUME NEW p \in Pings, PingStep(p) PROVE PingVars'
  <2>1. CASE ProbeEnds(p)
    BY <1>m, <1>t, <1>3, <2>1 DEF ProbeEnds
  <2>2. CASE PingPosted(p)
    BY <1>m, <1>t, <1>3, <2>2 DEF PingPosted
  <2>3. CASE PingLocks(p)
    BY <1>m, <1>t, <1>3, <2>3 DEF PingLocks
  <2>4. CASE PingWritten(p)
    BY <1>m, <1>t, <1>3, <2>4 DEF PingWritten
  <2> QED BY <1>3, <2>1, <2>2, <2>3, <2>4 DEF PingStep
<1>4. ASSUME NEW w \in Workers, WorkerStep(w) PROVE PingVars'
  <2>1. CASE StartFromEvent(w)
    <3>1. pc \in FallbackPcs
      BY <2>1 DEF StartFromEvent, WorkerGoes, FallbackVars, Workers
    <3>2. pc \notin PingsWaited
      BY <3>1 DEF FallbackPcs
    <3> QED BY <1>s, <1>t, <2>1, <3>2 DEF StartFromEvent, WorkerGoes
  <2>2. CASE PostOk(w) \/ PostFails(w) \/ AcceptEvent(w) \/ EventsDone(w)
    BY <1>q, <2>2 DEF PostOk, PostFails, AcceptEvent, EventsDone, WorkerMoves, WorkerGoes,
         mainVars
  <2> QED BY <1>4, <2>1, <2>2 DEF WorkerStep
<1>5. CASE PullHead \/ PullWaits \/ FbGenerate \/ StaticStep
  BY <1>q, <1>5 DEF PullHead, PullWaits, FbGenerate, WorkerMoves, WorkerGoes, StaticStep,
       StaticTick, StaticPosted, StaticStop, mainVars
<1>6. CASE Environment \/ Terminated \/ UNCHANGED vars
  BY <1>q, <1>6 DEF Environment, Cancel, PeerDrops, PeerStalls, PeerResumes, Terminated,
       vars, mainVars, goVars
<1> QED BY <1>1, <1>2, <1>3, <1>4, <1>5, <1>6 DEF Next

-----------------------------------------------------------------------------

LEMMA SessionInit == Init => SessionInv
<1> SUFFICES ASSUME Init PROVE SessionInv
  OBVIOUS
<1>1. TypeOK
  BY TypeInit
<1>2. SessionVars /\ FallbackVars /\ EndVars
  BY DEF Init, SessionVars, FallbackVars, EndVars, DialPcs, SessionPcs, Writing, EndPcs,
         FallbackPcs, PingsWaited, RunReturned, Workers
<1>3. LockVars /\ PingVars /\ NoSocketLeak
  BY DEF Init, LockVars, PingVars, PingOwnerAlive, PingsJoined, PingsWaited, NoPing, NoSocketLeak
<1> QED BY <1>1, <1>2, <1>3 DEF SessionInv

LEMMA SessionStep == SessionInv /\ [Next]_vars => SessionInv'
  BY TypeStep, SessionVarsStep, FallbackVarsStep, EndVarsStep, LockVarsStep, PingVarsStep,
     NoSocketLeakStep DEF SessionInv

\* The strengthening of every safety property below is an invariant.
THEOREM Session == Spec => []SessionInv
  BY SessionInit, SessionStep, PTL DEF Spec

\* A reader goroutine never outlives its session (handleWebSocketMessages,
\* closeSession): at most one exists, for the session the main loop will join.
THEOREM ReaderIsJoined == Spec => []ReaderJoined
<1>1. SessionInv => ReaderJoined
  BY DEF SessionInv, SessionVars, ReaderJoined, SessionPcs, Writing
<1> QED BY <1>1, Session, PTL

\* The fallback's goroutines end before the WebSocket session starts.
THEOREM FallbackIsJoined == Spec => []FallbackJoined
<1>1. SessionInv => FallbackJoined
  <2> SUFFICES ASSUME SessionInv, NEW w \in Workers, worker[w] # "none"
               PROVE  pc \in FallbackPcs /\ \A c \in Conns : reader[c] = "none"
    BY DEF FallbackJoined, FallbackPcs
  <2>1. pc \in FallbackPcs
    BY DEF SessionInv, FallbackVars, Workers
  <2>2. readDone = NoConn
    BY <2>1 DEF SessionInv, SessionVars, SessionPcs, Writing, FallbackPcs
  <2> QED BY <2>1, <2>2 DEF SessionInv, SessionVars
<1> QED BY <1>1, Session, PTL

\* No path through retries, fallback, failed writes or shutdown forgets a socket.
THEOREM SocketsAreClosed == Spec => []NoSocketLeak
  BY Session, PTL DEF SessionInv

\* Two goroutines never write to one connection at the same time.
THEOREM WritesExclude == Spec => []OneWriter
<1>1. SessionInv => OneWriter
  BY DEF SessionInv, LockVars, OneWriter, Writers
<1> QED BY <1>1, Session, PTL

\* A ping task with a live context belongs to the live session or fallback.
THEOREM PingsAreOwned == Spec => []PingOwnerAlive
  BY Session, PTL DEF SessionInv, PingVars

\* No ping task starts after, or survives, the wait for all of them.
THEOREM PingsAreJoined == Spec => []PingsJoined
  BY Session, PTL DEF SessionInv, PingVars

\* agentRuntime.Run leaves no goroutine, mutex, socket or context behind.
THEOREM RunLeavesNothing == Spec => []NothingOutlivesRun
<1>1. SessionInv => NothingOutlivesRun
  <2> SUFFICES ASSUME SessionInv, pc \in RunReturned
               PROVE  /\ \A c \in Conns : reader[c] = "none" /\ mu[c] = Free
                                          /\ link[c] \notin {"open", "lost"}
                      /\ \A p \in Pings : ping[p].at = "idle"
                      /\ \A w \in Workers : worker[w] = "none"
                      /\ static = "done" /\ ~session /\ ~fbLive
    BY DEF NothingOutlivesRun
  <2>1. conn = NoConn /\ readDone = NoConn /\ ~session
    BY DEF SessionInv, SessionVars, SessionPcs, Writing, EndPcs, PingsWaited, RunReturned
  <2>2. \A p \in Pings : ping[p].at = "idle"
    BY DEF SessionInv, PingVars, PingsJoined, PingsWaited, RunReturned
  <2>3. \A c \in Conns : mu[c] = Free
    BY <2>1, <2>2 DEF SessionInv, LockVars, TypeOK, WireTypes, RunReturned
  <2>4. \A c \in Conns : reader[c] = "none" /\ link[c] \notin {"open", "lost"}
    BY <2>1 DEF SessionInv, SessionVars, NoSocketLeak
  <2>5. ~fbLive /\ \A w \in Workers : worker[w] = "none"
    BY DEF SessionInv, FallbackVars, FallbackPcs, Workers, RunReturned
  <2>6. static = "done"
    BY DEF SessionInv, EndVars
  <2> QED BY <2>1, <2>2, <2>3, <2>4, <2>5, <2>6
<1> QED BY <1>1, Session, PTL

\* No late report restarts the tracker that Collector.Close stopped.
THEOREM TrackerIsClosed == Spec => []TrackerStaysClosed
  BY Session, PTL DEF SessionInv, EndVars, TrackerStaysClosed

\* Run ends for no other reason than the cancellation of its context.
THEOREM EndsOnlyCancelled == Spec => []RunsUntilCancelled
<1>1. SessionInv => RunsUntilCancelled
  BY DEF SessionInv, EndVars, EndPcs, RunsUntilCancelled
<1> QED BY <1>1, Session, PTL
=============================================================================
