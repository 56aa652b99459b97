----------------------------- MODULE EventDelivery -----------------------------
(***************************************************************************)
(* How the POST fallback receives events: two goroutines, the pull loop and *)
(* the report, each run rounds of snapshot, POST, clear and process, on the *)
(* shared list of acknowledgements and the shared table of seen events.     *)
(* The server keeps an event until a request acknowledges it.               *)
(*                                                                         *)
(* Time is the age of a round and of an entry of the table, in a unit of   *)
(* the reader's choice; ages stop growing when they no longer matter.      *)
(***************************************************************************)
EXTENDS Naturals, FiniteSets

CONSTANTS
    Events,     \* identifiers of the events the server publishes
    Rejected,   \* those processV2Event returns false for, whatever the state
    TTL,        \* v2SeenEventTTL
    RoundTime,  \* the longest a round lasts: building a report, the 35 s of a
                \* POST, processing the answer
    SeenLimit   \* v2SeenEventLimit

ASSUME RejectedAssumption == Rejected \subseteq Events
ASSUME EventsAssumption == IsFiniteSet(Events)
\* 10 minutes against a round of some 40 seconds. One round may pass between
\* markV2EventSeen and addV2AckEventID and another before the answer to a request
\* without that acknowledgement is processed.
ASSUME TimeAssumption == TTL \in Nat /\ RoundTime \in Nat /\ 2 * RoundTime <= TTL
ASSUME LimitAssumption == SeenLimit \in Nat \ {0}

VARIABLES
    pending,    \* the server holds the event and no request acknowledged it
    retired,    \* the server dropped the event
    stray,      \* what the requests acknowledge that the agent gave up on and
                \* the server may still receive
    fb,         \* fallbackCtx is alive
    acks,       \* v2AckEventIDs
    seen,       \* the keys of v2SeenEvents
    seenAge,    \* now.Sub(v2SeenEvents[e]), at most TTL + 1
    at,         \* per goroutine: the step of its round
    sent,       \* ... the acknowledgements its request carries (ackIDs)
    todo,       \* ... the events of the answer it has not processed yet
    cur,        \* ... the event between markV2EventSeen and addV2AckEventID
    age,        \* ... the age of its round
    started,    \* how often this life of the agent carried out an event, up to 2
    ever,       \* the events some life has carried out
    forgotten   \* the events whose entry was evicted before it expired

server == <<pending, retired, stray>>
table == <<seen, seenAge, started, ever, forgotten>>
round == <<at, sent, todo, cur, age>>
vars == <<server, fb, acks, table, round>>

Workers == {"pull", "report"}
MaxAge == TTL + 1

ServerTypes ==
    /\ pending \subseteq Events /\ retired \subseteq Events
    /\ stray \subseteq SUBSET Events

TableTypes ==
    /\ fb \in BOOLEAN
    /\ acks \subseteq Events /\ seen \subseteq Events
    /\ seenAge \in [Events -> 0..MaxAge]
    /\ started \in [Events -> 0..2]
    /\ ever \subseteq Events /\ forgotten \subseteq Events

RoundTypes ==
    /\ at \in [Workers -> {"idle", "posted", "answered", "handling", "marked"}]
    /\ sent \in [Workers -> SUBSET Events]
    /\ todo \in [Workers -> SUBSET Events]
    /\ cur \in [Workers -> SUBSET Events]
    /\ age \in [Workers -> 0..RoundTime]

TypeOK == ServerTypes /\ TableTypes /\ RoundTypes

Init ==
    /\ pending = {} /\ retired = {} /\ stray = {}
    /\ fb = FALSE
    /\ acks = {} /\ seen = {} /\ seenAge = [e \in Events |-> 0]
    /\ at = [w \in Workers |-> "idle"]
    /\ sent = [w \in Workers |-> {}]
    /\ todo = [w \in Workers |-> {}]
    /\ cur = [w \in Workers |-> {}]
    /\ age = [w \in Workers |-> 0]
    /\ started = [e \in Events |-> 0]
    /\ ever = {} /\ forgotten = {}

-----------------------------------------------------------------------------
(* The server. *)

Publish(e) ==
    /\ e \notin pending \cup retired
    /\ pending' = pending \cup {e}
    /\ UNCHANGED <<retired, stray, fb, acks, table, round>>

\* The server drops what the request acknowledges before it answers.
Retire(S) == pending' = pending \ S /\ retired' = retired \cup (pending \cap S)

\* ... and answers with some of the events it still holds.
ServerAnswers(w, S) ==
    /\ at[w] = "posted"
    /\ Retire(sent[w])
    /\ S \subseteq pending \ sent[w]
    /\ at' = [at EXCEPT ![w] = "answered"]
    /\ todo' = [todo EXCEPT ![w] = S]
    /\ UNCHANGED <<stray, fb, acks, table, sent, cur, age>>

\* A request the agent gave up on is received late; its answer is lost.
StrayArrives(S) ==
    /\ S \in stray /\ stray' = stray \ {S}
    /\ Retire(S)
    /\ UNCHANGED <<fb, acks, table, round>>

-----------------------------------------------------------------------------
(* The fallback as a whole, the process, and time. *)

\* runPostFallback is entered again only after the joins of the last one.
EnterFallback ==
    /\ ~fb /\ fb' = TRUE
    /\ \A w \in Workers : at[w] = "idle"
    /\ UNCHANGED <<server, acks, table, round>>

LeaveFallback == fb /\ fb' = FALSE /\ UNCHANGED <<server, acks, table, round>>

\* Requests on their way when the process ends may still arrive.
Unanswered(W) == {sent[w] : w \in {x \in W : at[x] = "posted"}}

\* The process ends, by a crash or an update, and is started again: nothing of
\* its memory is kept.
Restart ==
    /\ stray' = stray \cup Unanswered(Workers)
    /\ fb' = FALSE
    /\ acks' = {} /\ seen' = {} /\ seenAge' = [e \in Events |-> 0]
    /\ at' = [w \in Workers |-> "idle"]
    /\ sent' = [w \in Workers |-> {}]
    /\ todo' = [w \in Workers |-> {}]
    /\ cur' = [w \in Workers |-> {}]
    /\ age' = [w \in Workers |-> 0]
    /\ started' = [e \in Events |-> 0]
    /\ forgotten' = {}
    /\ UNCHANGED <<pending, retired, ever>>

\* A mutant: requests without a timeout.
TickWithoutTimeout ==
    /\ age' = [w \in Workers |-> IF at[w] = "idle" THEN 0 ELSE age[w] + 1]
    /\ seenAge' = [e \in Events |->
                     IF e \in seen /\ seenAge[e] < MaxAge THEN seenAge[e] + 1 ELSE seenAge[e]]
    /\ UNCHANGED <<server, fb, acks, seen, started, ever, forgotten, at, sent, todo, cur>>

\* No round outlives RoundTime.
Tick ==
    /\ \A w \in Workers : at[w] # "idle" => age[w] < RoundTime
    /\ age' = [w \in Workers |-> IF at[w] = "idle" THEN 0 ELSE age[w] + 1]
    /\ seenAge' = [e \in Events |->
                     IF e \in seen /\ seenAge[e] < MaxAge THEN seenAge[e] + 1 ELSE seenAge[e]]
    /\ UNCHANGED <<server, fb, acks, seen, started, ever, forgotten, at, sent, todo, cur>>

-----------------------------------------------------------------------------
(* A round. *)

\* A mutant: the request carries no acknowledgements.
SnapshotEmpty(w) ==
    /\ fb /\ at[w] = "idle"
    /\ at' = [at EXCEPT ![w] = "posted"]
    /\ age' = [age EXCEPT ![w] = 0]
    /\ UNCHANGED <<server, fb, acks, table, sent, todo, cur>>

\* snapshotV2AckEventIDs; the request leaves at any later moment. The pull loop
\* checks its context, the report is started by a ticker of the fallback.
Snapshot(w) ==
    /\ fb /\ at[w] = "idle"
    /\ at' = [at EXCEPT ![w] = "posted"]
    /\ sent' = [sent EXCEPT ![w] = acks]
    /\ age' = [age EXCEPT ![w] = 0]
    /\ UNCHANGED <<server, fb, acks, table, todo, cur>>

\* The goroutine is through with its round.
EndRound(w) ==
    /\ at' = [at EXCEPT ![w] = "idle"]
    /\ sent' = [sent EXCEPT ![w] = {}]
    /\ todo' = [todo EXCEPT ![w] = {}]
    /\ age' = [age EXCEPT ![w] = 0]
    /\ UNCHANGED cur

\* An error, a timeout or a cancellation: the request may have been received,
\* may still be received, or is lost. The acknowledgements are kept.
PostFails(w) ==
    /\ at[w] \in {"posted", "answered"}
    /\ EndRound(w)
    /\ stray' \in {stray, stray \cup Unanswered({w})}
    /\ UNCHANGED <<pending, retired, fb, acks, table>>

\* A mutant: the list is emptied, whatever the request carried.
ClearAll(w) ==
    /\ at[w] = "answered"
    /\ at' = [at EXCEPT ![w] = "handling"]
    /\ acks' = {}
    /\ UNCHANGED <<server, fb, table, sent, todo, cur, age>>

\* The answer has arrived: clearV2AckEventIDs.
Clear(w) ==
    /\ at[w] = "answered"
    /\ at' = [at EXCEPT ![w] = "handling"]
    /\ acks' = acks \ sent[w]
    /\ UNCHANGED <<server, fb, table, sent, todo, cur, age>>

\* A mutant: an event that is refused is acknowledged all the same.
RejectAcknowledged(w) ==
    /\ at[w] = "handling"
    /\ \E e \in todo[w] :
         /\ e \in Rejected \/ ~fb
         /\ todo' = [todo EXCEPT ![w] = @ \ {e}]
         /\ acks' = acks \cup {e}
    /\ UNCHANGED <<server, fb, table, at, sent, cur, age>>

\* A cancelled context, an unknown method or bad parameters: not acknowledged.
Reject(w) ==
    /\ at[w] = "handling"
    /\ \E e \in todo[w] :
         /\ e \in Rejected \/ ~fb
         /\ todo' = [todo EXCEPT ![w] = @ \ {e}]
    /\ UNCHANGED <<server, fb, acks, table, at, sent, cur, age>>

\* A mutant: entries expire one unit of time early.
UnexpiredEarly == {e \in seen : seenAge[e] < TTL}

\* The entries of the table that have not expired.
Unexpired == {e \in seen : seenAge[e] <= TTL}

\* The entry a full table loses.
Oldest(S) == {e \in S : \A f \in S : seenAge[f] <= seenAge[e]}

\* A mutant: the table evicts only when it is over its limit.
MarkSeenLate(e) ==
    /\ \E gone \in SUBSET Unexpired :
         /\ IF Cardinality(Unexpired) > SeenLimit
              THEN \E o \in Oldest(Unexpired) : gone = {o}
              ELSE gone = {}
         /\ seen' = (Unexpired \ gone) \cup {e}
         /\ forgotten' = forgotten \cup gone
    /\ seenAge' = [seenAge EXCEPT ![e] = 0]

\* markV2EventSeen of an event that is not in the table.
MarkSeen(e) ==
    /\ \E gone \in SUBSET Unexpired :
         /\ IF Cardinality(Unexpired) >= SeenLimit
              THEN \E o \in Oldest(Unexpired) : gone = {o}
              ELSE gone = {}
         /\ seen' = (Unexpired \ gone) \cup {e}
         /\ forgotten' = forgotten \cup gone
    /\ seenAge' = [seenAge EXCEPT ![e] = 0]

\* An event processV2Event accepts: carried out when it is new, acknowledged in
\* either case. startPingTask follows markV2EventSeen at once.
Mark(w, e) ==
    /\ at[w] = "handling" /\ e \in todo[w] /\ fb /\ e \notin Rejected
    /\ IF e \in Unexpired
         THEN /\ seen' = Unexpired
              /\ UNCHANGED <<seenAge, started, ever, forgotten>>
         ELSE /\ MarkSeen(e)
              /\ started' = [started EXCEPT ![e] = IF @ = 2 THEN 2 ELSE @ + 1]
              /\ ever' = ever \cup {e}
    /\ at' = [at EXCEPT ![w] = "marked"]
    /\ todo' = [todo EXCEPT ![w] = @ \ {e}]
    /\ cur' = [cur EXCEPT ![w] = {e}]
    /\ UNCHANGED <<server, fb, acks, sent, age>>

\* addV2AckEventID.
AddAck(w) ==
    /\ at[w] = "marked"
    /\ at' = [at EXCEPT ![w] = "handling"]
    /\ acks' = acks \cup cur[w]
    /\ cur' = [cur EXCEPT ![w] = {}]
    /\ UNCHANGED <<server, fb, table, sent, todo, age>>

RoundEnds(w) ==
    /\ at[w] = "handling" /\ todo[w] = {}
    /\ EndRound(w)
    /\ UNCHANGED <<server, fb, acks, table>>

-----------------------------------------------------------------------------

Answers(w) == \E S \in SUBSET pending : ServerAnswers(w, S)
Marks(w) == \E e \in todo[w] : Mark(w, e)

Next ==
    \/ \E e \in Events : Publish(e)
    \/ \E S \in stray : StrayArrives(S)
    \/ EnterFallback \/ LeaveFallback \/ Restart \/ Tick
    \/ \E w \in Workers :
         \/ Snapshot(w) \/ Answers(w) \/ PostFails(w) \/ Clear(w)
         \/ Reject(w) \/ Marks(w) \/ AddAck(w) \/ RoundEnds(w)

Spec == Init /\ [][Next]_vars

-----------------------------------------------------------------------------
(* Properties. *)

\* An acknowledgement is not lost: while the server still holds an event this
\* life of the agent has carried out, its identifier is in v2AckEventIDs or a
\* goroutine is about to add it. Failed, late and concurrent rounds clear only
\* what the server has received.
AckKept ==
    \A e \in Events : e \in pending /\ started[e] > 0 =>
        e \in acks \/ \E w \in Workers : e \in cur[w]

\* The server drops an event only after the agent has carried it out, in this
\* life or an earlier one; a rejected event is never acknowledged.
RetiredWereCarriedOut ==
    retired \subseteq ever /\ acks \subseteq ever /\ ever \cap Rejected = {}

\* No event is carried out twice in one life of the agent, except one whose
\* entry a full table has evicted early (markV2EventSeen): rounds overlap, an
\* answer is late or its request is repeated, entries expire, and still the
\* table remembers the event as long as any answer can hold it.
AtMostOnce == \A e \in Events \ forgotten : started[e] <= 1

\* The table never holds more than v2SeenEventLimit entries.
SeenBounded == Cardinality(seen) <= SeenLimit

\* The promise of TaskQueue, kept when the table never has to evict.
Promise == INSTANCE TaskQueue WITH
    queued <- pending, dropped <- retired, done <- started
KeepsPromise == Promise!Spec

-----------------------------------------------------------------------------
(* The inductive invariant behind AckKept and AtMostOnce. *)

\* The steps of a round and what they leave in its variables.
RoundShape ==
    \A w \in Workers :
        /\ at[w] \in {"idle", "posted"} => todo[w] = {}
        /\ at[w] # "marked" => cur[w] = {}
        /\ at[w] = "idle" => sent[w] = {}
        /\ at[w] \in {"answered", "handling", "marked"} => sent[w] \subseteq retired

\* Only published events are offered, only events carried out are acknowledged.
Causality ==
    /\ pending \cap retired = {}
    /\ ever \subseteq pending \cup retired
    /\ ever \cap Rejected = {}
    /\ retired \subseteq ever /\ acks \subseteq ever /\ seen \subseteq ever
    /\ \A S \in stray : S \subseteq ever
    /\ \A e \in Events : started[e] > 0 => e \in ever
    /\ \A w \in Workers :
         /\ sent[w] \subseteq ever /\ cur[w] \subseteq ever
         /\ todo[w] \subseteq pending \cup retired

\* The table holds e, and not for longer than n.
SeenWithin(e, n) == e \in seen /\ seenAge[e] <= n

\* The table remembers an event for as long as an answer may still offer it: the
\* goroutine that marked it has not added the acknowledgement yet and marked it in
\* this round; or a request without the acknowledgement is under way, or answered,
\* and the mark is at most one round older than that request.
Remembered ==
    \A e \in Events : started[e] > 0 /\ e \notin forgotten =>
        /\ e \in pending /\ e \notin acks =>
             \E w \in Workers : e \in cur[w] /\ SeenWithin(e, age[w])
        /\ \A w \in Workers :
             (at[w] = "posted" /\ e \in pending \ sent[w]) \/ e \in todo[w] =>
                SeenWithin(e, age[w] + RoundTime)

DeliveryInv == TypeOK /\ RoundShape /\ Causality /\ AckKept /\ AtMostOnce /\ Remembered

-----------------------------------------------------------------------------
(* Fairness and liveness. *)

\* The pull loop's request gets through, with an answer that offers e; such an
\* answer gets through.
Offers(e) == \E S \in SUBSET pending : e \in S /\ ServerAnswers("pull", S)
OfferArrives(e) == e \in todo["pull"] /\ Clear("pull")

\* The agent stays in the fallback; requests of the pull loop, offers of every
\* event and the answers that hold them get through again and again; a POST ends
\* by its timeout; a goroutine that can go on does.
Fairness ==
    /\ <>[]fb
    /\ SF_vars(Answers("pull"))
    /\ \A e \in Events : SF_vars(Offers(e)) /\ SF_vars(OfferArrives(e))
    /\ WF_vars(Snapshot("pull")) /\ WF_vars(PostFails("pull") \/ Clear("pull"))
    /\ \A w \in Workers : WF_vars(Reject(w) \/ Marks(w) \/ AddAck(w) \/ RoundEnds(w))

FairSpec == Spec /\ Fairness

\* Every event the agent can carry out is dropped by the server at last, that
\* is, carried out and acknowledged, in spite of failed requests.
EventuallyRetired == \A e \in Events \ Rejected : e \in pending ~> e \in retired
=============================================================================
