------------------------- MODULE EventDelivery_proofs -------------------------
(***************************************************************************)
(* Proofs about EventDelivery, for any events, limits and times that the   *)
(* assumptions of that module allow.                                       *)
(***************************************************************************)
EXTENDS EventDelivery, FiniteSetTheorems, TLAPS

USE RejectedAssumption, TimeAssumption, LimitAssumption

\* Every step keeps the types: in particular ages stay in their ranges because
\* Tick waits for a round that has used up its time.
LEMMA TypeStep == TypeOK /\ [Next]_vars => TypeOK'
<1> SUFFICES ASSUME TypeOK, [Next]_vars PROVE TypeOK'
  OBVIOUS
<1> USE DEF TypeOK, server, table, round, MaxAge
<1>a. ServerTypes'
  <2> USE DEF ServerTypes
  <2>1. \A W \in SUBSET Workers : Unanswered(W) \subseteq SUBSET Events
    BY DEF Unanswered, RoundTypes
  <2>2. CASE UNCHANGED server
    BY <2>2
  <2>3. ASSUME NEW e \in Events, Publish(e) PROVE ServerTypes'
    BY <2>3 DEF Publish
  <2>4. ASSUME NEW S \in stray, StrayArrives(S) PROVE ServerTypes'
    BY <2>4 DEF StrayArrives, Retire
  <2>5. CASE Restart
    BY <2>5, <2>1 DEF Restart
  <2>6. ASSUME NEW w \in Workers, Answers(w) PROVE ServerTypes'
    BY <2>6 DEF Answers, ServerAnswers, Retire, RoundTypes
  <2>7. ASSUME NEW w \in Workers, PostFails(w) PROVE ServerTypes'
    BY <2>7, <2>1 DEF PostFails
  <2> QED
    BY <2>2, <2>3, <2>4, <2>5, <2>6, <2>7
       DEF Next, vars, EnterFallback, LeaveFallback, Tick, Snapshot, Clear, Reject,
           Marks, Mark, AddAck, RoundEnds
<1>b. TableTypes'
  <2> USE DEF TableTypes
  <2>1. CASE UNCHANGED <<acks, table>> /\ fb' \in BOOLEAN
    BY <2>1
  <2>2. CASE Restart
    <3>1. seenAge' \in [Events -> 0..MaxAge] /\ started' \in [Events -> 0..2]
      BY <2>2 DEF Restart
    <3> QED BY <2>2, <3>1 DEF Restart
  <2>3. CASE Tick
    BY <2>3 DEF Tick
  <2>4. ASSUME NEW w \in Workers, Clear(w) PROVE TableTypes'
    BY <2>4 DEF Clear
  <2>5. ASSUME NEW w \in Workers, AddAck(w) PROVE TableTypes'
    BY <2>5 DEF AddAck, RoundTypes
  <2>6. ASSUME NEW w \in Workers, NEW e \in todo[w], Mark(w, e) PROVE TableTypes'
    <3>1. e \in Events
      BY DEF RoundTypes
    <3>2. CASE e \in Unexpired
      BY <2>6, <3>2 DEF Mark, Unexpired
    <3>3. CASE e \notin Unexpired
      <4>1. /\ MarkSeen(e)
            /\ started' = [started EXCEPT ![e] = IF @ = 2 THEN 2 ELSE @ + 1]
            /\ ever' = ever \cup {e} /\ UNCHANGED <<fb, acks>>
        BY <2>6, <3>3 DEF Mark
      <4>2. seen' \subseteq Events /\ forgotten' \subseteq Events
        BY <3>1, <4>1 DEF MarkSeen, Unexpired
      <4>3. seenAge' \in [Events -> 0..MaxAge]
        <5>1. 0 \in 0..MaxAge /\ seenAge \in [Events -> 0..MaxAge]
          OBVIOUS
        <5>2. seenAge' = [seenAge EXCEPT ![e] = 0]
          BY <4>1 DEF MarkSeen
        <5> HIDE DEF MaxAge
        <5> QED BY <5>1, <5>2
      <4>4. started' \in [Events -> 0..2]
        <5>1. started \in [Events -> 0..2] /\ started[e] \in 0..2
          BY <3>1
        <5>2. (IF started[e] = 2 THEN 2 ELSE started[e] + 1) \in 0..2
          BY <5>1
        <5> QED BY <4>1, <5>1, <5>2
      <4> QED BY <3>1, <4>1, <4>2, <4>3, <4>4
    <3> QED BY <3>2, <3>3
  <2> QED
    BY <2>1, <2>2, <2>3, <2>4, <2>5, <2>6
       DEF Next, vars, Publish, StrayArrives, EnterFallback, LeaveFallback, Snapshot,
           Answers, ServerAnswers, PostFails, Reject, Marks, RoundEnds
<1>c. RoundTypes'
  <2> USE DEF RoundTypes
  <2>1. CASE UNCHANGED round
    BY <2>1
  <2>2. CASE Restart
    BY <2>2 DEF Restart
  <2>3. CASE Tick
    BY <2>3 DEF Tick, Workers
  <2>4. ASSUME NEW w \in Workers, Snapshot(w) PROVE RoundTypes'
    BY <2>4 DEF Snapshot, TableTypes
  <2>5. ASSUME NEW w \in Workers, Answers(w) PROVE RoundTypes'
    BY <2>5 DEF Answers, ServerAnswers, ServerTypes
  <2>6. ASSUME NEW w \in Workers, PostFails(w) \/ RoundEnds(w) PROVE RoundTypes'
    BY <2>6 DEF PostFails, RoundEnds, EndRound
  <2>7. ASSUME NEW w \in Workers, Clear(w) PROVE RoundTypes'
    BY <2>7 DEF Clear
  <2>8. ASSUME NEW w \in Workers, Reject(w) PROVE RoundTypes'
    BY <2>8 DEF Reject
  <2>9. ASSUME NEW w \in Workers, NEW e \in todo[w], Mark(w, e) PROVE RoundTypes'
    BY <2>9 DEF Mark
  <2>10. ASSUME NEW w \in Workers, AddAck(w) PROVE RoundTypes'
    BY <2>10 DEF AddAck
  <2> QED
    BY <2>1, <2>2, <2>3, <2>4, <2>5, <2>6, <2>7, <2>8, <2>9, <2>10
       DEF Next, vars, Publish, StrayArrives, EnterFallback, LeaveFallback, Marks
<1> QED BY <1>a, <1>b, <1>c

LEMMA TypeInit == Init => TypeOK
<1> SUFFICES ASSUME Init PROVE TypeOK
  OBVIOUS
<1>1. ServerTypes
  BY DEF Init, ServerTypes
<1>2. TableTypes
  <2>1. seenAge \in [Events -> 0..MaxAge] /\ started \in [Events -> 0..2]
    BY DEF Init, MaxAge
  <2> QED BY <2>1 DEF Init, TableTypes
<1>3. RoundTypes
  BY DEF Init, RoundTypes
<1> QED BY <1>1, <1>2, <1>3 DEF TypeOK

\* Type correctness of the fallback's shared and per-goroutine state.
THEOREM TypeCorrect == Spec => []TypeOK
BY TypeInit, TypeStep, PTL DEF Spec

-----------------------------------------------------------------------------

\* A round's variables follow its step, and an answered request has been received.
LEMMA ShapeStep ==
    TypeOK /\ RoundShape /\ Causality /\ [Next]_vars => RoundShape'
<1> SUFFICES ASSUME TypeOK, RoundShape, Causality, [Next]_vars PROVE RoundShape'
  OBVIOUS
<1> USE DEF TypeOK, RoundTypes, RoundShape
<1>1. CASE UNCHANGED round /\ retired \subseteq retired'
  BY <1>1 DEF round
<1>2. ASSUME NEW S \in SUBSET Events, Retire(S) PROVE retired \subseteq retired'
  BY <1>2 DEF Retire
<1>3. ASSUME NEW S \in stray, StrayArrives(S) PROVE RoundShape'
  BY <1>1, <1>2, <1>3 DEF StrayArrives, ServerTypes
<1>4. CASE Restart
  BY <1>4 DEF Restart
<1>5. CASE Tick
  BY <1>5 DEF Tick, server
<1>6. ASSUME NEW w \in Workers, Snapshot(w) PROVE RoundShape'
  BY <1>6 DEF Snapshot, server
<1>7. ASSUME NEW w \in Workers, Answers(w) PROVE RoundShape'
  <2>1. sent[w] \subseteq retired'
    BY <1>7 DEF Answers, ServerAnswers, Retire, Causality
  <2>2. retired \subseteq retired'
    BY <1>7 DEF Answers, ServerAnswers, Retire
  <2> QED BY <1>7, <2>1, <2>2 DEF Answers, ServerAnswers
<1>8. ASSUME NEW w \in Workers, PostFails(w) \/ RoundEnds(w) PROVE RoundShape'
  BY <1>8 DEF PostFails, RoundEnds, EndRound, server
<1>9. ASSUME NEW w \in Workers, Clear(w) PROVE RoundShape'
  BY <1>9 DEF Clear, server
<1>10. ASSUME NEW w \in Workers, Reject(w) PROVE RoundShape'
  BY <1>10 DEF Reject, server
<1>11. ASSUME NEW w \in Workers, NEW e \in todo[w], Mark(w, e) PROVE RoundShape'
  BY <1>11 DEF Mark, server
<1>12. ASSUME NEW w \in Workers, AddAck(w) PROVE RoundShape'
  BY <1>12 DEF AddAck, server
<1> QED
  BY <1>1, <1>3, <1>4, <1>5, <1>6, <1>7, <1>8, <1>9, <1>10, <1>11, <1>12
     DEF Next, vars, server, Publish, EnterFallback, LeaveFallback, Marks

\* Only what was published is offered, only what was carried out is acknowledged.
LEMMA CausalityStep ==
    TypeOK /\ RoundShape /\ Causality /\ [Next]_vars => Causality'
<1> SUFFICES ASSUME TypeOK, RoundShape, Causality, [Next]_vars PROVE Causality'
  OBVIOUS
<1> USE DEF Causality
<1>1. CASE UNCHANGED vars
  BY <1>1 DEF vars, server, table, round
<1>2. ASSUME NEW e \in Events, Publish(e) PROVE Causality'
  BY <1>2 DEF Publish, table, round
<1>3. ASSUME NEW S \in stray, StrayArrives(S) PROVE Causality'
  <2>1. S \subseteq ever /\ S \subseteq pending \cup retired
    OBVIOUS
  <2> QED BY <1>3, <2>1 DEF StrayArrives, Retire, table, round
<1>4. CASE EnterFallback \/ LeaveFallback
  BY <1>4 DEF EnterFallback, LeaveFallback, server, table, round
<1>5. CASE Restart
  <2>1. \A S \in Unanswered(Workers) : S \subseteq ever
    BY DEF Unanswered
  <2> QED BY <1>5, <2>1 DEF Restart
<1>6. CASE Tick
  BY <1>6 DEF Tick, server
<1>7. ASSUME NEW w \in Workers, Snapshot(w) PROVE Causality'
  BY <1>7 DEF Snapshot, server, table, TypeOK, RoundTypes
<1>8. ASSUME NEW w \in Workers, Answers(w) PROVE Causality'
  <2>1. PICK S \in SUBSET pending : ServerAnswers(w, S)
    BY <1>8 DEF Answers
  <2>2. /\ retired' = retired \cup (pending \cap sent[w])
        /\ pending' = pending \ sent[w]
        /\ pending' \cup retired' = pending \cup retired
    BY <2>1 DEF ServerAnswers, Retire
  <2>3. \A v \in Workers : todo'[v] \subseteq pending' \cup retired'
    BY <2>1, <2>2 DEF ServerAnswers, TypeOK, RoundTypes
  <2> QED BY <2>1, <2>2, <2>3 DEF ServerAnswers, table
<1>9. ASSUME NEW w \in Workers, PostFails(w) PROVE Causality'
  <2>1. \A S \in Unanswered({w}) : S \subseteq ever
    BY DEF Unanswered
  <2> QED BY <1>9, <2>1 DEF PostFails, EndRound, table, TypeOK, RoundTypes
<1>10. ASSUME NEW w \in Workers, RoundEnds(w) PROVE Causality'
  BY <1>10 DEF RoundEnds, EndRound, server, table, TypeOK, RoundTypes
<1>11. ASSUME NEW w \in Workers, Clear(w) PROVE Causality'
  BY <1>11 DEF Clear, server, table
<1>12. ASSUME NEW w \in Workers, Reject(w) PROVE Causality'
  BY <1>12 DEF Reject, server, table, TypeOK, RoundTypes
<1>13. ASSUME NEW w \in Workers, NEW e \in todo[w], Mark(w, e) PROVE Causality'
  <2>1. e \in Events /\ e \in pending \cup retired
    BY DEF TypeOK, RoundTypes
  <2>2. UNCHANGED <<pending, retired, stray, acks, sent>>
    BY <1>13 DEF Mark, server
  <2>3. /\ ever \subseteq ever' /\ ever' \subseteq ever \cup {e} /\ e \in ever'
        /\ \A f \in Events : started'[f] > 0 => f \in ever'
        /\ e \notin Rejected
    <3>1. CASE e \in Unexpired
      BY <1>13, <2>1, <3>1 DEF Mark, Unexpired
    <3>2. CASE e \notin Unexpired
      BY <1>13, <2>1, <3>2 DEF Mark, TypeOK, TableTypes
    <3> QED BY <3>1, <3>2
  <2>4. \A v \in Workers : todo'[v] \subseteq todo[v] /\ cur'[v] \subseteq cur[v] \cup {e}
    BY <1>13 DEF Mark, TypeOK, RoundTypes
  <2>5. seen' \subseteq seen \cup {e}
    BY <1>13 DEF Mark, MarkSeen, Unexpired
  <2> QED BY <2>1, <2>2, <2>3, <2>4, <2>5
<1>14. ASSUME NEW w \in Workers, AddAck(w) PROVE Causality'
  BY <1>14 DEF AddAck, server, table, TypeOK, RoundTypes
<1> QED
  BY <1>1, <1>2, <1>3, <1>4, <1>5, <1>6, <1>7, <1>8, <1>9, <1>10, <1>11, <1>12,
     <1>13, <1>14 DEF Next, Marks

\* An acknowledgement leaves the list only when the server has received it.
LEMMA AckKeptStep ==
    TypeOK /\ RoundShape /\ Causality /\ AckKept /\ [Next]_vars => AckKept'
<1> SUFFICES ASSUME TypeOK, RoundShape, Causality, AckKept, [Next]_vars,
                    NEW e \in Events, e \in pending', started'[e] > 0
             PROVE  e \in acks' \/ \E w \in Workers : e \in cur'[w]
  BY DEF AckKept
<1> DEFINE Goal == e \in acks' \/ \E w \in Workers : e \in cur'[w]
<1>a. e \in pending /\ started[e] > 0 => e \in acks \/ \E w \in Workers : e \in cur[w]
  BY DEF AckKept
<1>1. CASE UNCHANGED <<acks, cur, started>> /\ pending' \subseteq pending
  BY <1>1, <1>a
<1>2. ASSUME NEW f \in Events, Publish(f) PROVE Goal
  BY <1>2, <1>a DEF Publish, table, round, Causality
<1>3. ASSUME NEW S \in stray, StrayArrives(S) PROVE Goal
  BY <1>1, <1>3 DEF StrayArrives, Retire, table, round
<1>4. CASE Restart
  BY <1>4 DEF Restart
<1>5. ASSUME NEW w \in Workers, Answers(w) PROVE Goal
  BY <1>1, <1>5 DEF Answers, ServerAnswers, Retire, table
<1>6. ASSUME NEW w \in Workers, Clear(w) PROVE Goal
  <2>1. sent[w] \cap pending = {}
    BY <1>6 DEF Clear, RoundShape, Causality
  <2> QED BY <1>6, <1>a, <2>1 DEF Clear, server, table
<1>7. ASSUME NEW w \in Workers, NEW f \in todo[w], Mark(w, f) PROVE Goal
  <2>1. cur[w] = {} /\ cur' = [cur EXCEPT ![w] = {f}] /\ UNCHANGED <<pending, acks>>
    BY <1>7 DEF Mark, RoundShape, server
  <2>2. \A v \in Workers : cur[v] \subseteq cur'[v]
    BY <2>1 DEF TypeOK, RoundTypes
  <2>3. CASE e = f
    BY <2>1, <2>3 DEF TypeOK, RoundTypes
  <2>4. CASE e # f
    <3>1. started'[e] = started[e]
      BY <1>7, <2>4 DEF Mark, TypeOK, TableTypes
    <3> QED BY <1>a, <2>1, <2>2, <3>1
  <2> QED BY <2>3, <2>4
<1>8. ASSUME NEW w \in Workers, AddAck(w) PROVE Goal
  BY <1>8, <1>a DEF AddAck, server, table, TypeOK, RoundTypes
<1> QED
  BY <1>1, <1>2, <1>3, <1>4, <1>5, <1>6, <1>7, <1>8
     DEF Next, vars, server, table, round, EnterFallback, LeaveFallback, Tick, Snapshot,
         PostFails, EndRound, Reject, Marks, RoundEnds

\* While an answer may still offer an event, the table holds it unexpired.
LEMMA RememberedStep ==
    TypeOK /\ TypeOK' /\ RoundShape /\ Causality /\ Remembered /\ [Next]_vars => Remembered'
<1> SUFFICES ASSUME TypeOK, TypeOK', RoundShape, Causality, Remembered, [Next]_vars,
                    NEW e \in Events, started'[e] > 0, e \notin forgotten'
             PROVE  /\ e \in pending' /\ e \notin acks' =>
                         \E w \in Workers : e \in cur'[w] /\ SeenWithin(e, age[w])'
                    /\ \A w \in Workers :
                         (at'[w] = "posted" /\ e \in pending' \ sent'[w]) \/ e \in todo'[w] =>
                            SeenWithin(e, age[w] + RoundTime)'
  BY DEF Remembered
<1> USE DEF SeenWithin
<1> DEFINE Marked == \E w \in Workers : e \in cur[w] /\ e \in seen /\ seenAge[e] <= age[w]
           Marked1 == \E w \in Workers : e \in cur'[w] /\ e \in seen' /\ seenAge'[e] <= age'[w]
           Offer(w) == (at[w] = "posted" /\ e \in pending \ sent[w]) \/ e \in todo[w]
           Offer1(w) == (at'[w] = "posted" /\ e \in pending' \ sent'[w]) \/ e \in todo'[w]
           Fresh(w) == e \in seen /\ seenAge[e] <= age[w] + RoundTime
           Fresh1(w) == e \in seen' /\ seenAge'[e] <= age'[w] + RoundTime
           Goal == /\ e \in pending' /\ e \notin acks' => Marked1
                   /\ \A w \in Workers : Offer1(w) => Fresh1(w)
<1> SUFFICES Goal
  OBVIOUS
<1>r. ASSUME started[e] > 0, e \notin forgotten
      PROVE  /\ e \in pending /\ e \notin acks => Marked
             /\ \A w \in Workers : Offer(w) => Fresh(w)
  BY <1>r DEF Remembered
<1>t. /\ \A w \in Workers : age[w] \in Nat /\ age[w] <= RoundTime
      /\ \A f \in Events : seenAge[f] \in Nat
      /\ \A w \in Workers : age'[w] \in Nat /\ age'[w] <= RoundTime
      /\ \A f \in Events : seenAge'[f] \in Nat
      /\ RoundTime \in Nat /\ TTL \in Nat
  BY DEF TypeOK, TableTypes, RoundTypes, MaxAge
<1> HIDE DEF Goal, Marked, Marked1, Offer, Offer1, Fresh, Fresh1
\* A step that leaves the table alone and offers nothing new.
<1>1. CASE /\ UNCHANGED <<table, cur, age>>
           /\ e \in pending' /\ e \notin acks' => e \in pending /\ e \notin acks
           /\ \A w \in Workers : Offer1(w) => Offer(w)
  BY <1>1, <1>r DEF table, Goal, Marked, Marked1, Fresh, Fresh1
<1>2. ASSUME NEW f \in Events, Publish(f) PROVE Goal
  <2>1. started[e] > 0
    BY <1>2 DEF Publish, table
  <2>2. e # f
    BY <1>2, <2>1 DEF Publish, Causality
  <2> QED BY <1>1, <1>2, <2>2 DEF Publish, table, round, Offer, Offer1
<1>3. ASSUME NEW S \in stray, StrayArrives(S) PROVE Goal
  BY <1>1, <1>3 DEF StrayArrives, Retire, table, round, Offer, Offer1
<1>4. CASE Restart
  BY <1>4 DEF Restart
<1>5. CASE Tick
  <2>1. UNCHANGED <<server, acks, seen, started, forgotten, at, sent, todo, cur>>
    BY <1>5 DEF Tick
  <2>2. seenAge'[e] <= seenAge[e] + 1
    BY <1>5, <1>t DEF Tick
  <2>3. \A w \in Workers : at[w] # "idle" => age'[w] = age[w] + 1
    BY <1>5 DEF Tick
  <2>4. \A w \in Workers : e \in cur[w] \/ Offer(w) => at[w] # "idle"
    BY DEF RoundShape, Offer
  <2>5. \A w \in Workers : Offer1(w) => Offer(w)
    BY <2>1 DEF Offer, Offer1, server
  <2>6. ASSUME NEW w \in Workers, Offer1(w) PROVE Fresh1(w)
    <3>1. at[w] # "idle" /\ Fresh(w)
      BY <1>r, <2>1, <2>4, <2>5, <2>6
    <3>2. age'[w] = age[w] + 1
      BY <2>3, <3>1
    <3> QED BY <1>t, <2>1, <2>2, <3>1, <3>2 DEF Fresh, Fresh1
  <2>7. ASSUME e \in pending', e \notin acks' PROVE Marked1
    <3>1. PICK w \in Workers : e \in cur[w] /\ e \in seen /\ seenAge[e] <= age[w]
      BY <1>r, <2>1, <2>7 DEF Marked, server
    <3>2. age'[w] = age[w] + 1
      BY <2>3, <2>4, <3>1
    <3> QED BY <1>t, <2>1, <2>2, <3>1, <3>2 DEF Marked1
  <2> QED BY <2>6, <2>7 DEF Goal
<1>6. ASSUME NEW w \in Workers, Snapshot(w) PROVE Goal
  <2>1. UNCHANGED <<pending, acks, seen, seenAge, started, forgotten, cur, todo>>
    BY <1>6 DEF Snapshot, server, table
  <2>2. sent'[w] = acks /\ age'[w] = 0 /\ at[w] = "idle"
    BY <1>6 DEF Snapshot, TypeOK, RoundTypes
  <2>3. \A v \in Workers \ {w} : UNCHANGED <<at[v], sent[v], age[v]>>
    BY <1>6 DEF Snapshot, TypeOK, RoundTypes
  <2>4. cur[w] = {} /\ todo[w] = {}
    BY <2>2 DEF RoundShape
  <2>5. e \in pending' /\ e \notin acks' => Marked /\ Marked1
    BY <1>r, <2>1, <2>3, <2>4 DEF Marked, Marked1
  <2>6. Offer1(w) => Fresh1(w)
    BY <1>t, <2>1, <2>2, <2>4, <2>5 DEF Offer1, Fresh1, Marked
  <2>7. ASSUME NEW v \in Workers \ {w}, Offer1(v) PROVE Fresh1(v)
    BY <1>r, <2>1, <2>3, <2>7 DEF Offer, Offer1, Fresh, Fresh1
  <2> QED BY <2>5, <2>6, <2>7 DEF Goal
<1>7. ASSUME NEW w \in Workers, Answers(w) PROVE Goal
  <2>1. PICK S \in SUBSET pending : ServerAnswers(w, S)
    BY <1>7 DEF Answers
  <2> QED BY <1>1, <2>1 DEF ServerAnswers, Retire, table, Offer, Offer1, TypeOK, RoundTypes
<1>8. ASSUME NEW w \in Workers, at[w] # "marked", EndRound(w),
             UNCHANGED <<pending, acks, table>>
      PROVE  Goal
  <2>1. UNCHANGED <<seen, seenAge, started, forgotten, cur>>
    BY <1>8 DEF EndRound, table
  <2>2. \A v \in Workers \ {w} : UNCHANGED <<at[v], sent[v], todo[v], age[v]>>
    BY <1>8 DEF EndRound, TypeOK, RoundTypes
  <2>3. at'[w] = "idle" /\ todo'[w] = {}
    BY <1>8 DEF EndRound, TypeOK, RoundTypes
  <2>4. cur[w] = {}
    BY <1>8 DEF RoundShape
  <2>5. ASSUME NEW v \in Workers, Offer1(v) PROVE Fresh1(v)
    BY <1>8, <1>r, <2>1, <2>2, <2>3, <2>5 DEF Offer, Offer1, Fresh, Fresh1
  <2>6. e \in pending' /\ e \notin acks' => Marked1
    BY <1>8, <1>r, <2>1, <2>2, <2>4 DEF Marked, Marked1
  <2> QED BY <2>5, <2>6 DEF Goal
<1>9. ASSUME NEW w \in Workers, Clear(w) PROVE Goal
  <2>1. sent[w] \cap pending = {}
    BY <1>9 DEF Clear, RoundShape, Causality
  <2> QED BY <1>1, <1>9, <2>1 DEF Clear, server, Offer, Offer1, TypeOK, RoundTypes
<1>10. ASSUME NEW w \in Workers, Reject(w) PROVE Goal
  BY <1>1, <1>10 DEF Reject, server, Offer, Offer1, TypeOK, RoundTypes
<1>11. ASSUME NEW w \in Workers, NEW f \in todo[w], Mark(w, f) PROVE Goal
  <2>1. UNCHANGED <<pending, acks, sent, age>> /\ cur[w] = {}
    BY <1>11 DEF Mark, server, RoundShape
  <2>2. cur' = [cur EXCEPT ![w] = {f}] /\ at' = [at EXCEPT ![w] = "marked"]
    BY <1>11 DEF Mark
  <2>3. \A v \in Workers : Offer1(v) => Offer(v)
    BY <1>11, <2>1, <2>2 DEF Mark, Offer, Offer1, TypeOK, RoundTypes
  <2>4. \A v \in Workers : e \in cur[v] => v # w /\ e \in cur'[v]
    BY <2>1, <2>2 DEF TypeOK, RoundTypes
  \* an entry that is needed has not expired, and is kept
  <2>5. ASSUME started[e] > 0, e \notin forgotten, seenAge'[e] = seenAge[e],
               e \in Unexpired => e \in seen'
        PROVE  Goal
    <3>1. ASSUME NEW v \in Workers, Offer1(v) PROVE Fresh1(v)
      <4>1. e \in seen /\ seenAge[e] <= age[v] + RoundTime
        BY <1>r, <2>3, <2>5, <3>1 DEF Fresh
      <4>2. e \in Unexpired
        BY <1>t, <4>1 DEF Unexpired
      <4> QED BY <2>1, <2>5, <4>1, <4>2 DEF Fresh1
    <3>2. ASSUME e \in pending', e \notin acks' PROVE Marked1
      <4>1. PICK v \in Workers : e \in cur[v] /\ e \in seen /\ seenAge[e] <= age[v]
        BY <1>r, <2>1, <2>5, <3>2 DEF Marked
      <4>2. e \in Unexpired
        BY <1>t, <4>1 DEF Unexpired
      <4> QED BY <2>1, <2>4, <2>5, <4>1, <4>2 DEF Marked1
    <3> QED BY <3>1, <3>2 DEF Goal
  <2>6. CASE f \in Unexpired
    BY <1>11, <2>5, <2>6 DEF Mark
  <2>7. CASE f \notin Unexpired
    <3>1. MarkSeen(f) /\ started' = [started EXCEPT ![f] = IF @ = 2 THEN 2 ELSE @ + 1]
      BY <1>11, <2>7 DEF Mark
    <3>2. PICK gone \in SUBSET Unexpired :
             seen' = (Unexpired \ gone) \cup {f} /\ forgotten' = forgotten \cup gone
      BY <3>1 DEF MarkSeen
    <3>3. seenAge' = [seenAge EXCEPT ![f] = 0]
      BY <3>1 DEF MarkSeen
    <3>4. CASE e = f
      <4>1. e \in seen' /\ seenAge'[e] = 0 /\ e \in cur'[w]
        BY <2>2, <3>2, <3>3, <3>4 DEF TypeOK, TableTypes, RoundTypes
      <4> QED BY <1>t, <2>1, <4>1 DEF Goal, Marked1, Fresh1
    <3>5. CASE e # f
      BY <2>5, <3>1, <3>2, <3>3, <3>5 DEF TypeOK, TableTypes
    <3> QED BY <3>4, <3>5
  <2> QED BY <2>6, <2>7
<1>12. ASSUME NEW w \in Workers, AddAck(w) PROVE Goal
  <2>1. UNCHANGED <<pending, seen, seenAge, started, forgotten, sent, todo, age>>
    BY <1>12 DEF AddAck, server, table
  <2>2. acks' = acks \cup cur[w] /\ at' = [at EXCEPT ![w] = "handling"]
    BY <1>12 DEF AddAck
  <2>3. \A v \in Workers : e \notin acks' /\ e \in cur[v] => e \in cur'[v]
    BY <1>12, <2>2 DEF AddAck, TypeOK, RoundTypes
  <2>4. \A v \in Workers : Offer1(v) => Offer(v)
    BY <2>1, <2>2 DEF Offer, Offer1, TypeOK, RoundTypes
  <2>5. ASSUME NEW v \in Workers, Offer1(v) PROVE Fresh1(v)
    BY <1>r, <2>1, <2>4, <2>5 DEF Fresh, Fresh1
  <2>6. ASSUME e \in pending', e \notin acks' PROVE Marked1
    BY <1>r, <2>1, <2>2, <2>3, <2>6 DEF Marked, Marked1
  <2> QED BY <2>5, <2>6 DEF Goal
<1> QED
  BY <1>1, <1>2, <1>3, <1>4, <1>5, <1>6, <1>7, <1>8, <1>9, <1>10, <1>11, <1>12
     DEF Next, vars, server, table, round, EnterFallback, LeaveFallback,
         PostFails, Marks, RoundEnds, Offer, Offer1

\* An event that processV2Event takes for new was not carried out in this life,
\* or its entry was evicted.
LEMMA NewIsNew ==
    ASSUME TypeOK, Remembered, NEW w \in Workers, NEW e \in todo[w], e \notin Unexpired
    PROVE  started[e] = 0 \/ e \in forgotten
<1>1. e \in Events /\ started[e] \in 0..2 /\ age[w] \in 0..RoundTime /\ seenAge[e] \in 0..MaxAge
  BY DEF TypeOK, TableTypes, RoundTypes
<1>2. ASSUME started[e] > 0, e \notin forgotten PROVE FALSE
  <2>1. e \in seen /\ seenAge[e] <= age[w] + RoundTime
    BY <1>1, <1>2 DEF Remembered, SeenWithin
  <2> QED BY <1>1, <2>1 DEF Unexpired, MaxAge
<1> QED BY <1>1, <1>2

LEMMA AtMostOnceStep ==
    TypeOK /\ Remembered /\ AtMostOnce /\ [Next]_vars => AtMostOnce'
<1> SUFFICES ASSUME TypeOK, Remembered, AtMostOnce, [Next]_vars PROVE AtMostOnce'
  OBVIOUS
<1>1. CASE UNCHANGED <<started, forgotten>>
  BY <1>1 DEF AtMostOnce
<1>2. CASE Restart
  BY <1>2 DEF Restart, AtMostOnce
<1>3. ASSUME NEW w \in Workers, NEW e \in todo[w], Mark(w, e) PROVE AtMostOnce'
  <2>1. CASE e \in Unexpired
    BY <1>1, <1>3, <2>1 DEF Mark
  <2>2. CASE e \notin Unexpired
    <3>1. started[e] = 0 \/ e \in forgotten
      BY <2>2, NewIsNew
    <3>2. started' = [started EXCEPT ![e] = IF @ = 2 THEN 2 ELSE @ + 1]
      BY <1>3, <2>2 DEF Mark
    <3>3. forgotten \subseteq forgotten'
      BY <1>3, <2>2 DEF Mark, MarkSeen
    <3> QED BY <3>1, <3>2, <3>3 DEF AtMostOnce, TypeOK, TableTypes
  <2> QED BY <2>1, <2>2
<1> QED
  BY <1>1, <1>2, <1>3
     DEF Next, vars, table, Publish, StrayArrives, EnterFallback, LeaveFallback, Tick,
         Snapshot, Answers, ServerAnswers, PostFails, Clear, Reject, Marks, AddAck, RoundEnds

LEMMA DeliveryStep == DeliveryInv /\ [Next]_vars => DeliveryInv'
BY TypeStep, ShapeStep, CausalityStep, AckKeptStep, RememberedStep, AtMostOnceStep
   DEF DeliveryInv

LEMMA DeliveryInit == Init => DeliveryInv
<1> SUFFICES ASSUME Init PROVE DeliveryInv
  OBVIOUS
<1>1. TypeOK
  BY TypeInit
<1>2. RoundShape /\ Causality
  BY DEF Init, RoundShape, Causality
<1>3. \A e \in Events : ~(started[e] > 0)
  BY DEF Init
<1>4. AckKept /\ AtMostOnce /\ Remembered
  BY <1>3 DEF AckKept, AtMostOnce, Remembered, Init
<1> QED BY <1>1, <1>2, <1>4 DEF DeliveryInv

\* The invariant of the fallback's delivery holds in every reachable state.
THEOREM Delivery == Spec => []DeliveryInv
BY DeliveryInit, DeliveryStep, PTL DEF Spec

\* An event that was carried out stays acknowledged until the server drops it.
THEOREM AckIsKept == Spec => []AckKept
<1>1. DeliveryInv => AckKept
  BY DEF DeliveryInv
<1> QED BY <1>1, Delivery, PTL

\* No event is carried out twice in one life unless its entry was evicted.
THEOREM CarriedOutAtMostOnce == Spec => []AtMostOnce
<1>1. DeliveryInv => AtMostOnce
  BY DEF DeliveryInv
<1> QED BY <1>1, Delivery, PTL

\* The server drops only events some life of the agent has carried out.
THEOREM DropsOnlyCarriedOut == Spec => []RetiredWereCarriedOut
<1>1. DeliveryInv => RetiredWereCarriedOut
  BY DEF DeliveryInv, Causality, RetiredWereCarriedOut
<1> QED BY <1>1, Delivery, PTL

-----------------------------------------------------------------------------

\* The table is bounded: a new entry replaces the oldest one of a full table.
LEMMA SeenBoundedStep == TypeOK /\ SeenBounded /\ [Next]_vars => SeenBounded'
<1> SUFFICES ASSUME TypeOK, SeenBounded, [Next]_vars PROVE SeenBounded'
  OBVIOUS
<1>0. seen \subseteq Events /\ IsFiniteSet(seen) /\ Cardinality(seen) \in Nat
  BY EventsAssumption, FS_Subset, FS_CardinalityType DEF TypeOK, TableTypes
<1>1. CASE UNCHANGED seen
  BY <1>1 DEF SeenBounded
<1>2. CASE Restart
  BY <1>2, FS_EmptySet DEF Restart, SeenBounded
<1>3. ASSUME NEW w \in Workers, NEW e \in todo[w], Mark(w, e) PROVE SeenBounded'
  <2>1. /\ IsFiniteSet(Unexpired) /\ Cardinality(Unexpired) \in Nat
        /\ Cardinality(Unexpired) <= SeenLimit
    <3>1. Unexpired \subseteq seen
      BY DEF Unexpired
    <3>2. IsFiniteSet(Unexpired) /\ Cardinality(Unexpired) <= Cardinality(seen)
      BY <1>0, <3>1, FS_Subset
    <3>3. Cardinality(Unexpired) \in Nat
      BY <3>2, FS_CardinalityType
    <3> QED BY <1>0, <3>2, <3>3 DEF SeenBounded
  <2>2. CASE e \in Unexpired
    BY <1>3, <2>1, <2>2 DEF Mark, SeenBounded
  <2>3. CASE e \notin Unexpired
    <3>1. MarkSeen(e)
      BY <1>3, <2>3 DEF Mark
    <3>2. PICK gone \in SUBSET Unexpired :
            /\ IF Cardinality(Unexpired) >= SeenLimit
                 THEN \E o \in Oldest(Unexpired) : gone = {o}
                 ELSE gone = {}
            /\ seen' = (Unexpired \ gone) \cup {e}
      BY <3>1 DEF MarkSeen
    <3>3. /\ IsFiniteSet(Unexpired \ gone) /\ Cardinality(Unexpired \ gone) \in Nat
          /\ Cardinality(Unexpired \ gone) <= SeenLimit - 1
      <4>1. CASE Cardinality(Unexpired) >= SeenLimit
        <5>1. PICK o \in Unexpired : gone = {o}
          BY <3>2, <4>1 DEF Oldest
        <5>2. /\ IsFiniteSet(Unexpired \ {o})
              /\ Cardinality(Unexpired \ {o}) = Cardinality(Unexpired) - 1
          BY <2>1, <5>1, FS_RemoveElement
        <5>3. Cardinality(Unexpired \ {o}) \in Nat
          BY <5>2, FS_CardinalityType
        <5> QED BY <2>1, <5>1, <5>2, <5>3
      <4>2. CASE ~(Cardinality(Unexpired) >= SeenLimit)
        <5>1. gone = {} /\ Unexpired \ gone = Unexpired
          BY <3>2, <4>2
        <5> QED BY <2>1, <4>2, <5>1
      <4> QED BY <4>1, <4>2
    <3>4. Cardinality(seen') = Cardinality(Unexpired \ gone) + 1
      BY <2>3, <3>2, <3>3, FS_AddElement
    <3> QED BY <3>3, <3>4 DEF SeenBounded
  <2> QED BY <2>2, <2>3
<1> QED
  BY <1>1, <1>2, <1>3
     DEF Next, vars, table, Publish, StrayArrives, EnterFallback, LeaveFallback, Tick,
         Snapshot, Answers, ServerAnswers, PostFails, Clear, Reject, Marks, AddAck, RoundEnds

\* The table of seen events never outgrows its limit.
THEOREM SeenIsBounded == Spec => []SeenBounded
<1>1. Init => SeenBounded
  BY FS_EmptySet DEF Init, SeenBounded
<1> QED BY <1>1, TypeInit, TypeStep, SeenBoundedStep, PTL DEF Spec

-----------------------------------------------------------------------------
(* The refinement of TaskQueue. *)

\* A table with room for every event evicts none.
LEMMA NoEviction ==
    ASSUME Cardinality(Events) <= SeenLimit, TypeOK, forgotten = {}, [Next]_vars
    PROVE  forgotten' = {}
<1>1. CASE UNCHANGED forgotten
  BY <1>1
<1>2. CASE Restart
  BY <1>2 DEF Restart
<1>3. ASSUME NEW w \in Workers, NEW e \in todo[w], Mark(w, e), e \notin Unexpired
      PROVE  forgotten' = {}
  <2>1. e \in Events /\ Unexpired \subseteq Events
    BY DEF TypeOK, TableTypes, RoundTypes, Unexpired
  <2>2. Cardinality(Unexpired) < SeenLimit
    <3>1. /\ IsFiniteSet(Unexpired) /\ Cardinality(Unexpired) <= Cardinality(Events)
          /\ Cardinality(Unexpired) = Cardinality(Events) => Unexpired = Events
      BY <2>1, EventsAssumption, FS_Subset
    <3>2. Cardinality(Unexpired) \in Nat /\ Cardinality(Events) \in Nat
      BY <3>1, EventsAssumption, FS_CardinalityType
    <3> QED BY <1>3, <2>1, <3>1, <3>2
  <2>3. MarkSeen(e)
    BY <1>3 DEF Mark
  <2>4. Cardinality(Unexpired) \in Nat
    BY <2>1, EventsAssumption, FS_Subset, FS_CardinalityType
  <2> QED BY <2>2, <2>3, <2>4 DEF MarkSeen
<1>4. ASSUME NEW w \in Workers, NEW e \in todo[w], Mark(w, e), e \in Unexpired
      PROVE  forgotten' = {}
  BY <1>4 DEF Mark
<1> QED
  BY <1>1, <1>2, <1>3, <1>4
     DEF Next, vars, table, Publish, StrayArrives, EnterFallback, LeaveFallback, Tick,
         Snapshot, Answers, ServerAnswers, PostFails, Clear, Reject, Marks, AddAck, RoundEnds

\* Every step of the fallback is a step of the queue it promises, or invisible.
LEMMA PromiseStep ==
    ASSUME DeliveryInv, forgotten = {}, [Next]_vars
    PROVE  [Promise!Next]_(Promise!vars)
<1> USE DEF DeliveryInv, Causality
<1>1. CASE UNCHANGED <<pending, retired, started, ever>>
  BY <1>1 DEF Promise!vars
<1>2. ASSUME NEW e \in Events, Publish(e) PROVE Promise!Publish
  BY <1>2 DEF Publish, table, Promise!Publish
<1>3. ASSUME NEW S \in SUBSET ever, Retire(S), UNCHANGED <<started, ever>>
      PROVE  Promise!Drop
  <2>1. pending' = pending \ (pending \cap S) /\ retired' = retired \cup (pending \cap S)
    BY <1>3 DEF Retire
  <2>2. (pending \cap S) \in SUBSET (pending \cap ever)
    OBVIOUS
  <2> QED BY <1>3, <2>1, <2>2 DEF Promise!Drop
<1>4. ASSUME NEW S \in stray, StrayArrives(S) PROVE Promise!Drop
  BY <1>3, <1>4 DEF StrayArrives, table
<1>5. ASSUME NEW w \in Workers, Answers(w) PROVE Promise!Drop
  BY <1>3, <1>5 DEF Answers, ServerAnswers, table
<1>6. CASE Restart
  BY <1>6 DEF Restart, Promise!Restart, Promise!Next
<1>7. ASSUME NEW w \in Workers, NEW e \in todo[w], Mark(w, e)
      PROVE  Promise!CarryOut \/ UNCHANGED <<pending, retired, started, ever>>
  <2>1. CASE e \in Unexpired
    BY <1>7, <2>1 DEF Mark, server
  <2>2. CASE e \notin Unexpired
    <3>1. e \in Events /\ e \in pending \cup retired
      BY DEF TypeOK, RoundTypes
    <3>2. started[e] = 0
      BY <2>2, NewIsNew
    <3>3. started' = [started EXCEPT ![e] = IF @ = 2 THEN 2 ELSE @ + 1]
      BY <1>7, <2>2 DEF Mark
    <3>4. started' = [started EXCEPT ![e] = 1]
      BY <3>1, <3>2, <3>3
    <3>5. ever' = ever \cup {e} /\ UNCHANGED <<pending, retired>>
      BY <1>7, <2>2 DEF Mark, server
    <3> QED BY <3>1, <3>2, <3>4, <3>5 DEF Promise!CarryOut
  <2> QED BY <2>1, <2>2
<1> QED
  BY <1>1, <1>2, <1>4, <1>5, <1>6, <1>7
     DEF Next, vars, server, table, Promise!Next, EnterFallback, LeaveFallback, Tick,
         Snapshot, PostFails, Clear, Reject, Marks, AddAck, RoundEnds

\* The table has room for every event.
Roomy == Cardinality(Events) <= SeenLimit

\* The fallback implements the queue of events carried out at most once per life,
\* whenever the table of seen events has room for all of them.
THEOREM FallbackKeepsPromise == Roomy /\ Spec => KeepsPromise
<1> DEFINE Inv == DeliveryInv /\ forgotten = {} /\ Roomy
<1>1. Init => Promise!Init
  BY DEF Init, Promise!Init
<1>2. Roomy /\ Init => Inv
  BY DeliveryInit DEF Init
<1>3. Inv /\ [Next]_vars => Inv'
  BY NoEviction, DeliveryStep DEF DeliveryInv, Roomy
<1>4. Inv /\ [Next]_vars => [Promise!Next]_(Promise!vars)
  BY PromiseStep
<1> QED BY <1>1, <1>2, <1>3, <1>4, PTL DEF Spec, KeepsPromise, Promise!Spec
=============================================================================
