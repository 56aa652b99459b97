-------------------------- MODULE TrafficTracker_proofs --------------------------
(***************************************************************************)
(* What TrafficTracker keeps for any interfaces, retention, save interval  *)
(* and lag. The inductive invariant is TrackerInv: beside the properties   *)
(* it says how old the cache can be in terms of the pending tick, and that *)
(* the history in memory covers the file once the file has been loaded.    *)
(* What the bytes add up to needs more: BytesInv relates the history, the  *)
(* cache, the last counters, the file and the wire by sums over the times. *)
(* The sums are folds over finite sets; that the order of a fold does not  *)
(* matter is shown by induction over the subsets of a set, from the fact   *)
(* that the proper subset relation of a finite set is well-founded.        *)
(***************************************************************************)
EXTENDS TrafficTracker, FiniteSetTheorems, TLAPS

ConstantsInNat ==
    /\ Retention \in Nat /\ SaveEvery \in Nat /\ MaxLag \in Nat
    /\ MaxTime \in Nat /\ MaxBytes \in Nat

LEMMA Constants == ConstantsInNat /\ None \notin Nat
BY TimesAssumption, NoneAssumption DEF ConstantsInNat

\* A tracker that does not run remembers no sample, and no counter either
\* unless Close has just stopped it.
Fresh ==
    /\ ~running => cache = EmptyCache
    /\ ~running /\ phase # "closed" => \A n \in NICs : last[n] = None
    /\ phase = "start" => ~running /\ ~loaded /\ hist = NoHistory
    /\ phase = "closed" => ~running
    /\ ~running => tick = None

\* A tick waits MaxLag at most, and what is in the cache was sampled after the
\* tick before it.
Age ==
    /\ tick # None => tick <= now /\ now <= tick + MaxLag
    /\ \A n \in NICs, t \in Times : cache[n].at[t] > 0 =>
         IF tick = None THEN now <= t + since ELSE tick <= t + SaveEvery

\* While the last save succeeded, the file holds all of the history.
OnDisk == saved => \A n \in NICs, t \in Times : hist[n][t] <= disk[n][t]

\* Once the file is loaded, the history holds all of it that has not expired.
InMemory ==
    /\ file # "good" => disk = NoHistory
    /\ loaded => \A n \in NICs, t \in Times :
                   t + Retention >= now => hist[n][t] >= disk[n][t]

TrackerInv == TypeOK /\ Fresh /\ Age /\ OnDisk /\ InMemory /\ AllowedOnly

-----------------------------------------------------------------------------
(* Sums over a finite set, as SumFrom takes them. *)

\* Induction over the subsets of a finite set: a set of them that has every
\* subset whose proper subsets it has, has them all.
LEMMA SubsetInduction ==
    ASSUME NEW S, IsFiniteSet(S), NEW W, W \subseteq SUBSET S,
           \A T \in SUBSET S : (\A U \in SUBSET T : U # T => U \in W) => T \in W
    PROVE  W = SUBSET S
<1> SUFFICES ASSUME W # SUBSET S PROVE FALSE
  OBVIOUS
<1> DEFINE R == StrictSubsetOrdering(S)
           Bad == (SUBSET S) \ W
<1>1. IsWellFoundedOn(R, SUBSET S)
  <2>1. IsWellFoundedOn(R, FiniteSubsetsOf(S))
    BY FS_StrictSubsetOrderingWellFounded
  <2>2. FiniteSubsetsOf(S) = SUBSET S
    BY FS_FiniteSubsetsOfFinite
  <2> QED BY <2>1, <2>2
<1>2. \A T, U \in SUBSET S : U \subseteq T /\ U # T => <<U, T>> \in R
  BY DEF StrictSubsetOrdering
<1>3. Bad \subseteq SUBSET S /\ Bad # {}
  OBVIOUS
<1> HIDE DEF R, Bad
<1>4. PICK T \in Bad : \A U \in Bad : ~(<<U, T>> \in R)
  BY <1>1, <1>3, WFMin
<1>5. T \in SUBSET S /\ T \notin W
  BY DEF Bad
<1>6. ASSUME NEW U \in SUBSET T, U # T PROVE U \in W
  <2>1. U \in SUBSET S /\ <<U, T>> \in R
    BY <1>2, <1>5, <1>6
  <2> QED BY <1>4, <2>1 DEF Bad
<1> QED BY <1>5, <1>6

SumOver(f, S) == FoldFunctionOnSet(+, 0, f, S)

Any(S) == CHOOSE x \in S : TRUE

\* sum adds up f over the subsets of S, taking one element after the other.
AddsUp(sum, f, S) ==
    sum = [s \in SUBSET S |-> IF s = {} THEN 0 ELSE f[Any(s)] + sum[s \ {Any(s)}]]

LEMMA AnyIn == \A S : S # {} => Any(S) \in S
BY DEF Any

LEMMA SumIs ==
    ASSUME NEW f, NEW S
    PROVE  SumOver(f, S) = (CHOOSE sum : AddsUp(sum, f, S))[S]
BY DEF SumOver, FoldFunctionOnSet, MapThenFoldSet, AddsUp, Any

\* There is at most one such function.
LEMMA OneSum ==
    ASSUME NEW S, IsFiniteSet(S), NEW f, NEW g, NEW h, AddsUp(g, f, S), AddsUp(h, f, S)
    PROVE  g = h
<1> DEFINE W == {T \in SUBSET S : g[T] = h[T]}
<1>1. ASSUME NEW T \in SUBSET S, \A U \in SUBSET T : U # T => U \in W
      PROVE  T \in W
  <2>1. CASE T = {}
    BY <2>1 DEF AddsUp
  <2>2. CASE T # {}
    <3>1. Any(T) \in T /\ T \ {Any(T)} \in W
      BY <1>1, <2>2, AnyIn
    <3>2. g[T] = f[Any(T)] + g[T \ {Any(T)}] /\ h[T] = f[Any(T)] + h[T \ {Any(T)}]
      BY <2>2 DEF AddsUp
    <3> QED BY <3>1, <3>2
  <2> QED BY <2>1, <2>2
<1>2. W = SUBSET S
  <2>1. W \subseteq SUBSET S
    OBVIOUS
  <2> HIDE DEF W
  <2> QED BY <1>1, <2>1, SubsetInduction
<1>3. g = [T \in SUBSET S |-> g[T]] /\ h = [T \in SUBSET S |-> h[T]]
  BY DEF AddsUp
<1> QED BY <1>2, <1>3

\* What adds up over a set does so over each of its subsets.
LEMMA SumBelow ==
    ASSUME NEW S, NEW f, NEW g, AddsUp(g, f, S), NEW T \in SUBSET S
    PROVE  AddsUp([s \in SUBSET T |-> g[s]], f, T)
<1> DEFINE h == [s \in SUBSET T |-> g[s]]
<1>1. ASSUME NEW s \in SUBSET T
      PROVE  h[s] = IF s = {} THEN 0 ELSE f[Any(s)] + h[s \ {Any(s)}]
  <2>1. g[s] = IF s = {} THEN 0 ELSE f[Any(s)] + g[s \ {Any(s)}]
    BY DEF AddsUp
  <2> QED BY <2>1
<1>2. h = [s \in SUBSET T |-> h[s]]
  OBVIOUS
<1> HIDE DEF h
<1> QED BY <1>1, <1>2 DEF AddsUp

LEMMA SumExists ==
    ASSUME NEW S, IsFiniteSet(S), NEW f
    PROVE  \E g : AddsUp(g, f, S)
<1> DEFINE W == {T \in SUBSET S : \E g : AddsUp(g, f, T)}
           G(T) == CHOOSE g : AddsUp(g, f, T)
<1>1. ASSUME NEW T \in SUBSET S, \A U \in SUBSET T : U # T => U \in W
      PROVE  T \in W
  <2> DEFINE H(s) == IF s = {} THEN 0 ELSE f[Any(s)] + G(s \ {Any(s)})[s \ {Any(s)}]
             h == [s \in SUBSET T |-> H(s)]
  <2>1. ASSUME NEW s \in SUBSET T, s # T PROVE h[s] = G(s)[s]
    <3>1. AddsUp(G(s), f, s)
      BY <1>1, <2>1
    <3>2. G(s)[s] = IF s = {} THEN 0 ELSE f[Any(s)] + G(s)[s \ {Any(s)}]
      BY <3>1 DEF AddsUp
    <3>3. ASSUME s # {} PROVE G(s)[s \ {Any(s)}] = G(s \ {Any(s)})[s \ {Any(s)}]
      <4> DEFINE r == s \ {Any(s)}
      <4>1. r \in SUBSET s /\ r \in SUBSET T /\ r # T /\ IsFiniteSet(r)
        BY <2>1, <3>3, AnyIn, FS_Subset
      <4>2. AddsUp(G(r), f, r)
        BY <1>1, <4>1
      <4> HIDE DEF r, G
      <4>3. AddsUp([u \in SUBSET r |-> G(s)[u]], f, r)
        BY <3>1, <4>1, SumBelow
      <4>4. [u \in SUBSET r |-> G(s)[u]] = G(r)
        BY <4>1, <4>2, <4>3, OneSum
      <4> QED BY <4>4 DEF r
    <3> HIDE DEF G
    <3> QED BY <3>2, <3>3
  <2>2. ASSUME NEW s \in SUBSET T
        PROVE  h[s] = IF s = {} THEN 0 ELSE f[Any(s)] + h[s \ {Any(s)}]
    <3>1. ASSUME s # {}
          PROVE  s \ {Any(s)} \in SUBSET T /\ s \ {Any(s)} # T
      BY <3>1, AnyIn
    <3> HIDE DEF G
    <3> QED BY <2>1, <3>1
  <2>3. h = [s \in SUBSET T |-> h[s]]
    OBVIOUS
  <2> HIDE DEF h
  <2>4. AddsUp(h, f, T)
    BY <2>2, <2>3 DEF AddsUp
  <2> QED BY <2>4
<1>2. S \in W
  <2>1. W \subseteq SUBSET S
    OBVIOUS
  <2> HIDE DEF W
  <2>2. W = SUBSET S
    BY <1>1, <2>1, SubsetInduction
  <2> QED BY <2>2
<1> QED BY <1>2

\* The sum over a finite set: zero, or that of any element and of the others.
LEMMA SumTaken ==
    ASSUME NEW S, IsFiniteSet(S), NEW f
    PROVE  SumOver(f, S) = IF S = {} THEN 0 ELSE f[Any(S)] + SumOver(f, S \ {Any(S)})
<1> DEFINE G(T) == CHOOSE g : AddsUp(g, f, T)
<1>1. AddsUp(G(S), f, S)
  BY SumExists
<1>2. G(S)[S] = IF S = {} THEN 0 ELSE f[Any(S)] + G(S)[S \ {Any(S)}]
  BY <1>1 DEF AddsUp
<1>3. ASSUME S # {} PROVE G(S)[S \ {Any(S)}] = G(S \ {Any(S)})[S \ {Any(S)}]
  <2> DEFINE r == S \ {Any(S)}
  <2>1. r \in SUBSET S /\ IsFiniteSet(r)
    BY FS_Subset
  <2>2. AddsUp(G(r), f, r)
    BY <2>1, SumExists
  <2> HIDE DEF r, G
  <2>3. AddsUp([u \in SUBSET r |-> G(S)[u]], f, r)
    BY <1>1, <2>1, SumBelow
  <2>4. [u \in SUBSET r |-> G(S)[u]] = G(r)
    BY <2>1, <2>2, <2>3, OneSum
  <2> QED BY <2>4 DEF r
<1> HIDE DEF G
<1>4. SumOver(f, S) = G(S)[S] /\ SumOver(f, S \ {Any(S)}) = G(S \ {Any(S)})[S \ {Any(S)}]
  BY SumIs DEF G
<1> QED BY <1>2, <1>3, <1>4

LEMMA SumInNat ==
    ASSUME NEW S, IsFiniteSet(S), NEW f, \A x \in S : f[x] \in Nat
    PROVE  SumOver(f, S) \in Nat
<1> DEFINE W == {T \in SUBSET S : SumOver(f, T) \in Nat}
<1>1. ASSUME NEW T \in SUBSET S, \A U \in SUBSET T : U # T => U \in W
      PROVE  T \in W
  <2>1. IsFiniteSet(T)
    BY FS_Subset
  <2>2. SumOver(f, T) = IF T = {} THEN 0 ELSE f[Any(T)] + SumOver(f, T \ {Any(T)})
    BY <2>1, SumTaken
  <2>3. T # {} => Any(T) \in T /\ T \ {Any(T)} \in W
    BY <1>1, AnyIn
  <2> QED BY <2>2, <2>3
<1>2. W = SUBSET S
  <2>1. W \subseteq SUBSET S
    OBVIOUS
  <2> HIDE DEF W
  <2> QED BY <1>1, <2>1, SubsetInduction
<1> QED BY <1>2

\* The order in which the elements are taken does not matter.
LEMMA SumSplit ==
    ASSUME NEW S, IsFiniteSet(S), NEW f, \A x \in S : f[x] \in Nat, NEW x \in S
    PROVE  SumOver(f, S) = f[x] + SumOver(f, S \ {x})
<1> DEFINE W == {T \in SUBSET S : \A y \in T : SumOver(f, T) = f[y] + SumOver(f, T \ {y})}
<1>1. ASSUME NEW T \in SUBSET S, \A U \in SUBSET T : U # T => U \in W
      PROVE  T \in W
  <2>1. SUFFICES ASSUME NEW y \in T PROVE SumOver(f, T) = f[y] + SumOver(f, T \ {y})
    OBVIOUS
  <2> DEFINE c == Any(T)
  <2>2. c \in T /\ IsFiniteSet(T)
    BY AnyIn, FS_Subset
  <2>3. SumOver(f, T) = f[c] + SumOver(f, T \ {c})
    BY <2>2, SumTaken
  <2> HIDE DEF c
  <2>4. CASE y = c
    BY <2>3, <2>4
  <2>5. CASE y # c
    <3> DEFINE r == T \ {c, y}
    <3>1. T \ {c} \in W /\ T \ {y} \in W
      BY <1>1, <2>2
    <3>2. (T \ {c}) \ {y} = r /\ (T \ {y}) \ {c} = r /\ y \in T \ {c} /\ c \in T \ {y}
      BY <2>2, <2>5
    <3>3. SumOver(f, T \ {c}) = f[y] + SumOver(f, r) /\ SumOver(f, T \ {y}) = f[c] + SumOver(f, r)
      BY <3>1, <3>2
    <3>4. SumOver(f, r) \in Nat
      <4>1. r \in SUBSET S /\ IsFiniteSet(r)
        BY FS_Subset
      <4> QED BY <4>1, SumInNat
    <3>5. f[c] \in Nat /\ f[y] \in Nat
      BY <2>2
    <3> HIDE DEF r
    <3> QED BY <2>3, <3>3, <3>4, <3>5
  <2> QED BY <2>4, <2>5
<1>2. S \in W
  <2>1. W \subseteq SUBSET S
    OBVIOUS
  <2> HIDE DEF W
  <2>2. W = SUBSET S
    BY <1>1, <2>1, SubsetInduction
  <2> QED BY <2>2
<1> QED BY <1>2

\* Of two functions, the greater has the greater sum.
LEMMA SumMonotone ==
    ASSUME NEW S, IsFiniteSet(S), NEW f, NEW g,
           \A x \in S : f[x] \in Nat /\ g[x] \in Nat /\ f[x] <= g[x]
    PROVE  SumOver(f, S) <= SumOver(g, S)
<1> DEFINE W == {T \in SUBSET S : SumOver(f, T) <= SumOver(g, T)}
<1>1. ASSUME NEW T \in SUBSET S, \A U \in SUBSET T : U # T => U \in W
      PROVE  T \in W
  <2>1. IsFiniteSet(T)
    BY FS_Subset
  <2>2. /\ SumOver(f, T) = IF T = {} THEN 0 ELSE f[Any(T)] + SumOver(f, T \ {Any(T)})
        /\ SumOver(g, T) = IF T = {} THEN 0 ELSE g[Any(T)] + SumOver(g, T \ {Any(T)})
    BY <2>1, SumTaken
  <2>3. CASE T = {}
    BY <2>2, <2>3
  <2>4. CASE T # {}
    <3>1. Any(T) \in T /\ T \ {Any(T)} \in W /\ T \ {Any(T)} \in SUBSET S
      BY <1>1, <2>4, AnyIn
    <3>2. IsFiniteSet(T \ {Any(T)})
      BY <3>1, FS_Subset
    <3>3. SumOver(f, T \ {Any(T)}) \in Nat /\ SumOver(g, T \ {Any(T)}) \in Nat
      BY <3>1, <3>2, SumInNat
    <3>4. f[Any(T)] \in Nat /\ g[Any(T)] \in Nat /\ f[Any(T)] <= g[Any(T)]
      BY <3>1
    <3> QED BY <2>2, <2>4, <3>1, <3>3, <3>4
  <2> QED BY <2>3, <2>4
<1>2. S \in W
  <2>1. W \subseteq SUBSET S
    OBVIOUS
  <2> HIDE DEF W
  <2>2. W = SUBSET S
    BY <1>1, <2>1, SubsetInduction
  <2> QED BY <2>2
<1> QED BY <1>2

LEMMA SumSame ==
    ASSUME NEW S, IsFiniteSet(S), NEW f, NEW g, \A x \in S : f[x] \in Nat /\ g[x] = f[x]
    PROVE  SumOver(f, S) = SumOver(g, S)
<1>1. SumOver(f, S) <= SumOver(g, S) /\ SumOver(g, S) <= SumOver(f, S)
  BY SumMonotone
<1>2. SumOver(f, S) \in Nat /\ SumOver(g, S) \in Nat
  BY SumInNat
<1> QED BY <1>1, <1>2

\* Where only one summand grows, the sum grows by as much.
LEMMA SumRaised ==
    ASSUME NEW S, IsFiniteSet(S), NEW f, NEW g, NEW x \in S, NEW d \in Nat,
           \A y \in S : f[y] \in Nat,
           g[x] = f[x] + d, \A y \in S \ {x} : g[y] = f[y]
    PROVE  SumOver(g, S) = SumOver(f, S) + d
<1>1. IsFiniteSet(S \ {x})
  BY FS_Subset
<1>2. \A y \in S : g[y] \in Nat
  OBVIOUS
<1>3. SumOver(f, S) = f[x] + SumOver(f, S \ {x}) /\ SumOver(g, S) = g[x] + SumOver(g, S \ {x})
  BY <1>2, SumSplit
<1>4. SumOver(f, S \ {x}) = SumOver(g, S \ {x})
  BY <1>1, SumSame
<1>5. SumOver(f, S \ {x}) \in Nat /\ f[x] \in Nat
  BY <1>1, SumInNat
<1> QED BY <1>3, <1>4, <1>5

\* What is added up besides a part of the set only adds to its sum, and nothing
\* where there is nothing.
LEMMA SumOfPart ==
    ASSUME NEW S, IsFiniteSet(S), NEW f, \A x \in S : f[x] \in Nat, NEW P \in SUBSET S
    PROVE  /\ SumOver(f, P) <= SumOver(f, S)
           /\ (\A x \in S \ P : f[x] = 0) => SumOver(f, P) = SumOver(f, S)
<1> DEFINE Fine(T) == /\ SumOver(f, P) <= SumOver(f, T)
                      /\ (\A x \in T \ P : f[x] = 0) => SumOver(f, P) = SumOver(f, T)
           W == {T \in SUBSET S : P \subseteq T => Fine(T)}
<1>0. ASSUME NEW T \in SUBSET S PROVE IsFiniteSet(T) /\ SumOver(f, T) \in Nat
  <2>1. IsFiniteSet(T)
    BY FS_Subset
  <2> QED BY <2>1, SumInNat
<1>1. ASSUME NEW T \in SUBSET S, \A U \in SUBSET T : U # T => U \in W
      PROVE  T \in W
  <2>1. SUFFICES ASSUME P \subseteq T, P # T PROVE Fine(T)
    BY <1>0
  <2>2. PICK x \in T : x \notin P
    BY <2>1
  <2>3. T \ {x} \in W /\ P \subseteq T \ {x}
    BY <1>1, <2>1, <2>2
  <2>4. SumOver(f, T) = f[x] + SumOver(f, T \ {x})
    BY <1>0, <2>2, SumSplit
  <2>5. f[x] \in Nat /\ SumOver(f, T \ {x}) \in Nat /\ SumOver(f, P) \in Nat
    BY <1>0, <2>2
  <2> QED BY <2>2, <2>3, <2>4, <2>5
<1>2. S \in W
  <2>1. W \subseteq SUBSET S
    OBVIOUS
  <2> HIDE DEF W
  <2>2. W = SUBSET S
    BY <1>1, <2>1, SubsetInduction
  <2> QED BY <2>2
<1> QED BY <1>2

LEMMA SumZero ==
    ASSUME NEW S, IsFiniteSet(S), NEW f, \A x \in S : f[x] = 0
    PROVE  SumOver(f, S) = 0
<1>1. SumOver(f, {}) = 0
  BY SumTaken, FS_EmptySet
<1>2. SumOver(f, {}) = SumOver(f, S)
  BY SumOfPart
<1> QED BY <1>1, <1>2

-----------------------------------------------------------------------------
(* The helpers. *)

\* A purge lowers no byte that has not expired, and raises none.
LEMMA PurgedKeeps ==
    ASSUME NEW h \in Histories, now \in Times
    PROVE  /\ Purged(h) \in Histories
           /\ \A n \in NICs, t \in Times :
                /\ Purged(h)[n][t] <= h[n][t]
                /\ t + Retention >= now => Purged(h)[n][t] = h[n][t]
<1>1. Purged(h) \in Histories
  BY DEF Purged, Histories
<1>2. ASSUME NEW n \in NICs, NEW t \in Times
      PROVE  /\ Purged(h)[n][t] = IF t + Retention >= now THEN h[n][t] ELSE 0
             /\ h[n][t] \in Nat
  BY DEF Purged, Histories
<1>3. QED BY <1>1, <1>2

\* A flush loses nothing that has not expired.
LEMMA FlushKeeps ==
    ASSUME TypeOK, NEW stamp \in Times, Flush(stamp)
    PROVE  /\ hist' \in Histories /\ cache' = EmptyCache
           /\ \A n \in NICs, t \in Times :
                t + Retention >= now => hist'[n][t] >= hist[n][t]
<1> DEFINE h == [n \in NICs |-> [hist[n] EXCEPT ![stamp] = @ + cache[n].sum]]
<1>1. h \in Histories
  <2>1. ASSUME NEW n \in NICs PROVE hist[n] \in [Times -> Nat] /\ cache[n].sum \in Nat
    BY DEF TypeOK, Histories
  <2>2. ASSUME NEW n \in NICs
        PROVE  [hist[n] EXCEPT ![stamp] = @ + cache[n].sum] \in [Times -> Nat]
    BY <2>1
  <2>3. QED BY <2>2 DEF Histories
<1>2. ASSUME NEW n \in NICs, NEW t \in Times PROVE h[n][t] >= hist[n][t]
  <2>1. hist[n] \in [Times -> Nat] /\ cache[n].sum \in Nat
    BY DEF TypeOK, Histories
  <2>2. h[n][t] = IF t = stamp THEN hist[n][t] + cache[n].sum ELSE hist[n][t]
    BY <2>1
  <2>3. QED BY <2>1, <2>2
<1>3. hist' = Purged(h) /\ cache' = EmptyCache
  BY DEF Flush
<1> HIDE DEF h
<1>4. now \in Times
  BY DEF TypeOK
<1>5. QED BY <1>1, <1>2, <1>3, <1>4, PurgedKeeps

\* A save leaves the file as it was, or with the history as it now is.
LEMMA SaveKeeps ==
    ASSUME TypeOK, InMemory, hist' \in Histories, nics' \subseteq NICs, Save
    PROVE  /\ file' \in {"absent", "good", "bad"} /\ disk' \in Histories
           /\ diskNics' \subseteq NICs /\ saved' \in BOOLEAN
           /\ saved' => \A n \in NICs, t \in Times : hist'[n][t] <= disk'[n][t]
           /\ file' # "good" => disk' = NoHistory
           /\ disk' = hist' \/ disk' = disk
<1>1. ASSUME NEW n \in NICs, NEW t \in Times PROVE hist'[n][t] \in Nat
  BY DEF Histories
<1>2. CASE disk' = hist' /\ file' = "good" /\ diskNics' = nics' /\ saved' = TRUE
  BY <1>1, <1>2
<1>3. CASE saved' = FALSE /\ UNCHANGED <<file, disk, diskNics>>
  BY <1>3 DEF TypeOK, InMemory
<1>4. QED BY <1>2, <1>3 DEF Save

LEMMA EmptyCacheHolds ==
    /\ EmptyCache \in [NICs -> [at : [Times -> Nat], sum : Nat]]
    /\ \A n \in NICs, t \in Times : EmptyCache[n].at[t] = 0
BY DEF EmptyCache, NoBytes

LEMMA NoHistoryHolds ==
    /\ NoHistory \in Histories
    /\ \A n \in NICs, t \in Times : NoHistory[n][t] = 0
BY DEF NoHistory, NoBytes, Histories

\* A Start of a tracker that does not run finds it empty, and takes over the
\* allowlist with the history.
LEMMA StartKeeps ==
    ASSUME TypeOK, Fresh, OnDisk, InMemory, StartSucceeds
    PROVE  /\ running' = TRUE /\ loaded' = TRUE /\ tick' = None /\ since' = 0
           /\ cache' = EmptyCache /\ last' = last /\ ~running
           /\ hist' \in Histories /\ nics' \subseteq NICs
           /\ file' \in {"absent", "good", "bad"}
           /\ disk' = disk /\ diskNics' = diskNics /\ saved' = saved
           /\ file' # "good" => disk = NoHistory
           /\ \A n \in NICs, t \in Times :
                /\ saved => hist'[n][t] <= disk[n][t]
                /\ t + Retention >= now => hist'[n][t] >= disk[n][t]
<1>1. ~running /\ running' = TRUE /\ loaded' = TRUE /\ tick' = None /\ since' = 0
      /\ cache' = EmptyCache /\ last' = last
  BY DEF StartSucceeds, Fresh
<1>2. hist \in Histories /\ disk \in Histories /\ now \in Times
  BY DEF TypeOK
<1>3. ASSUME NEW h \in Histories, NEW n \in NICs, NEW t \in Times PROVE h[n][t] \in Nat
  BY DEF Histories
<1>4. CASE file = "good" /\ hist' = Purged(disk) /\ nics' = diskNics /\ UNCHANGED stored
  <2>1. file' = file /\ disk' = disk /\ diskNics' = diskNics /\ saved' = saved
    BY <1>4 DEF stored
  <2>2. hist' \in Histories
        /\ \A n \in NICs, t \in Times :
             /\ hist'[n][t] <= disk[n][t]
             /\ t + Retention >= now => hist'[n][t] = disk[n][t]
    BY <1>2, <1>4, PurgedKeeps
  <2>3. \A n \in NICs, t \in Times : t + Retention >= now => hist'[n][t] >= disk[n][t]
    BY <1>2, <1>3, <2>2
  <2>4. nics' \subseteq NICs /\ file' \in {"absent", "good", "bad"}
    BY <1>4, <2>1 DEF TypeOK
  <2>5. QED BY <1>1, <1>4, <2>1, <2>2, <2>3, <2>4
<1>5. CASE /\ file # "good" /\ file' \in {file, "absent"}
           /\ UNCHANGED <<hist, nics, disk, diskNics, saved>>
  <2>1. disk = NoHistory
    BY <1>5 DEF InMemory
  <2>2. \A n \in NICs, t \in Times : hist'[n][t] >= disk[n][t]
    BY <1>2, <1>3, <1>5, <2>1, NoHistoryHolds
  <2>3. file' \in {"absent", "good", "bad"} /\ nics' \subseteq NICs
    BY <1>5 DEF TypeOK
  <2>4. \A n \in NICs, t \in Times : saved => hist'[n][t] <= disk[n][t]
    BY <1>5 DEF OnDisk
  <2>5. QED BY <1>1, <1>2, <1>5, <2>1, <2>2, <2>3, <2>4
<1>6. QED BY <1>4, <1>5 DEF StartSucceeds, Load

\* InitStart and ReportStart: what both make of the invariant.
LEMMA StartPreserves ==
    ASSUME TrackerInv, StartSucceeds, phase \notin {"closed"},
           phase' \in {"configure", "up"}, UNCHANGED <<outside, observed>>
    PROVE  TrackerInv'
<1>1. TypeOK /\ Fresh /\ OnDisk /\ InMemory
  BY DEF TrackerInv
<1>2. now' = now /\ wire' = wire /\ counter' = counter /\ observed' = observed
  BY DEF outside
<1>3. TypeOK'
  <2>1. now' \in Times /\ wire' \in [NICs -> Nat] /\ counter' \in [NICs -> Nat]
        /\ observed' \in Histories /\ phase' \in {"start", "configure", "up", "closed"}
    BY <1>1, <1>2 DEF TypeOK
  <2>2. /\ running' \in BOOLEAN /\ loaded' \in BOOLEAN /\ nics' \subseteq NICs
        /\ hist' \in Histories /\ tick' \in Times \cup {None}
        /\ file' \in {"absent", "good", "bad"}
    BY <1>1, StartKeeps
  <2>3. last' \in [NICs -> Nat \cup {None}] /\ disk' \in Histories
        /\ diskNics' \subseteq NICs /\ saved' \in BOOLEAN
    BY <1>1, StartKeeps DEF TypeOK
  <2>4. cache' \in [NICs -> [at : [Times -> Nat], sum : Nat]]
    BY <1>1, StartKeeps, EmptyCacheHolds
  <2>5. since' \in 0..SaveEvery
    BY <1>1, StartKeeps, Constants DEF ConstantsInNat
  <2>6. QED BY <2>1, <2>2, <2>3, <2>4, <2>5 DEF TypeOK
<1>4. Fresh'
  BY <1>1, StartKeeps DEF Fresh
<1>5. Age'
  BY <1>1, StartKeeps, EmptyCacheHolds DEF Age
<1>6. OnDisk'
  BY <1>1, StartKeeps DEF OnDisk
<1>7. InMemory'
  BY <1>1, <1>2, StartKeeps DEF InMemory
<1>8. AllowedOnly'
  <2>1. \A n \in NICs : last[n] = None
    BY <1>1, StartKeeps DEF Fresh
  <2>2. cache' = EmptyCache /\ last' = last
    BY <1>1, StartKeeps
  <2>3. QED BY <2>1, <2>2 DEF AllowedOnly
<1>9. QED BY <1>3, <1>4, <1>5, <1>6, <1>7, <1>8 DEF TrackerInv

-----------------------------------------------------------------------------
(* The steps. *)

LEMMA InitInv == Init => TrackerInv
<1> SUFFICES ASSUME Init PROVE TrackerInv
  OBVIOUS
<1> USE DEF Init
<1>1. TypeOK
  <2>1. now \in Times /\ since \in 0..SaveEvery
    BY Constants DEF Times, ConstantsInNat
  <2>2. wire \in [NICs -> Nat] /\ counter \in [NICs -> Nat]
        /\ last \in [NICs -> Nat \cup {None}]
    OBVIOUS
  <2>3. observed \in Histories /\ hist \in Histories /\ disk \in Histories
    BY NoHistoryHolds
  <2>4. cache \in [NICs -> [at : [Times -> Nat], sum : Nat]]
    BY EmptyCacheHolds
  <2>5. QED BY <2>1, <2>2, <2>3, <2>4 DEF TypeOK
<1>2. Age
  BY EmptyCacheHolds DEF Age
<1>3. OnDisk /\ InMemory
  BY NoHistoryHolds, Constants DEF OnDisk, InMemory
<1>4. Fresh /\ AllowedOnly
  BY DEF Fresh, AllowedOnly
<1>5. QED BY <1>1, <1>2, <1>3, <1>4 DEF TrackerInv

LEMMA TimeStep == TrackerInv /\ TimePasses => TrackerInv'
<1> SUFFICES ASSUME TrackerInv, TimePasses PROVE TrackerInv'
  OBVIOUS
<1> USE DEF TrackerInv
<1>1. UNCHANGED <<wire, counter, observed, phase, running, loaded, nics, hist, cache,
                  last, tick, file, disk, diskNics, saved>>
  BY DEF TimePasses, memory, stored
<1>2. now \in Nat /\ now' = now + 1 /\ now' \in Times /\ since \in Nat
  BY Constants DEF TimePasses, TypeOK, Times, ConstantsInNat
<1>3. /\ running => since < SaveEvery /\ since' = since + 1
      /\ running /\ tick # None => now < tick + MaxLag
      /\ ~running => since' = since
  BY DEF TimePasses
<1>4. since' \in 0..SaveEvery
  BY <1>3, Constants DEF TypeOK, ConstantsInNat
<1>5. TypeOK'
  BY <1>1, <1>2, <1>4 DEF TypeOK
<1>6. Fresh' /\ OnDisk' /\ AllowedOnly'
  BY <1>1 DEF Fresh, OnDisk, AllowedOnly
<1>7. Age'
  <2>1. ASSUME tick # None PROVE tick <= now' /\ now' <= tick + MaxLag
    <3>1. tick \in Nat /\ running
      BY <2>1 DEF TypeOK, Times, Fresh
    <3>2. QED BY <1>2, <1>3, <2>1, <3>1, Constants DEF Age, ConstantsInNat
  <2>2. ASSUME NEW n \in NICs, NEW t \in Times, cache[n].at[t] > 0
        PROVE  IF tick = None THEN now' <= t + since' ELSE tick <= t + SaveEvery
    <3>1. running
      BY <2>2, EmptyCacheHolds DEF Fresh
    <3>2. t \in Nat
      BY DEF Times
    <3>3. QED BY <1>2, <1>3, <2>2, <3>1, <3>2 DEF Age
  <2>3. QED BY <1>1, <2>1, <2>2 DEF Age
<1>8. InMemory'
  <2>1. ASSUME loaded, NEW n \in NICs, NEW t \in Times, t + Retention >= now'
        PROVE  hist[n][t] >= disk[n][t]
    <3>1. t + Retention >= now
      BY <1>2, <2>1, Constants DEF ConstantsInNat, Times
    <3>2. QED BY <2>1, <3>1 DEF InMemory
  <2>2. QED BY <1>1, <2>1 DEF InMemory
<1>9. QED BY <1>5, <1>6, <1>7, <1>8

LEMMA WorldStep ==
    ASSUME TrackerInv, NEW n \in NICs, Carry(n) \/ CounterRestarts(n) PROVE TrackerInv'
<1> USE DEF TrackerInv
<1>1. wire' \in [NICs -> Nat] /\ counter' \in [NICs -> Nat]
  <2>1. wire \in [NICs -> Nat] /\ counter \in [NICs -> Nat]
    BY DEF TypeOK
  <2>2. CASE Carry(n)
    BY <2>1, <2>2 DEF Carry
  <2>3. CASE CounterRestarts(n)
    BY <2>1, <2>3 DEF CounterRestarts
  <2>4. QED BY <2>2, <2>3
<1>2. UNCHANGED <<now, observed, phase, memory, ticks, stored>>
  BY DEF Carry, CounterRestarts
<1>3. TypeOK'
  BY <1>1, <1>2 DEF TypeOK, memory, ticks, stored
<1>4. QED
  BY <1>2, <1>3 DEF Fresh, Age, OnDisk, InMemory, AllowedOnly, memory, ticks, stored

LEMMA StartStep == TrackerInv /\ (InitStart \/ ReportStart) => TrackerInv'
<1> SUFFICES ASSUME TrackerInv, InitStart \/ ReportStart PROVE TrackerInv'
  OBVIOUS
<1>1. UNCHANGED <<outside, observed>> /\ phase # "closed" /\ phase' \in {"configure", "up"}
  BY DEF InitStart, ReportStart
<1>2. CASE StartSucceeds
  BY <1>1, <1>2, StartPreserves
<1>3. CASE StartFails
  <2>1. ~running /\ UNCHANGED <<now, wire, counter, observed, memory, ticks, stored>>
    BY <1>1, <1>3 DEF StartFails, outside
  <2>2. QED
    BY <1>1, <2>1 DEF TrackerInv, TypeOK, Fresh, Age, OnDisk, InMemory, AllowedOnly,
                      memory, ticks, stored
<1>4. QED BY <1>2, <1>3 DEF InitStart, ReportStart

LEMMA ConfigureStep ==
    ASSUME TrackerInv, NEW S \in SUBSET NICs, ConfigureNICs(S) PROVE TrackerInv'
<1> DEFINE kept == IF running /\ S # {} THEN S ELSE NICs
<1>1. TypeOK /\ Fresh /\ Age /\ OnDisk /\ InMemory /\ AllowedOnly
  BY DEF TrackerInv
<1>2. /\ phase = "configure" /\ phase' = "up" /\ nics' = S /\ hist' = Purged(hist) /\ Save
      /\ last' = [n \in NICs |-> IF n \in kept THEN last[n] ELSE None]
      /\ cache' = [n \in NICs |-> IF n \in kept THEN cache[n] ELSE EmptyCache[n]]
  BY DEF ConfigureNICs
<1>3. UNCHANGED <<now, wire, counter, observed, running, loaded, since, tick>>
  BY DEF ConfigureNICs, outside, ticks
<1>4. hist \in Histories /\ now \in Times
  BY <1>1 DEF TypeOK
<1>5. hist' \in Histories
      /\ \A n \in NICs, t \in Times : t + Retention >= now => hist'[n][t] = hist[n][t]
  BY <1>2, <1>4, PurgedKeeps
<1>6. /\ file' \in {"absent", "good", "bad"} /\ disk' \in Histories
      /\ diskNics' \subseteq NICs /\ saved' \in BOOLEAN
      /\ saved' => \A n \in NICs, t \in Times : hist'[n][t] <= disk'[n][t]
      /\ file' # "good" => disk' = NoHistory
      /\ disk' = hist' \/ disk' = disk
  BY <1>1, <1>2, <1>5, SaveKeeps
<1>7. last' \in [NICs -> Nat \cup {None}]
      /\ cache' \in [NICs -> [at : [Times -> Nat], sum : Nat]]
      /\ \A n \in NICs : cache'[n] \in {cache[n], EmptyCache[n]} /\ last'[n] \in {last[n], None}
  BY <1>1, <1>2, EmptyCacheHolds DEF TypeOK
<1> HIDE DEF kept
<1>8. TypeOK'
  BY <1>1, <1>2, <1>3, <1>5, <1>6, <1>7 DEF TypeOK
<1>9. Fresh'
  <2>1. ASSUME ~running PROVE cache' = EmptyCache /\ \A n \in NICs : last'[n] = None
    BY <1>1, <1>2, <1>7, <2>1 DEF Fresh, EmptyCache
  <2>2. QED BY <1>1, <1>2, <1>3, <2>1 DEF Fresh
<1>10. Age'
  BY <1>1, <1>3, <1>7, EmptyCacheHolds DEF Age
<1>11. OnDisk'
  BY <1>6 DEF OnDisk
<1>12. InMemory'
  <2>1. \A n \in NICs, t \in Times : hist'[n][t] \in Nat /\ hist[n][t] \in Nat
    BY <1>4, <1>5 DEF Histories
  <2>2. QED BY <1>1, <1>3, <1>5, <1>6, <2>1 DEF InMemory
<1>13. AllowedOnly'
  <2>1. ASSUME S # {}, NEW n \in NICs \ S
        PROVE  cache'[n] = EmptyCache[n] /\ last'[n] = None
    <3>1. CASE running
      BY <1>2, <2>1, <3>1 DEF kept
    <3>2. CASE ~running
      BY <1>1, <1>2, <1>7, <3>2 DEF Fresh
    <3>3. QED BY <3>1, <3>2
  <2>2. QED BY <1>2, <2>1 DEF AllowedOnly
<1>14. QED BY <1>8, <1>9, <1>10, <1>11, <1>12, <1>13 DEF TrackerInv

LEMMA SampleStep ==
    ASSUME TrackerInv, NEW S \in SUBSET NICs, Sample(S) PROVE TrackerInv'
<1> DEFINE seen == {n \in S : Allowed(n)}
<1> DEFINE delta == [n \in NICs |-> IF n \in seen /\ last[n] # None
                                      THEN Delta(counter[n], last[n]) ELSE 0]
<1>1. TypeOK /\ Fresh /\ Age /\ OnDisk /\ InMemory /\ AllowedOnly
  BY DEF TrackerInv
<1>2. /\ running
      /\ last' = [n \in NICs |-> IF n \in seen THEN counter[n] ELSE last[n]]
      /\ cache' = [n \in NICs |-> [at |-> [cache[n].at EXCEPT ![now] = @ + delta[n]],
                                   sum |-> cache[n].sum + delta[n]]]
      /\ observed' = [n \in NICs |-> [observed[n] EXCEPT ![now] = @ + delta[n]]]
  BY DEF Sample
<1>3. UNCHANGED <<now, wire, counter, phase, running, loaded, nics, hist, since, tick,
                  file, disk, diskNics, saved>>
  BY DEF Sample, outside, ticks, stored
<1>4. ASSUME NEW n \in NICs PROVE delta[n] \in Nat /\ (n \notin seen => delta[n] = 0)
  BY <1>1 DEF TypeOK, Delta
<1> HIDE DEF delta
<1>5. last' \in [NICs -> Nat \cup {None}]
  BY <1>1, <1>2 DEF TypeOK
<1>6. ASSUME NEW n \in NICs
      PROVE  /\ cache[n] \in [at : [Times -> Nat], sum : Nat]
             /\ cache[n].at \in [Times -> Nat] /\ cache[n].sum \in Nat
             /\ observed[n] \in [Times -> Nat]
  BY <1>1 DEF TypeOK, Histories
<1>7. ASSUME NEW n \in NICs
      PROVE  /\ cache'[n].at = [cache[n].at EXCEPT ![now] = @ + delta[n]]
             /\ cache'[n].sum = cache[n].sum + delta[n]
             /\ observed'[n] = [observed[n] EXCEPT ![now] = @ + delta[n]]
  BY <1>2
<1>8. now \in Times
  BY <1>1 DEF TypeOK
<1>9. ASSUME NEW n \in NICs
      PROVE  /\ cache'[n].at \in [Times -> Nat] /\ cache'[n].sum \in Nat
             /\ observed'[n] \in [Times -> Nat]
             /\ \A t \in Times : cache'[n].at[t] =
                                 IF t = now THEN cache[n].at[t] + delta[n] ELSE cache[n].at[t]
  <2>1. /\ cache[n].at \in [Times -> Nat] /\ cache[n].sum \in Nat
        /\ observed[n] \in [Times -> Nat] /\ delta[n] \in Nat
    BY <1>4, <1>6
  <2>2. cache'[n].at = [cache[n].at EXCEPT ![now] = @ + delta[n]]
    BY <1>7
  <2>3. cache'[n].sum = cache[n].sum + delta[n]
    BY <1>7
  <2>4. observed'[n] = [observed[n] EXCEPT ![now] = @ + delta[n]]
    BY <1>7
  <2>5. cache'[n].sum \in Nat
    BY <2>1, <2>3
  <2>6. QED BY <1>8, <2>1, <2>2, <2>4, <2>5
<1>10. TypeOK'
  <2>1. cache' \in [NICs -> [at : [Times -> Nat], sum : Nat]]
    <3>1. \A n \in NICs : cache'[n] \in [at : [Times -> Nat], sum : Nat]
      BY <1>2, <1>7, <1>9
    <3>2. QED BY <1>2, <3>1
  <2>2. observed' \in Histories
    BY <1>2, <1>9 DEF Histories
  <2>3. QED BY <1>1, <1>3, <1>5, <2>1, <2>2 DEF TypeOK
<1>11. Fresh' /\ OnDisk' /\ InMemory'
  BY <1>1, <1>2, <1>3 DEF Fresh, OnDisk, InMemory
<1>12. Age'
  <2>1. since \in Nat /\ now \in Nat /\ SaveEvery \in Nat /\ (tick # None => tick \in Nat)
    BY <1>1, Constants DEF TypeOK, Times, ConstantsInNat
  <2>2. ASSUME NEW n \in NICs, NEW t \in Times, cache'[n].at[t] > 0
        PROVE  IF tick = None THEN now <= t + since ELSE tick <= t + SaveEvery
    <3>1. CASE t = now
      BY <1>1, <2>1, <3>1 DEF Age
    <3>2. CASE t # now
      BY <1>1, <1>9, <2>2, <3>2 DEF Age
    <3>3. QED BY <3>1, <3>2
  <2>3. QED BY <1>1, <1>3, <2>2 DEF Age
<1>13. AllowedOnly'
  <2>1. ASSUME nics # {}, NEW n \in NICs \ nics
        PROVE  cache'[n] = EmptyCache[n] /\ last'[n] = None
    <3>1. n \notin seen /\ cache[n] = EmptyCache[n] /\ last[n] = None
      BY <1>1, <2>1 DEF Allowed, AllowedOnly
    <3>2. delta[n] = 0
      BY <1>4, <3>1
    <3>3. EmptyCache[n] = [at |-> NoBytes, sum |-> 0]
      BY DEF EmptyCache
    <3>4. cache[n].at = NoBytes /\ cache[n].sum = 0
      BY <3>1, <3>3
    <3>5. cache'[n].sum = 0
      <4>1. cache'[n].sum = cache[n].sum + delta[n]
        BY <1>7
      <4>2. QED BY <4>1, <3>2, <3>4
    <3>6. cache'[n].at = NoBytes
      <4>1. cache'[n].at \in [Times -> Nat] /\ NoBytes \in [Times -> Nat]
        BY <1>9 DEF NoBytes
      <4>2. \A t \in Times : cache'[n].at[t] = NoBytes[t]
        BY <1>9, <3>2, <3>4 DEF NoBytes
      <4>3. QED BY <4>1, <4>2
    <3>7. QED BY <1>2, <1>7, <3>1, <3>3, <3>5, <3>6
  <2>2. QED BY <1>3, <2>1 DEF AllowedOnly
<1>14. QED BY <1>10, <1>11, <1>12, <1>13 DEF TrackerInv

LEMMA TicksStep == TrackerInv /\ SaveTicks => TrackerInv'
<1> SUFFICES ASSUME TrackerInv, SaveTicks PROVE TrackerInv'
  OBVIOUS
<1> USE DEF TrackerInv
<1>1. UNCHANGED <<now, wire, counter, observed, phase, running, loaded, nics, hist, cache,
                  last, file, disk, diskNics, saved>>
  BY DEF SaveTicks, outside, memory, stored
<1>2. /\ running /\ since = SaveEvery /\ since' = 0
      /\ tick' = IF tick = None THEN now ELSE tick
  BY DEF SaveTicks
<1>3. now \in Times /\ now \in Nat /\ now # None /\ (tick # None => tick \in Nat)
  BY Constants DEF TypeOK, Times
<1>4. TypeOK'
  BY <1>1, <1>2, <1>3, Constants DEF TypeOK, ConstantsInNat
<1>5. Fresh' /\ OnDisk' /\ InMemory' /\ AllowedOnly'
  BY <1>1, <1>2 DEF Fresh, OnDisk, InMemory, AllowedOnly
<1>6. Age'
  <2>1. tick' # None /\ tick' <= now /\ now <= tick' + MaxLag
    BY <1>2, <1>3, Constants DEF Age, ConstantsInNat
  <2>2. ASSUME NEW n \in NICs, NEW t \in Times, cache[n].at[t] > 0
        PROVE  tick' <= t + SaveEvery
    BY <1>2, <2>2 DEF Age
  <2>3. QED BY <1>1, <2>1, <2>2 DEF Age
<1>7. QED BY <1>4, <1>5, <1>6

\* What SaveLoop and Close have in common.
LEMMA FlushedSavePreserves ==
    ASSUME TrackerInv, NEW stamp \in Times, Flush(stamp), nics' = nics, Save,
           tick' = None, since' = since, loaded' = loaded, last' = last,
           running' \in BOOLEAN,
           UNCHANGED <<outside, observed>>,
           \/ phase' = phase /\ running /\ running'
           \/ phase' = "closed" /\ ~running'
    PROVE  TrackerInv'
<1>1. TypeOK /\ Fresh /\ Age /\ OnDisk /\ InMemory /\ AllowedOnly
  BY DEF TrackerInv
<1>2. now' = now /\ wire' = wire /\ counter' = counter /\ observed' = observed
  BY DEF outside
<1>3. /\ hist' \in Histories /\ cache' = EmptyCache
      /\ \A n \in NICs, t \in Times : t + Retention >= now => hist'[n][t] >= hist[n][t]
  BY <1>1, FlushKeeps
<1>4. nics' \subseteq NICs
  BY <1>1 DEF TypeOK
<1>5. /\ file' \in {"absent", "good", "bad"} /\ disk' \in Histories
      /\ diskNics' \subseteq NICs /\ saved' \in BOOLEAN
      /\ saved' => \A n \in NICs, t \in Times : hist'[n][t] <= disk'[n][t]
      /\ file' # "good" => disk' = NoHistory
      /\ disk' = hist' \/ disk' = disk
  BY <1>1, <1>3, <1>4, SaveKeeps
<1>6. TypeOK'
  BY <1>1, <1>2, <1>3, <1>4, <1>5, EmptyCacheHolds DEF TypeOK
<1>7. Fresh'
  BY <1>1, <1>3 DEF Fresh
<1>8. Age'
  BY <1>3, EmptyCacheHolds DEF Age
<1>9. OnDisk'
  BY <1>5 DEF OnDisk
<1>10. InMemory'
  <2>1. \A n \in NICs, t \in Times :
          hist'[n][t] \in Nat /\ hist[n][t] \in Nat /\ disk[n][t] \in Nat
    BY <1>1, <1>3 DEF TypeOK, Histories
  <2>2. ASSUME loaded, NEW n \in NICs, NEW t \in Times, t + Retention >= now
        PROVE  hist'[n][t] >= disk'[n][t]
    <3>1. hist'[n][t] >= hist[n][t] /\ hist[n][t] >= disk[n][t]
      BY <1>1, <1>3, <2>2 DEF InMemory
    <3>2. hist'[n][t] >= disk[n][t]
      BY <2>1, <3>1
    <3>3. QED BY <1>5, <2>1, <3>2
  <2>3. QED BY <1>2, <1>5, <2>2 DEF InMemory
<1>11. AllowedOnly'
  BY <1>1, <1>3 DEF AllowedOnly
<1>12. QED BY <1>6, <1>7, <1>8, <1>9, <1>10, <1>11 DEF TrackerInv

LEMMA SaveLoopStep == TrackerInv /\ SaveLoop => TrackerInv'
<1> SUFFICES ASSUME TrackerInv, SaveLoop PROVE TrackerInv'
  OBVIOUS
<1>1. tick \in Times /\ running \in BOOLEAN
  BY DEF TrackerInv, TypeOK, SaveLoop
<1>2. QED BY <1>1, FlushedSavePreserves DEF SaveLoop

LEMMA CloseStep == TrackerInv /\ Close => TrackerInv'
<1> SUFFICES ASSUME TrackerInv, Close PROVE TrackerInv'
  OBVIOUS
<1>1. CASE running
  <2>1. now \in Times
    BY DEF TrackerInv, TypeOK
  <2>2. QED BY <1>1, <2>1, FlushedSavePreserves DEF Close
<1>2. CASE ~running
  <2>1. /\ phase' = "closed" /\ tick' = None
        /\ UNCHANGED <<now, wire, counter, observed, since, running, loaded, nics, hist, cache,
                       last, file, disk, diskNics, saved>>
    BY <1>2 DEF Close, outside, memory, stored
  <2>2. QED
    BY <1>2, <2>1 DEF TrackerInv, TypeOK, Fresh, Age, OnDisk, InMemory, AllowedOnly
<1>3. QED BY <1>1, <1>2

LEMMA EndStep == TrackerInv /\ (ProcessEnds \/ PowerFails) => TrackerInv'
<1> SUFFICES ASSUME TrackerInv, ProcessEnds \/ PowerFails PROVE TrackerInv'
  OBVIOUS
<1>1. TypeOK /\ Fresh /\ Age /\ OnDisk /\ InMemory /\ AllowedOnly
  BY DEF TrackerInv
<1>2. CASE ProcessEnds
  <2>1. /\ phase' = "start" /\ ~running' /\ ~loaded' /\ nics' = {} /\ hist' = NoHistory
        /\ cache' = EmptyCache /\ last' = [n \in NICs |-> None] /\ since' = 0
        /\ tick' = None /\ saved' = TRUE /\ running' = FALSE /\ loaded' = FALSE
        /\ UNCHANGED <<now, wire, counter, observed, file, disk, diskNics>>
    BY <1>2 DEF ProcessEnds, outside
  <2>2. TypeOK'
    <3>1. since' \in 0..SaveEvery
      BY <2>1, Constants DEF ConstantsInNat
    <3>2. QED BY <1>1, <2>1, <3>1, EmptyCacheHolds, NoHistoryHolds DEF TypeOK
  <2>3. Fresh' /\ AllowedOnly' /\ InMemory'
    BY <1>1, <2>1 DEF Fresh, AllowedOnly, InMemory
  <2>4. Age'
    BY <2>1, EmptyCacheHolds DEF Age
  <2>5. OnDisk'
    <3>1. \A n \in NICs, t \in Times : disk[n][t] \in Nat
      BY <1>1 DEF TypeOK, Histories
    <3>2. QED BY <2>1, <3>1, NoHistoryHolds DEF OnDisk
  <2>6. QED BY <2>2, <2>3, <2>4, <2>5 DEF TrackerInv
<1>3. CASE PowerFails
  <2>1. /\ phase = "start" /\ file' \in {"absent", "bad"} /\ disk' = NoHistory /\ diskNics' = {}
        /\ UNCHANGED <<now, wire, counter, observed, phase, running, loaded, nics, hist, cache,
                       last, since, tick, saved>>
    BY <1>3 DEF PowerFails, outside, memory, ticks
  <2>2. TypeOK'
    BY <1>1, <2>1, NoHistoryHolds DEF TypeOK
  <2>3. Fresh' /\ Age' /\ AllowedOnly' /\ InMemory'
    BY <1>1, <2>1 DEF Fresh, Age, AllowedOnly, InMemory
  <2>4. OnDisk'
    <3>1. \A n \in NICs, t \in Times : hist'[n][t] = 0 /\ disk'[n][t] = 0
      BY <1>1, <2>1, NoHistoryHolds DEF Fresh
    <3>2. QED BY <3>1 DEF OnDisk
  <2>5. QED BY <2>2, <2>3, <2>4 DEF TrackerInv
<1>4. QED BY <1>2, <1>3

LEMMA InvStep == TrackerInv /\ [Next]_vars => TrackerInv'
<1> SUFFICES ASSUME TrackerInv, [Next]_vars PROVE TrackerInv'
  OBVIOUS
<1>1. CASE UNCHANGED vars
  BY <1>1 DEF TrackerInv, TypeOK, Fresh, Age, OnDisk, InMemory, AllowedOnly,
              vars, outside, memory, ticks, stored
<1>2. CASE TimePasses
  BY <1>2, TimeStep
<1>3. ASSUME NEW n \in NICs, Carry(n) \/ CounterRestarts(n) PROVE TrackerInv'
  BY <1>3, WorldStep
<1>4. CASE InitStart \/ ReportStart
  BY <1>4, StartStep
<1>5. ASSUME NEW S \in SUBSET NICs, ConfigureNICs(S) PROVE TrackerInv'
  BY <1>5, ConfigureStep
<1>6. ASSUME NEW S \in SUBSET NICs, Sample(S) PROVE TrackerInv'
  BY <1>6, SampleStep
<1>7. CASE SaveTicks
  BY <1>7, TicksStep
<1>8. CASE SaveLoop
  BY <1>8, SaveLoopStep
<1>9. CASE Close
  BY <1>9, CloseStep
<1>10. CASE ProcessEnds \/ PowerFails
  BY <1>10, EndStep
<1>11. QED
  BY <1>1, <1>2, <1>3, <1>4, <1>5, <1>6, <1>7, <1>8, <1>9, <1>10 DEF Next

\* TrackerInv is an invariant of the specification.
THEOREM Tracker == Spec => []TrackerInv
BY InitInv, InvStep, PTL DEF Spec

-----------------------------------------------------------------------------

\* The state of the tracker keeps its shape: no counter goes below zero.
THEOREM TypeCorrect == Spec => []TypeOK
<1>1. TrackerInv => TypeOK
  BY DEF TrackerInv
<1>2. QED BY <1>1, Tracker, PTL

\* Only interfaces of the allowlist are counted from the moment it changes,
\* whichever of ConfigureNICs, Start and the ticks come in which order.
THEOREM CountsAllowedOnly == Spec => []AllowedOnly
<1>1. TrackerInv => AllowedOnly
  BY DEF TrackerInv
<1>2. QED BY <1>1, Tracker, PTL

LEMMA InvLosesLittle == TrackerInv => LosesLittle
<1>1. SUFFICES ASSUME TrackerInv PROVE LosesLittle
  OBVIOUS
<1>2. ASSUME NEW n \in NICs, NEW t \in Times, cache[n].at[t] > 0
      PROVE  running /\ now <= t + SaveEvery + MaxLag
  <2>1. running
    BY <1>1, <1>2, EmptyCacheHolds DEF TrackerInv, Fresh
  <2>2. /\ now \in Nat /\ t \in Nat /\ since \in Nat /\ since <= SaveEvery
        /\ (tick # None => tick \in Nat)
    BY <1>1, Constants DEF TrackerInv, TypeOK, Times, ConstantsInNat
  <2>3. /\ tick = None => now <= t + since
        /\ tick # None => tick <= t + SaveEvery /\ now <= tick + MaxLag
    BY <1>1, <1>2 DEF TrackerInv, Age
  <2>4. SaveEvery \in Nat /\ MaxLag \in Nat
    BY Constants DEF ConstantsInNat
  <2>5. ASSUME tick = None PROVE now <= t + SaveEvery + MaxLag
    BY <2>2, <2>3, <2>4, <2>5
  <2>6. ASSUME tick # None PROVE now <= t + SaveEvery + MaxLag
    BY <2>2, <2>3, <2>4, <2>6
  <2>7. QED BY <2>1, <2>5, <2>6
<1>3. QED BY <1>1, <1>2 DEF LosesLittle, TrackerInv, OnDisk

\* While saves succeed, a crash loses what was sampled since the tick before
\* the last, at most, and Close leaves nothing to lose.
THEOREM CrashLosesLittle == Spec => []LosesLittle
BY InvLosesLittle, Tracker, PTL

-----------------------------------------------------------------------------
(* The history in the file. *)

LEMMA SavedHistoryKept ==
    ASSUME TypeOK, InMemory, loaded, hist' \in Histories, nics' \subseteq NICs, Save,
           \A n \in NICs, t \in Times : t + Retention >= now => hist'[n][t] >= hist[n][t]
    PROVE  \A n \in NICs, t \in Times : t + Retention >= now => disk'[n][t] >= disk[n][t]
<1>1. disk' = hist' \/ disk' = disk
  BY SaveKeeps
<1>2. \A n \in NICs, t \in Times :
        hist'[n][t] \in Nat /\ hist[n][t] \in Nat /\ disk[n][t] \in Nat
  BY DEF TypeOK, Histories
<1>3. ASSUME NEW n \in NICs, NEW t \in Times, t + Retention >= now
      PROVE  disk'[n][t] >= disk[n][t]
  <2>1. hist'[n][t] >= hist[n][t] /\ hist[n][t] >= disk[n][t]
    BY <1>3 DEF InMemory
  <2>2. hist'[n][t] >= disk[n][t]
    BY <1>2, <2>1
  <2>3. QED BY <1>1, <1>2, <2>2
<1>4. QED BY <1>3

KeepStep ==
    loaded => \A n \in NICs, t \in Times : t + Retention >= now => disk'[n][t] >= disk[n][t]

LEMMA HistoryStep == TrackerInv /\ [Next]_vars => KeepStep
<1> SUFFICES ASSUME TrackerInv, [Next]_vars, loaded PROVE KeepStep
  BY DEF KeepStep
<1>1. TypeOK /\ Fresh /\ OnDisk /\ InMemory
  BY DEF TrackerInv
<1>2. hist \in Histories /\ now \in Times
  BY <1>1 DEF TypeOK
<1>3. \A n \in NICs, t \in Times : disk[n][t] \in Nat /\ hist[n][t] \in Nat
  BY <1>1 DEF TypeOK, Histories
<1>4. ASSUME disk' = disk PROVE KeepStep
  BY <1>3, <1>4 DEF KeepStep
<1>5. CASE UNCHANGED vars
  BY <1>4, <1>5 DEF vars, stored
<1>6. CASE InitStart \/ ReportStart
  <2>1. CASE StartSucceeds
    BY <1>1, <1>4, <2>1, StartKeeps
  <2>2. CASE StartFails
    BY <1>4, <2>2 DEF StartFails, stored
  <2>3. QED BY <1>6, <2>1, <2>2 DEF InitStart, ReportStart
<1>7. ASSUME NEW S \in SUBSET NICs, ConfigureNICs(S) PROVE KeepStep
  <2>1. nics' = S /\ hist' = Purged(hist) /\ Save
    BY <1>7 DEF ConfigureNICs
  <2>2. hist' \in Histories
        /\ \A n \in NICs, t \in Times : t + Retention >= now => hist'[n][t] = hist[n][t]
    BY <1>2, <2>1, PurgedKeeps
  <2>3. \A n \in NICs, t \in Times : t + Retention >= now => hist'[n][t] >= hist[n][t]
    BY <1>3, <2>2
  <2>4. QED BY <1>1, <2>1, <2>2, <2>3, SavedHistoryKept DEF KeepStep
<1>8. ASSUME NEW stamp \in Times, Flush(stamp), nics' = nics, Save PROVE KeepStep
  <2>1. nics' \subseteq NICs
    BY <1>1, <1>8 DEF TypeOK
  <2>2. QED BY <1>1, <1>8, <2>1, FlushKeeps, SavedHistoryKept DEF KeepStep
<1>9. CASE SaveLoop
  <2>1. tick \in Times
    BY <1>1, <1>9 DEF TypeOK, SaveLoop
  <2>2. QED BY <1>8, <1>9, <2>1 DEF SaveLoop
<1>10. CASE Close
  <2>1. CASE running
    BY <1>2, <1>8, <1>10, <2>1 DEF Close
  <2>2. CASE ~running
    BY <1>4, <1>10, <2>2 DEF Close, stored
  <2>3. QED BY <2>1, <2>2
<1>11. CASE PowerFails
  BY <1>1, <1>11 DEF PowerFails, Fresh
<1>12. CASE \/ TimePasses \/ SaveTicks \/ ProcessEnds
            \/ \E n \in NICs : Carry(n) \/ CounterRestarts(n)
            \/ \E S \in SUBSET NICs : Sample(S)
  BY <1>4, <1>12 DEF TimePasses, SaveTicks, ProcessEnds, Carry, CounterRestarts, Sample, stored
<1>13. QED
  BY <1>5, <1>6, <1>7, <1>9, <1>10, <1>11, <1>12 DEF Next

\* Once a Start of this life has succeeded, no save, close or further Start
\* takes traffic of the retention time out of the file.
THEOREM KeepsHistory == Spec => HistoryKept
<1>1. TrackerInv /\ [Next]_vars => [KeepStep]_vars
  BY HistoryStep
<1>2. Spec => [][KeepStep]_vars
  BY <1>1, Tracker, PTL DEF Spec
<1>3. QED BY <1>2 DEF HistoryKept, KeepStep

-----------------------------------------------------------------------------
(* Bytes. The sums of what is kept, against what was carried and sampled. *)

\* What the next sample of an interface finds.
Pending(n) == IF last[n] # None /\ counter[n] >= last[n] THEN counter[n] - last[n] ELSE 0

\* A byte is in the history, in the cache or still to be sampled, and in one of
\* them only.
Counted(n) ==
    /\ cache[n].sum = SumFrom(cache[n].at, 0)
    /\ SumFrom(hist[n], 0) + cache[n].sum + Pending(n) <= wire[n]
    /\ SumFrom(disk[n], 0) <= wire[n]

\* The earliest time at which bytes stamped at start or later can be sampled.
Back(start) == IF start > SaveEvery + MaxLag THEN start - SaveEvery - MaxLag ELSE 0

\* No byte was moved over more than that; the cache is yet to be moved.
Stamped(n) ==
    \A start \in Times :
        /\ SumFrom(hist[n], start) + SumFrom(cache[n].at, Back(start))
             <= SumFrom(observed[n], Back(start))
        /\ SumFrom(disk[n], start) <= SumFrom(observed[n], Back(start))

BytesInv == \A n \in NICs : Counted(n) /\ Stamped(n)

From(start) == {t \in Times : t >= start}

LEMMA SumFromIs ==
    ASSUME NEW f \in [Times -> Nat], NEW start
    PROVE  /\ SumFrom(f, start) = SumOver(f, From(start))
           /\ From(start) \subseteq Times /\ IsFiniteSet(From(start)) /\ IsFiniteSet(Times)
           /\ \A t \in From(start) : f[t] \in Nat
           /\ SumFrom(f, start) \in Nat
<1>1. SumFrom(f, start) = SumOver(f, From(start))
  BY DEF SumFrom, SumOver, From
<1>2. IsFiniteSet(Times)
  BY Constants, FS_Interval DEF Times, ConstantsInNat
<1>3. From(start) \subseteq Times
  BY DEF From
<1>4. IsFiniteSet(From(start))
  BY <1>2, <1>3, FS_Subset
<1>5. \A t \in From(start) : f[t] \in Nat
  BY <1>3
<1> QED BY <1>1, <1>2, <1>3, <1>4, <1>5, SumInNat

LEMMA SumFromMonotone ==
    ASSUME NEW f \in [Times -> Nat], NEW g \in [Times -> Nat], NEW start,
           \A t \in Times : f[t] <= g[t]
    PROVE  SumFrom(f, start) <= SumFrom(g, start)
BY SumFromIs, SumMonotone

\* A byte more at one time counts from every start that is not later.
LEMMA SumFromRaised ==
    ASSUME NEW f \in [Times -> Nat], NEW s \in Times, NEW d \in Nat, NEW start \in Nat
    PROVE  SumFrom([f EXCEPT ![s] = @ + d], start) =
             SumFrom(f, start) + IF s >= start THEN d ELSE 0
<1> DEFINE g == [f EXCEPT ![s] = @ + d]
<1>1. g \in [Times -> Nat] /\ g[s] = f[s] + d /\ \A t \in Times \ {s} : g[t] = f[t]
  OBVIOUS
<1> HIDE DEF g
<1>2. CASE s >= start
  <2>1. s \in From(start)
    BY <1>2 DEF From
  <2>2. SumOver(g, From(start)) = SumOver(f, From(start)) + d
    BY <1>1, <2>1, SumFromIs, SumRaised
  <2> QED BY <1>1, <1>2, <2>2, SumFromIs DEF g
<1>3. CASE ~(s >= start)
  <2>1. \A t \in From(start) : g[t] = f[t]
    BY <1>1, <1>3 DEF From
  <2>2. SumOver(f, From(start)) = SumOver(g, From(start))
    BY <2>1, SumFromIs, SumSame
  <2>3. SumFrom(g, start) = SumFrom(f, start) /\ SumFrom(f, start) \in Nat
    BY <1>1, <2>2, SumFromIs
  <2> QED BY <1>3, <2>3 DEF g
<1> QED BY <1>2, <1>3

\* From an earlier start there is more to count, unless there is nothing before
\* the later one.
LEMMA SumFromEarlier ==
    ASSUME NEW f \in [Times -> Nat], NEW start \in Nat, NEW later \in Nat, start <= later
    PROVE  /\ SumFrom(f, later) <= SumFrom(f, start)
           /\ (\A t \in Times : t < later => f[t] = 0) => SumFrom(f, later) = SumFrom(f, start)
<1>1. From(later) \subseteq From(start)
  BY DEF From, Times
<1>2. ASSUME \A t \in Times : t < later => f[t] = 0
      PROVE  \A t \in From(start) \ From(later) : f[t] = 0
  BY <1>2 DEF From, Times
<1>3. /\ IsFiniteSet(From(start)) /\ \A t \in From(start) : f[t] \in Nat
      /\ SumFrom(f, start) = SumOver(f, From(start))
      /\ SumFrom(f, later) = SumOver(f, From(later))
  BY SumFromIs
<1>4. /\ SumOver(f, From(later)) <= SumOver(f, From(start))
      /\ (\A t \in From(start) \ From(later) : f[t] = 0) =>
           SumOver(f, From(later)) = SumOver(f, From(start))
  BY <1>1, <1>3, SumOfPart
<1> QED BY <1>2, <1>3, <1>4

LEMMA SumFromNoBytes ==
    ASSUME NEW start PROVE SumFrom(NoBytes, start) = 0 /\ NoBytes \in [Times -> Nat]
<1>1. NoBytes \in [Times -> Nat] /\ \A t \in Times : NoBytes[t] = 0
  BY DEF NoBytes
<1>2. IsFiniteSet(From(start)) /\ From(start) \subseteq Times
      /\ SumFrom(NoBytes, start) = SumOver(NoBytes, From(start))
  BY <1>1, SumFromIs
<1>3. \A t \in From(start) : NoBytes[t] = 0
  BY <1>1, <1>2
<1> QED BY <1>1, <1>2, <1>3, SumZero

\* A purge takes from no sum more than it leaves to it.
LEMMA PurgedSums ==
    ASSUME NEW h \in Histories, now \in Times, NEW n \in NICs, NEW start
    PROVE  /\ Purged(h) \in Histories
           /\ SumFrom(Purged(h)[n], start) <= SumFrom(h[n], start)
<1>1. /\ Purged(h) \in Histories
      /\ \A t \in Times : Purged(h)[n][t] <= h[n][t]
  BY PurgedKeeps
<1>2. h[n] \in [Times -> Nat] /\ Purged(h)[n] \in [Times -> Nat]
  BY <1>1 DEF Histories
<1> QED BY <1>1, <1>2, SumFromMonotone

\* A flush adds the sum of the cache at its stamp, and no more.
LEMMA FlushSums ==
    ASSUME TypeOK, NEW stamp \in Times, Flush(stamp), NEW n \in NICs, NEW start \in Nat
    PROVE  SumFrom(hist'[n], start) <=
             SumFrom(hist[n], start) + IF stamp >= start THEN cache[n].sum ELSE 0
<1> DEFINE h == [m \in NICs |-> [hist[m] EXCEPT ![stamp] = @ + cache[m].sum]]
<1>1. \A m \in NICs : hist[m] \in [Times -> Nat] /\ cache[m].sum \in Nat
  BY DEF TypeOK, Histories
<1>2. \A m \in NICs : [hist[m] EXCEPT ![stamp] = @ + cache[m].sum] \in [Times -> Nat]
  BY <1>1
<1>3. h \in Histories /\ hist' = Purged(h) /\ now \in Times
  BY <1>2 DEF Histories, Flush, TypeOK
<1>4. h[n] = [hist[n] EXCEPT ![stamp] = @ + cache[n].sum]
  OBVIOUS
<1> HIDE DEF h
<1>5. SumFrom(hist'[n], start) <= SumFrom(h[n], start)
  BY <1>3, PurgedSums
<1>6. SumFrom(h[n], start) = SumFrom(hist[n], start) + IF stamp >= start THEN cache[n].sum ELSE 0
  BY <1>1, <1>4, SumFromRaised
<1> QED BY <1>5, <1>6


NumbersOf(n) ==
    /\ hist[n] \in [Times -> Nat] /\ disk[n] \in [Times -> Nat]
    /\ observed[n] \in [Times -> Nat]
    /\ cache[n].at \in [Times -> Nat] /\ cache[n].sum \in Nat
    /\ wire[n] \in Nat /\ counter[n] \in Nat /\ last[n] \in Nat \cup {None}
    /\ Pending(n) \in Nat
    /\ \A start \in Nat :
         /\ SumFrom(hist[n], start) \in Nat /\ SumFrom(disk[n], start) \in Nat
         /\ SumFrom(observed[n], start) \in Nat /\ SumFrom(cache[n].at, start) \in Nat

\* Every sum and every counter of an interface is a number.
LEMMA Numbers == TypeOK => \A n \in NICs : NumbersOf(n)
<1> SUFFICES ASSUME TypeOK, NEW n \in NICs PROVE NumbersOf(n)
  OBVIOUS
<1>1. /\ hist[n] \in [Times -> Nat] /\ disk[n] \in [Times -> Nat]
      /\ observed[n] \in [Times -> Nat]
  BY DEF TypeOK, Histories
<1>2. cache[n].at \in [Times -> Nat] /\ cache[n].sum \in Nat
      /\ wire[n] \in Nat /\ counter[n] \in Nat /\ last[n] \in Nat \cup {None}
  BY DEF TypeOK
<1>3. Pending(n) \in Nat
  BY <1>2 DEF Pending
<1> QED BY <1>1, <1>2, <1>3, SumFromIs DEF NumbersOf

LEMMA NumbersAfter == TypeOK' => \A n \in NICs : NumbersOf(n)'
<1> DEFINE Holds == \A n \in NICs : NumbersOf(n)
<1>1. TypeOK => Holds
  BY Numbers
<1> HIDE DEF Holds
<1>2. TypeOK' => Holds'
  BY <1>1, PTL
<1> QED BY <1>2 DEF Holds

LEMMA BackInNat ==
    \A start \in Times : start \in Nat /\ Back(start) \in Nat /\ Back(start) <= start
BY Constants DEF Times, Back, ConstantsInNat

LEMMA EmptySums ==
    ASSUME NEW n \in NICs, NEW start
    PROVE  /\ EmptyCache[n].sum = 0 /\ SumFrom(EmptyCache[n].at, start) = 0
           /\ SumFrom(NoHistory[n], start) = 0
<1>1. EmptyCache[n] = [at |-> NoBytes, sum |-> 0] /\ NoHistory[n] = NoBytes
  BY DEF EmptyCache, NoHistory
<1> QED BY <1>1, SumFromNoBytes

\* What only drops bytes, or takes the history of the file instead of that in
\* memory, counts none twice.
LEMMA DropKeeps ==
    ASSUME TypeOK, TypeOK', NEW n \in NICs, Counted(n), Stamped(n),
           wire'[n] = wire[n], counter'[n] = counter[n], observed'[n] = observed[n],
           cache'[n] \in {cache[n], EmptyCache[n]}, last'[n] \in {last[n], None},
           \/ \A start \in Nat : SumFrom(hist'[n], start) <= SumFrom(hist[n], start)
           \/ /\ \A start \in Nat : SumFrom(hist'[n], start) <= SumFrom(disk[n], start)
              /\ cache'[n] = EmptyCache[n] /\ last'[n] = None,
           disk'[n] \in {disk[n], hist'[n], NoHistory[n]}
    PROVE  Counted(n)' /\ Stamped(n)'
<1>1. Pending(n)' <= Pending(n) /\ Pending(n) \in Nat /\ Pending(n)' \in Nat
      /\ (last'[n] = None => Pending(n)' = 0)
  <2>1. counter[n] \in Nat /\ last[n] \in Nat \cup {None}
    BY Numbers DEF NumbersOf
  <2> QED BY <2>1 DEF Pending
<1>2. 0 \in Nat
  OBVIOUS
<1>3. Counted(n)'
  <2>1. cache'[n].sum = SumFrom(cache'[n].at, 0) /\ cache'[n].sum <= cache[n].sum
        /\ (cache'[n] = EmptyCache[n] => cache'[n].sum = 0)
        /\ cache[n].sum \in Nat /\ cache'[n].sum \in Nat
    <3>1. cache[n].sum \in Nat /\ cache[n].sum = SumFrom(cache[n].at, 0)
      BY Numbers DEF NumbersOf, Counted
    <3>2. EmptyCache[n].sum = 0 /\ SumFrom(EmptyCache[n].at, 0) = 0
      BY EmptySums
    <3> QED BY <3>1, <3>2
  <2>2. /\ SumFrom(hist[n], 0) \in Nat /\ SumFrom(hist'[n], 0) \in Nat
        /\ SumFrom(disk[n], 0) \in Nat /\ wire[n] \in Nat
    BY Numbers, NumbersAfter DEF NumbersOf
  <2>3. SumFrom(hist'[n], 0) + cache'[n].sum + Pending(n)' <= wire[n]
    <3>1. CASE SumFrom(hist'[n], 0) <= SumFrom(hist[n], 0)
      BY <1>1, <2>1, <2>2, <3>1 DEF Counted
    <3>2. CASE /\ SumFrom(hist'[n], 0) <= SumFrom(disk[n], 0)
               /\ cache'[n] = EmptyCache[n] /\ last'[n] = None
      BY <1>1, <2>1, <2>2, <3>2 DEF Counted
    <3> QED BY <3>1, <3>2
  <2>4. SumFrom(disk'[n], 0) <= wire[n]
    <3>1. SumFrom(hist'[n], 0) <= wire[n]
      BY <1>1, <2>1, <2>2, <2>3
    <3> QED BY <2>2, <3>1, EmptySums DEF Counted
  <2> QED BY <2>1, <2>3, <2>4 DEF Counted
<1>4. Stamped(n)'
  <2>1. SUFFICES ASSUME NEW start \in Times
        PROVE  /\ SumFrom(hist'[n], start) + SumFrom(cache'[n].at, Back(start))
                    <= SumFrom(observed[n], Back(start))
               /\ SumFrom(disk'[n], start) <= SumFrom(observed[n], Back(start))
    BY DEF Stamped, Back
  <2>2. start \in Nat /\ Back(start) \in Nat
    BY BackInNat
  <2>3. /\ SumFrom(hist[n], start) \in Nat /\ SumFrom(hist'[n], start) \in Nat
        /\ SumFrom(disk[n], start) \in Nat
        /\ SumFrom(cache[n].at, Back(start)) \in Nat /\ SumFrom(cache'[n].at, Back(start)) \in Nat
        /\ SumFrom(observed[n], Back(start)) \in Nat
    BY <2>2, Numbers, NumbersAfter DEF NumbersOf
  <2>4. /\ SumFrom(hist[n], start) + SumFrom(cache[n].at, Back(start))
             <= SumFrom(observed[n], Back(start))
        /\ SumFrom(disk[n], start) <= SumFrom(observed[n], Back(start))
    BY DEF Stamped
  <2>5. SumFrom(cache'[n].at, Back(start)) <= SumFrom(cache[n].at, Back(start))
        /\ (cache'[n] = EmptyCache[n] => SumFrom(cache'[n].at, Back(start)) = 0)
    BY <2>3, EmptySums
  <2>6. SumFrom(hist'[n], start) + SumFrom(cache'[n].at, Back(start))
          <= SumFrom(observed[n], Back(start))
    <3>1. CASE SumFrom(hist'[n], start) <= SumFrom(hist[n], start)
      BY <2>3, <2>4, <2>5, <3>1
    <3>2. CASE SumFrom(hist'[n], start) <= SumFrom(disk[n], start) /\ cache'[n] = EmptyCache[n]
      BY <2>3, <2>4, <2>5, <3>2
    <3> QED BY <2>2, <3>1, <3>2
  <2>7. SumFrom(hist'[n], start) <= SumFrom(observed[n], Back(start))
    BY <2>3, <2>6
  <2> QED BY <2>3, <2>4, <2>6, <2>7, EmptySums
<1> QED BY <1>3, <1>4

\* A flush moves the bytes of the cache, none over more than the bound.
LEMMA FlushedSums ==
    ASSUME TypeOK, TypeOK', NEW n \in NICs, Counted(n), Stamped(n),
           NEW stamp \in Times, Flush(stamp),
           \A t \in Times : cache[n].at[t] > 0 => stamp <= t + SaveEvery + MaxLag,
           wire' = wire, counter' = counter, observed' = observed, last' = last,
           disk' = hist' \/ disk' = disk
    PROVE  Counted(n)' /\ Stamped(n)'
<1>1. cache'[n] = EmptyCache[n]
  BY DEF Flush
<1>2. Pending(n)' = Pending(n)
  BY DEF Pending
<1>3. Counted(n)'
  <2>1. SumFrom(hist'[n], 0) <= SumFrom(hist[n], 0) + cache[n].sum
    <3>1. stamp >= 0
      BY DEF Times
    <3> QED BY <3>1, FlushSums
  <2>2. /\ SumFrom(hist[n], 0) \in Nat /\ SumFrom(hist'[n], 0) \in Nat /\ Pending(n) \in Nat
        /\ cache[n].sum \in Nat /\ wire[n] \in Nat
    BY Numbers, NumbersAfter DEF NumbersOf
  <2>3. cache'[n].sum = 0 /\ SumFrom(cache'[n].at, 0) = 0
    BY <1>1, EmptySums
  <2>4. SumFrom(hist'[n], 0) + cache'[n].sum + Pending(n)' <= wire[n]
    BY <1>2, <2>1, <2>2, <2>3 DEF Counted
  <2>5. SumFrom(hist'[n], 0) <= wire[n]
    BY <1>2, <2>2, <2>3, <2>4
  <2> QED BY <2>3, <2>4, <2>5 DEF Counted
<1>4. Stamped(n)'
  <2>1. SUFFICES ASSUME NEW start \in Times
        PROVE  /\ SumFrom(hist'[n], start) + SumFrom(cache'[n].at, Back(start))
                    <= SumFrom(observed[n], Back(start))
               /\ SumFrom(disk'[n], start) <= SumFrom(observed[n], Back(start))
    BY DEF Stamped, Back
  <2>2. start \in Nat /\ Back(start) \in Nat
    BY BackInNat
  <2>3. /\ SumFrom(hist[n], start) \in Nat /\ SumFrom(hist'[n], start) \in Nat
        /\ SumFrom(cache[n].at, Back(start)) \in Nat /\ SumFrom(observed[n], Back(start)) \in Nat
        /\ cache[n].at \in [Times -> Nat]
    BY <2>2, Numbers, NumbersAfter DEF NumbersOf
  <2>4. /\ SumFrom(hist[n], start) + SumFrom(cache[n].at, Back(start))
             <= SumFrom(observed[n], Back(start))
        /\ SumFrom(disk[n], start) <= SumFrom(observed[n], Back(start))
    BY DEF Stamped
  <2>5. stamp >= start => cache[n].sum = SumFrom(cache[n].at, Back(start))
    <3>1. SUFFICES ASSUME stamp >= start
                   PROVE  SumFrom(cache[n].at, Back(start)) = SumFrom(cache[n].at, 0)
      BY DEF Counted
    <3>2. ASSUME NEW t \in Times, t < Back(start) PROVE cache[n].at[t] = 0
      <4>1. cache[n].at[t] \in Nat /\ t \in Nat /\ stamp \in Nat
        BY <2>3, Constants DEF Times, ConstantsInNat
      <4>2. ~(stamp <= t + SaveEvery + MaxLag)
        BY <2>2, <3>1, <3>2, <4>1, Constants DEF Back, ConstantsInNat
      <4> QED BY <4>1, <4>2
    <3> QED BY <2>2, <2>3, <3>2, SumFromEarlier
  <2>6. SumFrom(hist'[n], start) <=
          SumFrom(hist[n], start) + IF stamp >= start THEN cache[n].sum ELSE 0
    BY <2>2, FlushSums
  <2>7. SumFrom(hist'[n], start) <= SumFrom(observed[n], Back(start))
    BY <2>3, <2>4, <2>5, <2>6
  <2>8. SumFrom(cache'[n].at, Back(start)) = 0
    BY <1>1, EmptySums
  <2> QED BY <2>3, <2>4, <2>7, <2>8
<1> QED BY <1>3, <1>4

\* A sample takes what is pending, and no more.
LEMMA SampledSums ==
    ASSUME TrackerInv, TypeOK', NEW n \in NICs, Counted(n), Stamped(n),
           NEW S \in SUBSET NICs, Sample(S)
    PROVE  Counted(n)' /\ Stamped(n)'
<1> DEFINE seen == {m \in S : Allowed(m)}
           delta == [m \in NICs |-> IF m \in seen /\ last[m] # None
                                      THEN Delta(counter[m], last[m]) ELSE 0]
<1>1. TypeOK /\ now \in Times
  BY DEF TrackerInv, TypeOK
<1>2. /\ last'[n] = IF n \in seen THEN counter[n] ELSE last[n]
      /\ cache'[n].at = [cache[n].at EXCEPT ![now] = @ + delta[n]]
      /\ cache'[n].sum = cache[n].sum + delta[n]
      /\ observed'[n] = [observed[n] EXCEPT ![now] = @ + delta[n]]
      /\ UNCHANGED <<wire, counter, hist, disk>>
  BY DEF Sample, outside, stored
<1>3. delta[n] = IF n \in seen THEN Pending(n) ELSE 0
  BY DEF Delta, Pending
<1> HIDE DEF seen, delta
<1>4. /\ Pending(n) \in Nat /\ delta[n] \in Nat /\ cache[n].at \in [Times -> Nat]
      /\ observed[n] \in [Times -> Nat] /\ cache[n].sum \in Nat /\ wire[n] \in Nat
      /\ counter[n] \in Nat
  <2>1. NumbersOf(n)
    BY <1>1, Numbers
  <2> QED BY <1>3, <2>1 DEF NumbersOf
<1>5. delta[n] + Pending(n)' = Pending(n)
  <2>1. CASE n \in seen
    BY <1>2, <1>3, <1>4, <2>1 DEF Pending
  <2>2. CASE n \notin seen
    BY <1>2, <1>3, <1>4, <2>2 DEF Pending
  <2> QED BY <2>1, <2>2
<1>6. ASSUME NEW start \in Nat
      PROVE  /\ SumFrom(cache'[n].at, start) =
                  SumFrom(cache[n].at, start) + IF now >= start THEN delta[n] ELSE 0
             /\ SumFrom(observed'[n], start) =
                  SumFrom(observed[n], start) + IF now >= start THEN delta[n] ELSE 0
  <2>1. \A f \in [Times -> Nat], d \in Nat :
          SumFrom([f EXCEPT ![now] = @ + d], start) =
            SumFrom(f, start) + IF now >= start THEN d ELSE 0
    BY <1>1, SumFromRaised
  <2> DEFINE d == delta[n]
             c == cache[n].at
             o == observed[n]
  <2>2. /\ cache'[n].at = [c EXCEPT ![now] = @ + d] /\ observed'[n] = [o EXCEPT ![now] = @ + d]
        /\ d \in Nat /\ c \in [Times -> Nat] /\ o \in [Times -> Nat]
    BY <1>2, <1>4
  <2> HIDE DEF c, d, o
  <2>3. SumFrom(cache'[n].at, start) = SumFrom(c, start) + IF now >= start THEN d ELSE 0
    BY <2>1, <2>2
  <2>4. SumFrom(observed'[n], start) = SumFrom(o, start) + IF now >= start THEN d ELSE 0
    BY <2>1, <2>2
  <2> QED BY <2>3, <2>4 DEF c, d, o
<1>7. Counted(n)'
  <2>1. SumFrom(cache'[n].at, 0) = SumFrom(cache[n].at, 0) + delta[n]
    BY <1>1, <1>6 DEF Times
  <2>2. SumFrom(hist[n], 0) \in Nat /\ Pending(n)' \in Nat
    BY <1>1, Numbers, NumbersAfter DEF NumbersOf
  <2> QED BY <1>2, <1>4, <1>5, <2>1, <2>2 DEF Counted
<1>8. Stamped(n)'
  <2>1. SUFFICES ASSUME NEW start \in Times
        PROVE  /\ SumFrom(hist[n], start) + SumFrom(cache'[n].at, Back(start))
                    <= SumFrom(observed'[n], Back(start))
               /\ SumFrom(disk[n], start) <= SumFrom(observed'[n], Back(start))
    BY <1>2 DEF Stamped, Back
  <2>2. start \in Nat /\ Back(start) \in Nat
    BY BackInNat
  <2>3. /\ SumFrom(hist[n], start) \in Nat /\ SumFrom(disk[n], start) \in Nat
        /\ SumFrom(cache[n].at, Back(start)) \in Nat /\ SumFrom(observed[n], Back(start)) \in Nat
    BY <1>1, <2>2, Numbers, NumbersAfter DEF NumbersOf
  <2>4. /\ SumFrom(hist[n], start) + SumFrom(cache[n].at, Back(start))
             <= SumFrom(observed[n], Back(start))
        /\ SumFrom(disk[n], start) <= SumFrom(observed[n], Back(start))
    BY DEF Stamped
  <2> QED BY <1>4, <1>6, <2>2, <2>3, <2>4
<1> QED BY <1>7, <1>8

\* A byte on the wire is pending at most once, and not when the counter restarts.
LEMMA CarriedSums ==
    ASSUME TypeOK, NEW n \in NICs, Counted(n), Stamped(n), NEW m \in NICs,
           Carry(m) \/ CounterRestarts(m)
    PROVE  Counted(n)' /\ Stamped(n)'
<1>1. UNCHANGED <<hist, cache, observed, disk, last>>
  BY DEF Carry, CounterRestarts, memory, stored
<1>2. Stamped(n)'
  BY <1>1 DEF Stamped, Back
<1>3. wire[n] \in Nat /\ counter[n] \in Nat /\ last[n] \in Nat \cup {None}
      /\ wire \in [NICs -> Nat] /\ counter \in [NICs -> Nat]
      /\ SumFrom(hist[n], 0) \in Nat /\ cache[n].sum \in Nat /\ SumFrom(disk[n], 0) \in Nat
  BY Numbers, NumbersAfter DEF NumbersOf, TypeOK
<1>4. /\ wire'[n] - Pending(n)' >= wire[n] - Pending(n) /\ wire'[n] >= wire[n]
      /\ wire'[n] \in Nat /\ counter'[n] \in Nat
  <2>1. CASE m = n /\ Carry(m)
    <3>1. wire'[n] = wire[n] + 1 /\ counter'[n] = counter[n] + 1
      BY <1>3, <2>1 DEF Carry
    <3> QED BY <1>1, <1>3, <3>1, Constants DEF Pending
  <2>2. CASE m = n /\ CounterRestarts(m)
    <3>1. wire'[n] = wire[n] /\ counter'[n] = 0
      BY <1>3, <2>2 DEF CounterRestarts
    <3> QED BY <1>1, <1>3, <3>1, Constants DEF Pending
  <2>3. CASE m # n
    <3>1. wire'[n] = wire[n] /\ counter'[n] = counter[n]
      BY <1>3, <2>3 DEF Carry, CounterRestarts
    <3> QED BY <1>1, <1>3, <3>1 DEF Pending
  <2> QED BY <2>1, <2>2, <2>3
<1>5. Pending(n) \in Nat /\ Pending(n)' \in Nat
  BY <1>1, <1>3, <1>4 DEF Pending
<1>6. SumFrom(hist[n], 0) + cache[n].sum + Pending(n)' <= wire'[n]
      /\ SumFrom(disk[n], 0) <= wire'[n]
  BY <1>3, <1>4, <1>5 DEF Counted
<1> QED BY <1>1, <1>2, <1>6 DEF Counted


\* A Start takes the history of the file or keeps that in memory, with an empty
\* cache and no counter remembered.
LEMMA StartedSums ==
    ASSUME TrackerInv, TypeOK', NEW n \in NICs, Counted(n), Stamped(n),
           StartSucceeds, phase # "closed", UNCHANGED <<outside, observed>>
    PROVE  Counted(n)' /\ Stamped(n)'
<1>1. TypeOK /\ Fresh /\ OnDisk /\ InMemory /\ ~running
  BY DEF TrackerInv, StartSucceeds
<1>2. cache' = EmptyCache /\ last' = last /\ disk' = disk /\ last[n] = None
  BY <1>1, StartKeeps DEF Fresh
<1>3. UNCHANGED <<wire, counter, observed>>
  BY DEF outside
<1>4. CASE hist' = hist
  <2>1. \A start \in Nat : SumFrom(hist'[n], start) <= SumFrom(hist[n], start)
    <3>1. \A start \in Nat : SumFrom(hist[n], start) \in Nat
      BY <1>1, Numbers DEF NumbersOf
    <3> QED BY <1>4, <3>1
  <2> QED BY <1>1, <1>2, <1>3, <2>1, DropKeeps
<1>5. CASE hist' = Purged(disk)
  <2>1. disk \in Histories /\ now \in Times
    BY <1>1 DEF TypeOK
  <2>2. \A start \in Nat : SumFrom(hist'[n], start) <= SumFrom(disk[n], start)
    BY <1>5, <2>1, PurgedSums
  <2> QED BY <1>1, <1>2, <1>3, <2>2, DropKeeps
<1> QED BY <1>4, <1>5 DEF StartSucceeds, Load

LEMMA BytesStep ==
    ASSUME TrackerInv, TypeOK', [Next]_vars, NEW n \in NICs, Counted(n), Stamped(n)
    PROVE  Counted(n)' /\ Stamped(n)'
<1>1. TypeOK /\ Fresh /\ Age
  BY DEF TrackerInv
<1>2. hist \in Histories /\ now \in Times
  BY <1>1 DEF TypeOK
<1>3. ASSUME UNCHANGED <<wire, counter, observed, hist, cache, last, disk>>
      PROVE  Counted(n)' /\ Stamped(n)'
  BY <1>3 DEF Counted, Stamped, Pending, Back
<1>4. CASE \/ UNCHANGED vars \/ TimePasses \/ SaveTicks
  BY <1>3, <1>4 DEF vars, TimePasses, SaveTicks, outside, memory, stored
<1>5. ASSUME NEW m \in NICs, Carry(m) \/ CounterRestarts(m)
      PROVE  Counted(n)' /\ Stamped(n)'
  BY <1>1, <1>5, CarriedSums
<1>6. CASE InitStart \/ ReportStart
  <2>1. phase # "closed" /\ UNCHANGED <<outside, observed>>
    BY <1>6 DEF InitStart, ReportStart
  <2>2. CASE StartSucceeds
    BY <2>1, <2>2, StartedSums
  <2>3. CASE StartFails
    BY <1>3, <2>1, <2>3 DEF StartFails, outside, memory, stored
  <2> QED BY <1>6, <2>2, <2>3 DEF InitStart, ReportStart
<1>7. ASSUME NEW S \in SUBSET NICs, ConfigureNICs(S) PROVE Counted(n)' /\ Stamped(n)'
  <2>1. /\ hist' = Purged(hist) /\ disk' \in {hist', disk}
        /\ UNCHANGED <<wire, counter, observed>>
    BY <1>7 DEF ConfigureNICs, Save, outside
  <2>2. cache'[n] \in {cache[n], EmptyCache[n]} /\ last'[n] \in {last[n], None}
    BY <1>7 DEF ConfigureNICs
  <2>3. \A start \in Nat : SumFrom(hist'[n], start) <= SumFrom(hist[n], start)
    BY <1>2, <2>1, PurgedSums
  <2> QED BY <1>1, <2>1, <2>2, <2>3, DropKeeps
<1>8. ASSUME NEW S \in SUBSET NICs, Sample(S) PROVE Counted(n)' /\ Stamped(n)'
  BY <1>8, SampledSums
<1>9. CASE SaveLoop
  <2>1. tick \in Times /\ Flush(tick) /\ UNCHANGED <<wire, counter, observed, last>>
        /\ (disk' = hist' \/ disk' = disk) /\ tick # None
    BY <1>1, <1>9 DEF SaveLoop, Save, outside, TypeOK
  <2>2. ASSUME NEW t \in Times, cache[n].at[t] > 0 PROVE tick <= t + SaveEvery + MaxLag
    <3>1. tick <= t + SaveEvery
      BY <1>1, <2>1, <2>2 DEF Age
    <3> QED BY <2>1, <3>1, Constants DEF Times, ConstantsInNat
  <2> QED BY <1>1, <2>1, <2>2, FlushedSums
<1>10. CASE Close
  <2>1. CASE running
    <3>1. Flush(now) /\ UNCHANGED <<wire, counter, observed, last>>
          /\ (disk' = hist' \/ disk' = disk)
      BY <1>10, <2>1 DEF Close, Save, outside
    <3>2. \A t \in Times : cache[n].at[t] > 0 => now <= t + SaveEvery + MaxLag
      BY InvLosesLittle DEF LosesLittle
    <3> QED BY <1>1, <1>2, <3>1, <3>2, FlushedSums
  <2>2. CASE ~running
    BY <1>3, <1>10, <2>2 DEF Close, outside, memory, stored
  <2> QED BY <2>1, <2>2
<1>11. CASE ProcessEnds \/ PowerFails
  <2>1. /\ UNCHANGED <<wire, counter, observed>> /\ hist' \in {hist, NoHistory}
        /\ cache'[n] \in {cache[n], EmptyCache[n]} /\ last'[n] \in {last[n], None}
        /\ disk' \in {disk, NoHistory}
    BY <1>11 DEF ProcessEnds, PowerFails, outside, memory
  <2>2. \A start \in Nat : SumFrom(hist'[n], start) <= SumFrom(hist[n], start)
    <3>1. \A start \in Nat : SumFrom(hist[n], start) \in Nat
      BY <1>1, Numbers DEF NumbersOf
    <3>2. \A start \in Nat : SumFrom(NoHistory[n], start) = 0
      BY EmptySums
    <3>3. hist'[n] \in {hist[n], NoHistory[n]}
      BY <2>1
    <3> QED BY <3>1, <3>2, <3>3
  <2> QED BY <1>1, <2>1, <2>2, DropKeeps
<1> QED
  BY <1>4, <1>5, <1>6, <1>7, <1>8, <1>9, <1>10, <1>11 DEF Next

LEMMA BytesInit == Init => BytesInv
<1> SUFFICES ASSUME Init, NEW n \in NICs PROVE Counted(n) /\ Stamped(n)
  BY DEF BytesInv
<1>1. /\ cache[n] = EmptyCache[n] /\ hist[n] = NoHistory[n] /\ disk[n] = NoHistory[n]
      /\ observed[n] = NoHistory[n] /\ wire[n] = 0 /\ last[n] = None
  BY DEF Init
<1>2. Pending(n) = 0
  BY <1>1 DEF Pending
<1> QED BY <1>1, <1>2, EmptySums DEF Counted, Stamped

LEMMA Bytes == Spec => []BytesInv
<1>1. TrackerInv /\ TrackerInv' /\ BytesInv /\ [Next]_vars => BytesInv'
  BY BytesStep DEF BytesInv, TrackerInv
<1> QED BY <1>1, BytesInit, Tracker, PTL DEF Spec

\* Over crashes, reloads, restarted counters and failed saves, no byte is counted
\* twice: neither the totals nor the file hold more than the interface carried.
THEOREM NeverCountsTwice == Spec => []NeverOvercounts
<1>1. TypeOK /\ BytesInv => NeverOvercounts
  <2> SUFFICES ASSUME TypeOK, NEW n \in NICs, Counted(n)
               PROVE  Total(n, 0) <= wire[n] /\ SumFrom(disk[n], 0) <= wire[n]
    BY DEF BytesInv, NeverOvercounts
  <2>1. NumbersOf(n)
    BY Numbers
  <2> QED BY <2>1 DEF NumbersOf, Counted, Total
<1> QED BY <1>1, Bytes, TypeCorrect, PTL

\* A total from some time on holds nothing that was sampled more than a save
\* interval and a lag before it, for every time and however often the history
\* was saved, lost and loaded.
THEOREM RestampsLittle == Spec => []RestampBounded
<1>1. TypeOK /\ BytesInv => RestampBounded
  <2> SUFFICES ASSUME TypeOK, NEW n \in NICs, Stamped(n), NEW start \in Times
               PROVE  Total(n, start) <= SumFrom(observed[n], Back(start))
    BY DEF BytesInv, RestampBounded, Back
  <2>1. NumbersOf(n) /\ start \in Nat /\ Back(start) \in Nat /\ Back(start) <= start
    BY Numbers, BackInNat
  <2>2. SumFrom(cache[n].at, start) <= SumFrom(cache[n].at, Back(start))
    BY <2>1, SumFromEarlier DEF NumbersOf
  <2>3. SumFrom(hist[n], start) + SumFrom(cache[n].at, Back(start))
          <= SumFrom(observed[n], Back(start))
    BY DEF Stamped
  <2>4. /\ SumFrom(hist[n], start) \in Nat /\ SumFrom(cache[n].at, start) \in Nat
        /\ SumFrom(cache[n].at, Back(start)) \in Nat /\ SumFrom(observed[n], Back(start)) \in Nat
    BY <2>1 DEF NumbersOf
  <2> QED BY <2>2, <2>3, <2>4 DEF Total
<1> QED BY <1>1, Bytes, TypeCorrect, PTL

=============================================================================
