--------------------------- MODULE AgentProcess_proofs --------------------------
(***************************************************************************)
(* What AgentProcess keeps for any fields, users, addresses, interfaces,   *)
(* tables of mounts and widths of words. What the process does at a time   *)
(* concerns one part of its state, so each part has an inductive invariant *)
(* of its own: ConfigInv, NetInv, DialInv and ServerInv, CountersInv, FigureInv.      *)
(*                                                                         *)
(* The model adds up with folds over sets and collects with folds over     *)
(* sequences. The library defines both by a function on the subsets of a   *)
(* finite set, so what they compute is shown by induction over these sets: *)
(* one with the strict subset relation has a least element outside any     *)
(* proper part of it (WFMin).                                              *)
(***************************************************************************)
EXTENDS AgentProcess, FiniteSetTheorems, NaturalsInduction, SequenceTheorems, TLAPS

-----------------------------------------------------------------------------
(* Words. *)

LEMMA WordSmall == \A x \in Words : x % Word = x
  BY WordAssumption DEF Words

LEMMA MinusInRange ==
    ASSUME NEW a \in Words, NEW b \in Words, b <= a
    PROVE  Minus(a, b) = a - b /\ Minus(a, b) \in 0..a
<1>1. a - b \in Words
  BY WordAssumption DEF Words
<1> QED BY <1>1, WordSmall, WordAssumption DEF Minus, Words

LEMMA PlusInWords ==
    ASSUME NEW a \in Words, NEW b \in Words
    PROVE  Plus(a, b) \in Words
  BY WordAssumption DEF Plus, Words

LEMMA PlusSmall ==
    ASSUME NEW a \in Words, NEW b \in Words, a + b \in Words
    PROVE  Plus(a, b) = a + b
  BY WordSmall DEF Plus

\* Swap in use is within the total even where free and cached wrap around.
LEMMA SwapBounded ==
    ASSUME NEW swap \in Swaps
    PROVE  SwapWithinTotal(swap, Swap(swap))
<1> SUFFICES ASSUME swap.free <= swap.total
             PROVE  Swap(swap).used \in 0..Swap(swap).total
  BY DEF SwapWithinTotal
<1>1. swap.total \in Words /\ swap.free \in Words /\ swap.cached \in Words
  BY DEF Swaps
<1>2. Plus(swap.free, swap.cached) \in Words
  BY <1>1, PlusInWords
<1>3. CASE swap.total >= Plus(swap.free, swap.cached)
  <2>1. Minus(swap.total, Plus(swap.free, swap.cached)) \in 0..swap.total
    BY <1>1, <1>2, <1>3, MinusInRange, WordAssumption DEF Words
  <2> QED BY <1>3, <2>1 DEF Swap, Use
<1>4. CASE ~(swap.total >= Plus(swap.free, swap.cached))
  <2>1. Minus(swap.total, swap.free) \in 0..swap.total
    BY <1>1, MinusInRange
  <2> QED BY <1>4, <2>1 DEF Swap, Use
<1> QED BY <1>3, <1>4

\* On each of its paths the figure is within the total.
LEMMA RAMBounded ==
    ASSUME NEW info \in Infos, NEW includeCache, NEW raw
    PROVE  UsedWithinTotal(info, RAM(includeCache, raw, info))
<1> SUFFICES ASSUME Consistent(info)
             PROVE  /\ RAM(includeCache, raw, info).total \in {0, info.total}
                    /\ RAM(includeCache, raw, info).used \in 0..RAM(includeCache, raw, info).total
  BY DEF UsedWithinTotal
<1> DEFINE Good(ram) == ram.total = info.total /\ ram.used \in 0..info.total
<1>1. /\ info.total \in Words /\ info.free \in Words /\ info.available \in Words
      /\ info.buffers \in Words /\ info.cached \in Words /\ info.reclaimable \in Words
      /\ info.shmem \in Words
  BY DEF Infos
<1>2. info.total > 0
  BY DEF Consistent
<1>3. Deductions(info) = info.free + info.cached + info.reclaimable + info.buffers
      /\ Deductions(info) \in Words /\ Deductions(info) <= info.total
  <2>1. /\ info.free + info.cached \in Words
        /\ info.free + info.cached + info.reclaimable \in Words
        /\ info.free + info.cached + info.reclaimable + info.buffers \in Words
        /\ info.free + info.cached + info.reclaimable + info.buffers <= info.total
    BY <1>1, WordAssumption DEF Consistent, Words
  <2> QED BY <1>1, <2>1, PlusSmall DEF Deductions
<1>4. Good(MemoryHtopLike(info))
  <2>1. Minus(info.total, Deductions(info)) = info.total - Deductions(info)
    BY <1>1, <1>3, MinusInRange
  <2>2. info.total - Deductions(info) \in Words /\ info.shmem <= Deductions(info)
    BY <1>1, <1>3, WordAssumption DEF Consistent, Words
  <2>3. (info.total - Deductions(info)) + info.shmem \in 0..info.total
    BY <1>1, <1>3, <2>2, WordAssumption DEF Words
  <2>4. Plus(info.total - Deductions(info), info.shmem) = (info.total - Deductions(info)) + info.shmem
    BY <1>1, <2>2, <2>3, PlusSmall, WordAssumption DEF Words
  <2>5. MemoryHtopLike(info) =
          Use(info.total, Plus(info.total - Deductions(info), info.shmem))
    BY <1>1, <1>2, <1>3, <2>1, WordAssumption DEF MemoryHtopLike, Words
  <2> QED BY <2>3, <2>4, <2>5 DEF Use
<1>5. ramInfoFromAvailable(info).total > 0 => Good(ramInfoFromAvailable(info))
  <2>1. info.available < info.total => Minus(info.total, info.available) \in 0..info.total
    BY <1>1, MinusInRange, WordAssumption DEF Words
  <2>2. 0 \in 0..info.total
    BY <1>1, WordAssumption DEF Words
  <2> QED BY <1>2, <2>1, <2>2 DEF ramInfoFromAvailable, Use, Unknown
<1>6. Good(Use(info.total, Minus(info.total, info.free)))
  <2>1. info.free <= info.total
    BY <1>1, WordAssumption DEF Consistent, Words
  <2> QED BY <1>1, <2>1, MinusInRange DEF Use
<1>7. MemoryHtopLike(info).total > 0
  BY <1>2, <1>4
<1>8. Good(RAM(includeCache, raw, info))
  BY <1>4, <1>5, <1>6, <1>7 DEF RAM
<1> QED BY <1>8

-----------------------------------------------------------------------------
(* The configuration. *)

First(S) == CHOOSE n \in 1..5 : S[n] # {} /\ \A m \in 1..(n - 1) : S[m] = {}

FieldWins(f) ==
    IF f = "ConfigFile" THEN cfg[f] = configFilePath
    ELSE cfg[f] \in Sources(f)[First(Sources(f))] /\ <<f, cfg[f]>> \notin Malformed

LEMMA FieldByField ==
    HighestSourceWins <=> (status \in {"loaded", "valid"} => \A f \in Fields : FieldWins(f))
BY DEF HighestSourceWins, FieldWins, First

\* The first source of five that says anything.
LEMMA FirstSource ==
    ASSUME NEW S, NEW n \in 1..5, S[n] # {}, \A m \in 1..(n - 1) : S[m] = {}
    PROVE  First(S) = n
<1>1. ASSUME NEW k \in 1..5, S[k] # {}, \A m \in 1..(k - 1) : S[m] = {}
      PROVE  k = n
  <2>1. ~(n \in 1..(k - 1)) /\ ~(k \in 1..(n - 1))
    BY <1>1
  <2> QED BY <2>1
<1> QED BY <1>1 DEF First

\* The sources stay as they are found.
LEMMA SourcesStay ==
    ASSUME given' = given
    PROVE  configFilePath' = configFilePath /\ \A f : Sources(f)' = Sources(f)
BY DEF configFilePath, Sources, LoadFile

\* What a configuration that loads is made of, field by field.
LEMMA LoadedField ==
    ASSUME given \in Invocations, Load, ~LoadFails, NEW f \in Fields, f # "ConfigFile"
    PROVE  LET file == LoadFile(configFilePath) IN
           cfg'[f] =
             IF f \in DOMAIN given.flags THEN given.flags[f]
             ELSE IF f \in DOMAIN given.env THEN given.env[f]
             ELSE IF f \in DOMAIN given.legacy THEN given.legacy[f]
             ELSE IF configFilePath # "" /\ f \in DOMAIN file THEN file[f]
             ELSE Default[f]
<1> DEFINE path == configFilePath
           base == IF path = "" THEN Default ELSE Overlay(Default, given.file)
           values == Overlay(Overlay(base, Environment), given.flags)
<1>1. cfg' = [values EXCEPT !["ConfigFile"] = path]
  BY DEF Load
<1>2. path # "" => LoadFile(path) = given.file
  BY DEF LoadFails, LoadFile
<1>3. base[f] = IF path # "" /\ f \in DOMAIN LoadFile(path) THEN LoadFile(path)[f] ELSE Default[f]
  BY <1>2 DEF Overlay
<1>4. /\ DOMAIN Environment = DOMAIN given.env \cup DOMAIN given.legacy
      /\ f \in DOMAIN Environment =>
           Environment[f] = IF f \in DOMAIN given.env THEN given.env[f] ELSE given.legacy[f]
  BY DEF Environment
<1>5. values[f] = IF f \in DOMAIN given.flags THEN given.flags[f]
                  ELSE IF f \in DOMAIN Environment THEN Environment[f] ELSE base[f]
  BY DEF Overlay
<1>6. cfg'[f] = values[f]
  <2>1. values = [g \in Fields |-> values[g]]
    BY DEF Overlay
  <2> HIDE DEF values
  <2> QED BY <1>1, <2>1
<1> HIDE DEF base, values
<1> QED BY <1>3, <1>4, <1>5, <1>6

LEMMA LoadWins ==
    ASSUME given \in Invocations, Load, ~LoadFails
    PROVE  \A f \in Fields : FieldWins(f)'
<1>1. given' = given
  BY DEF Load
<1> SUFFICES ASSUME NEW f \in Fields
             PROVE  IF f = "ConfigFile" THEN cfg'[f] = configFilePath
                    ELSE cfg'[f] \in Sources(f)[First(Sources(f))] /\ <<f, cfg'[f]>> \notin Malformed
  BY <1>1, SourcesStay DEF FieldWins
<1>2. CASE f = "ConfigFile"
  BY <1>2, InvocationsAssumption DEF Load, Overlay
<1>3. CASE f # "ConfigFile"
  <2> DEFINE file == LoadFile(configFilePath)
             S == Sources(f)
             first == First(S)
  <2>1. /\ S[1] = IF f \in DOMAIN given.flags THEN {given.flags[f]} ELSE {}
        /\ S[2] = IF f \in DOMAIN given.env THEN {given.env[f]} ELSE {}
        /\ S[3] = IF f \in DOMAIN given.legacy THEN {given.legacy[f]} ELSE {}
        /\ S[4] = IF file # NoFile /\ f \in DOMAIN file THEN {file[f]} ELSE {}
        /\ S[5] = {Default[f]}
    BY DEF Sources
  <2>2. configFilePath # "" => file = given.file /\ file # NoFile /\ file # Broken
    BY InvocationsAssumption DEF LoadFails, LoadFile
  <2>3. configFilePath = "" => file = NoFile
    BY DEF LoadFile
  <2>4. f \in DOMAIN given.env \cup DOMAIN given.legacy =>
          <<f, IF f \in DOMAIN given.env THEN given.env[f] ELSE given.legacy[f]>> \notin Malformed
    BY DEF LoadFails, Environment
  <2>5. /\ cfg'[f] = IF f \in DOMAIN given.flags THEN given.flags[f]
                     ELSE IF f \in DOMAIN given.env THEN given.env[f]
                     ELSE IF f \in DOMAIN given.legacy THEN given.legacy[f]
                     ELSE IF file # NoFile /\ f \in DOMAIN file THEN file[f]
                     ELSE Default[f]
    BY <1>3, <2>2, <2>3, LoadedField
  <2> HIDE DEF S, file
  <2>6. cfg'[f] \in S[first]
    <3>1. CASE f \in DOMAIN given.flags
      <4>1. first = 1
        BY <2>1, <3>1, FirstSource
      <4> QED BY <2>1, <2>5, <3>1, <4>1
    <3>2. CASE f \notin DOMAIN given.flags /\ f \in DOMAIN given.env
      <4>1. first = 2
        BY <2>1, <3>2, FirstSource
      <4> QED BY <2>1, <2>5, <3>2, <4>1
    <3>3. CASE f \notin DOMAIN given.flags \cup DOMAIN given.env /\ f \in DOMAIN given.legacy
      <4>1. first = 3
        BY <2>1, <3>3, FirstSource
      <4> QED BY <2>1, <2>5, <3>3, <4>1
    <3>4. CASE /\ f \notin DOMAIN given.flags \cup DOMAIN given.env \cup DOMAIN given.legacy
               /\ file # NoFile /\ f \in DOMAIN file
      <4>1. first = 4
        BY <2>1, <3>4, FirstSource
      <4> QED BY <2>1, <2>5, <3>4, <4>1
    <3>5. CASE /\ f \notin DOMAIN given.flags \cup DOMAIN given.env \cup DOMAIN given.legacy
               /\ ~(file # NoFile /\ f \in DOMAIN file)
      <4>1. first = 5
        BY <2>1, <3>5, FirstSource
      <4> QED BY <2>1, <2>5, <3>5, <4>1
    <3> QED BY <3>1, <3>2, <3>3, <3>4, <3>5
  <2>7. <<f, cfg'[f]>> \notin Malformed
    BY <2>2, <2>3, <2>4, <2>5, InvocationsAssumption
  <2> QED BY <1>3, <2>6, <2>7 DEF S
<1> QED BY <1>2, <1>3

ConfigInv ==
    /\ status = "given" => given \in Invocations
    /\ status \in {"loaded", "valid"} => \A f \in Fields : FieldWins(f)

LEMMA ConfigStep == ConfigInv /\ [Next]_vars => ConfigInv'
<1> SUFFICES ASSUME ConfigInv, [Next]_vars PROVE ConfigInv'
  OBVIOUS
<1>1. ASSUME given' = given, cfg' = cfg, NEW f \in Fields PROVE FieldWins(f)' = FieldWins(f)
  BY <1>1, SourcesStay DEF FieldWins
<1>2. CASE UNCHANGED configVars
  BY <1>1, <1>2 DEF configVars, ConfigInv
<1>3. CASE Load
  <2>1. given \in Invocations
    BY <1>3 DEF Load, ConfigInv
  <2>2. CASE LoadFails
    BY <1>3, <2>2 DEF Load, ConfigInv
  <2>3. CASE ~LoadFails
    <3>1. \A f \in Fields : FieldWins(f)'
      BY <1>3, <2>1, <2>3, LoadWins
    <3>2. status' = "loaded"
      BY <1>3, <2>3 DEF Load
    <3> QED BY <3>1, <3>2 DEF ConfigInv
  <2> QED BY <2>2, <2>3
<1>4. CASE Validate
  <2>1. status = "loaded" /\ status' \in {"failed", "valid"} /\ given' = given /\ cfg' = cfg
    BY <1>4 DEF Validate
  <2> QED BY <1>1, <2>1 DEF ConfigInv
<1>5. CASE Run
  BY <1>5 DEF Run, ConfigInv
<1>6. UNCHANGED configVars \/ Load \/ Validate \/ Run
  BY DEF Next, Configure, Connect, ReportNetwork, ReportFigure, Ping, Count, vars
<1> QED BY <1>2, <1>3, <1>4, <1>5, <1>6

\* Every field of a configuration that loads is that of the source with the
\* highest precedence that says anything of it, the empty text among what an
\* environment can say, for any fields and any texts.
THEOREM SourcesRank == Spec => []HighestSourceWins
<1>1. Init => ConfigInv
  BY DEF Init, ConfigInv
<1>2. ConfigInv => HighestSourceWins
  BY FieldByField DEF ConfigInv
<1> QED BY <1>1, <1>2, ConfigStep, PTL DEF Spec

-----------------------------------------------------------------------------
(* Folds over finite sets. *)

\* Induction over the subsets of a finite set: a set of them that has every
\* subset whose proper subsets it has, has them all.
LEMMA SubsetInduction ==
    ASSUME NEW S, IsFiniteSet(S), NEW W, W \subseteq SUBSET S,
           \A T \in SUBSET S : (\A U \in SUBSET T : U # T => U \in W) => T \in W
    PROVE  W = SUBSET S
<1> SUFFICES ASSUME W # SUBSET S PROVE FALSE
  OBVIOUS
<1> DEFINE R == StrictSubsetOrdering(S)
           Bad == (SUBSET S) \ W
<1>1. IsWellFoundedOn(R, SUBSET S)
  <2>1. IsWellFoundedOn(R, FiniteSubsetsOf(S))
    BY FS_StrictSubsetOrderingWellFounded
  <2>2. FiniteSubsetsOf(S) = SUBSET S
    BY FS_FiniteSubsetsOfFinite
  <2> QED BY <2>1, <2>2
<1>2. \A T, U \in SUBSET S : U \subseteq T /\ U # T => <<U, T>> \in R
  BY DEF StrictSubsetOrdering
<1>3. Bad \subseteq SUBSET S /\ Bad # {}
  OBVIOUS
<1> HIDE DEF R, Bad
<1>4. PICK T \in Bad : \A U \in Bad : ~(<<U, T>> \in R)
  BY <1>1, <1>3, WFMin
<1>5. T \in SUBSET S /\ T \notin W
  BY DEF Bad
<1>6. ASSUME NEW U \in SUBSET T, U # T PROVE U \in W
  <2>1. U \in SUBSET S /\ <<U, T>> \in R
    BY <1>2, <1>5, <1>6
  <2> QED BY <1>4, <2>1 DEF Bad
<1> QED BY <1>5, <1>6

\* A fold over the subsets of S in general: pick says which element of a subset
\* comes last, step what it does to the result for the others.
Folds(g, S, base, step, pick) ==
    g = [s \in SUBSET S |->
            IF s = {} THEN base ELSE step[<<pick[s], g[s \ {pick[s]}]>>]]

Picks(pick, S) == \A s \in SUBSET S : s # {} => pick[s] \in s

Folded(S, base, step, pick) == (CHOOSE g : Folds(g, S, base, step, pick))[S]

LEMMA OneFold ==
    ASSUME NEW S, IsFiniteSet(S), NEW base, NEW step, NEW pick, Picks(pick, S),
           NEW g, NEW h, Folds(g, S, base, step, pick), Folds(h, S, base, step, pick)
    PROVE  g = h
<1> DEFINE W == {T \in SUBSET S : g[T] = h[T]}
<1>1. ASSUME NEW T \in SUBSET S, \A U \in SUBSET T : U # T => U \in W
      PROVE  T \in W
  <2>1. CASE T = {}
    BY <2>1 DEF Folds
  <2>2. CASE T # {}
    <3>1. pick[T] \in T /\ T \ {pick[T]} \in W
      BY <1>1, <2>2 DEF Picks
    <3>2. g[T] = step[<<pick[T], g[T \ {pick[T]}]>>] /\ h[T] = step[<<pick[T], h[T \ {pick[T]}]>>]
      BY <2>2 DEF Folds
    <3> QED BY <3>1, <3>2
  <2> QED BY <2>1, <2>2
<1>2. W = SUBSET S
  <2>1. W \subseteq SUBSET S
    OBVIOUS
  <2> HIDE DEF W
  <2> QED BY <1>1, <2>1, SubsetInduction
<1>3. g = [T \in SUBSET S |-> g[T]] /\ h = [T \in SUBSET S |-> h[T]]
  BY DEF Folds
<1> QED BY <1>2, <1>3

LEMMA FoldBelow ==
    ASSUME NEW S, NEW base, NEW step, NEW pick, Picks(pick, S),
           NEW g, Folds(g, S, base, step, pick), NEW T \in SUBSET S
    PROVE  Folds([s \in SUBSET T |-> g[s]], T, base, step, pick) /\ Picks(pick, T)
<1> DEFINE h == [s \in SUBSET T |-> g[s]]
<1>1. ASSUME NEW s \in SUBSET T
      PROVE  h[s] = IF s = {} THEN base ELSE step[<<pick[s], h[s \ {pick[s]}]>>]
  <2>1. g[s] = IF s = {} THEN base ELSE step[<<pick[s], g[s \ {pick[s]}]>>]
    BY DEF Folds
  <2> QED BY <2>1
<1>2. h = [s \in SUBSET T |-> h[s]]
  OBVIOUS
<1> HIDE DEF h
<1>3. Picks(pick, T)
  BY DEF Picks
<1> QED BY <1>1, <1>2, <1>3 DEF Folds

LEMMA FoldExists ==
    ASSUME NEW S, IsFiniteSet(S), NEW base, NEW step, NEW pick, Picks(pick, S)
    PROVE  \E g : Folds(g, S, base, step, pick)
<1> DEFINE W == {T \in SUBSET S : \E g : Folds(g, T, base, step, pick)}
           G(T) == CHOOSE g : Folds(g, T, base, step, pick)
<1>1. ASSUME NEW T \in SUBSET S, \A U \in SUBSET T : U # T => U \in W
      PROVE  T \in W
  <2> DEFINE H(s) == IF s = {} THEN base
                     ELSE step[<<pick[s], G(s \ {pick[s]})[s \ {pick[s]}]>>]
             h == [s \in SUBSET T |-> H(s)]
  <2>0. ASSUME NEW s \in SUBSET T, s # {} PROVE pick[s] \in s
    BY <2>0 DEF Picks
  <2>1. ASSUME NEW s \in SUBSET T, s # T PROVE h[s] = G(s)[s]
    <3>1. Folds(G(s), s, base, step, pick)
      BY <1>1, <2>1
    <3>2. G(s)[s] = IF s = {} THEN base ELSE step[<<pick[s], G(s)[s \ {pick[s]}]>>]
      BY <3>1 DEF Folds
    <3>3. ASSUME s # {} PROVE G(s)[s \ {pick[s]}] = G(s \ {pick[s]})[s \ {pick[s]}]
      <4> DEFINE r == s \ {pick[s]}
      <4>1. r \in SUBSET s /\ r \in SUBSET T /\ r # T /\ IsFiniteSet(r)
        BY <2>1, <3>3, FS_Subset
      <4>2. Folds(G(r), r, base, step, pick) /\ Picks(pick, s)
        BY <1>1, <4>1 DEF Picks
      <4> HIDE DEF r, G
      <4>3. Folds([u \in SUBSET r |-> G(s)[u]], r, base, step, pick) /\ Picks(pick, r)
        BY <3>1, <4>1, <4>2, FoldBelow
      <4>4. [u \in SUBSET r |-> G(s)[u]] = G(r)
        BY <4>1, <4>2, <4>3, OneFold
      <4> QED BY <4>4 DEF r
    <3> HIDE DEF G
    <3> QED BY <3>2, <3>3
  <2>2. ASSUME NEW s \in SUBSET T
        PROVE  h[s] = IF s = {} THEN base ELSE step[<<pick[s], h[s \ {pick[s]}]>>]
    <3>1. ASSUME s # {}
          PROVE  s \ {pick[s]} \in SUBSET T /\ s \ {pick[s]} # T
      BY <2>0, <3>1
    <3> HIDE DEF G
    <3> QED BY <2>1, <3>1
  <2>3. h = [s \in SUBSET T |-> h[s]]
    OBVIOUS
  <2> HIDE DEF h
  <2>4. Folds(h, T, base, step, pick)
    BY <2>2, <2>3 DEF Folds
  <2> QED BY <2>4
<1>2. S \in W
  <2>1. W \subseteq SUBSET S
    OBVIOUS
  <2> HIDE DEF W
  <2>2. W = SUBSET S
    BY <1>1, <2>1, SubsetInduction
  <2> QED BY <2>2
<1> QED BY <1>2

\* The fold of each subset is one step on that of the others.
LEMMA FoldedStep ==
    ASSUME NEW S, IsFiniteSet(S), NEW base, NEW step, NEW pick, Picks(pick, S)
    PROVE  Folded(S, base, step, pick) =
             IF S = {} THEN base
             ELSE step[<<pick[S], Folded(S \ {pick[S]}, base, step, pick)>>]
<1> DEFINE G(T) == CHOOSE g : Folds(g, T, base, step, pick)
           r == S \ {pick[S]}
<1>1. Folds(G(S), S, base, step, pick)
  BY FoldExists
<1>2. G(S)[S] = IF S = {} THEN base ELSE step[<<pick[S], G(S)[r]>>]
  BY <1>1 DEF Folds
<1>3. r \in SUBSET S /\ IsFiniteSet(r)
  BY FS_Subset
<1> HIDE DEF r
<1>4. Picks(pick, r)
  BY <1>3 DEF Picks
<1>5. Folds(G(r), r, base, step, pick)
  BY <1>3, <1>4, FoldExists
<1> HIDE DEF G
<1>8. G(S)[r] = G(r)[r]
  <2>1. PICK g : g = G(S) /\ Folds(g, S, base, step, pick)
    BY <1>1
  <2>0. ASSUME NEW T \in SUBSET S PROVE Folds([u \in SUBSET T |-> g[u]], T, base, step, pick)
    <3>1. Picks(pick, S) /\ Folds(g, S, base, step, pick) /\ T \in SUBSET S
      BY <2>1
    <3>2. Folds([u \in SUBSET T |-> g[u]], T, base, step, pick) /\ Picks(pick, T)
      BY ONLY <3>1, FoldBelow
    <3> QED BY <3>2
  <2>2. Folds([u \in SUBSET r |-> g[u]], r, base, step, pick)
    BY <1>3, <2>0
  <2>4. Picks(pick, r)
    BY <1>4
  <2>3. [u \in SUBSET r |-> g[u]] = G(r)
    BY <1>3, <1>5, <2>2, <2>4, OneFold
  <2> QED BY <2>1, <2>3
<1> QED BY <1>2, <1>8 DEF Folded, G, r

-----------------------------------------------------------------------------
(* Sums. *)

SumOf(f, S) == MapThenSumSet(LAMBDA x : f[x], S)

AnElement(S) == CHOOSE x \in S : TRUE

AddsUp(sum, f, S) ==
    sum = [s \in SUBSET S |-> IF s = {} THEN 0 ELSE f[AnElement(s)] + sum[s \ {AnElement(s)}]]

\* Addition as a step, of numbers only.
AddStep(f, S) == [p \in S \X Nat |-> f[p[1]] + p[2]]
AnyOf(S) == [s \in SUBSET S |-> AnElement(s)]

LEMMA ElementIn == \A S : S # {} => AnElement(S) \in S
BY DEF AnElement

LEMMA AnyPicks == \A S : Picks(AnyOf(S), S) /\ \A s \in SUBSET S : AnyOf(S)[s] = AnElement(s)
BY DEF Picks, AnyOf, AnElement

LEMMA SumIsFold ==
    ASSUME NEW S, IsFiniteSet(S), NEW f, \A x \in S : f[x] \in Nat, NEW T \in SUBSET S
    PROVE  /\ SumOf(f, T) = Folded(T, 0, AddStep(f, S), AnyOf(S))
           /\ SumOf(f, T) \in Nat
<1> DEFINE step == AddStep(f, S)
           pick == AnyOf(S)
<1>1. IsFiniteSet(T) /\ Picks(pick, T)
  BY AnyPicks, FS_Subset DEF Picks
<1>2. \A x \in S, v \in Nat : step[<<x, v>>] = f[x] + v /\ step[<<x, v>>] \in Nat
  BY DEF AddStep
<1>3. \A s \in SUBSET T : s # {} => pick[s] = AnElement(s) /\ AnElement(s) \in s /\ AnElement(s) \in S
  BY AnyPicks DEF AnElement
<1> HIDE DEF step, pick
<1>4. ASSUME NEW g, AddsUp(g, f, T) \/ Folds(g, T, 0, step, pick)
      PROVE  \A s \in SUBSET T : g[s] \in Nat
  <2> DEFINE W == {s \in SUBSET T : g[s] \in Nat}
  <2>1. ASSUME NEW s \in SUBSET T, \A u \in SUBSET s : u # s => u \in W
        PROVE  s \in W
    <3>1. CASE s = {}
      <4>1. g[s] = 0
        <5>1. CASE AddsUp(g, f, T)
          BY <3>1, <5>1 DEF AddsUp
        <5>2. CASE Folds(g, T, 0, step, pick)
          BY <3>1, <5>2 DEF Folds
        <5> QED BY <1>4, <5>1, <5>2
      <4> QED BY <4>1
    <3>2. CASE s # {}
      <4>1. g[s \ {AnElement(s)}] \in Nat /\ AnElement(s) \in S /\ pick[s] = AnElement(s) /\ f[AnElement(s)] \in Nat
        BY <1>3, <2>1, <3>2
      <4>2. g[s] = f[AnElement(s)] + g[s \ {AnElement(s)}] \/ g[s] = step[<<AnElement(s), g[s \ {AnElement(s)}]>>]
        BY <1>4, <3>2, <4>1 DEF AddsUp, Folds
      <4> QED BY <1>2, <4>1, <4>2
    <3> QED BY <3>1, <3>2
  <2>2. W = SUBSET T
    <3>1. W \subseteq SUBSET T
      OBVIOUS
    <3> HIDE DEF W
    <3> QED BY <1>1, <2>1, <3>1, SubsetInduction
  <2> QED BY <2>2
<1>5. ASSUME NEW g, AddsUp(g, f, T) \/ Folds(g, T, 0, step, pick)
      PROVE  AddsUp(g, f, T) /\ Folds(g, T, 0, step, pick)
  <2>1. ASSUME NEW s \in SUBSET T, s # {}
        PROVE  step[<<pick[s], g[s \ {pick[s]}]>>] = f[AnElement(s)] + g[s \ {AnElement(s)}]
    <3>1. pick[s] = AnElement(s) /\ AnElement(s) \in S /\ g[s \ {AnElement(s)}] \in Nat
      BY <1>3, <1>4, <1>5, <2>1
    <3> QED BY <1>2, <3>1
  <2>2. \A s \in SUBSET T :
          (IF s = {} THEN 0 ELSE step[<<pick[s], g[s \ {pick[s]}]>>])
            = (IF s = {} THEN 0 ELSE f[AnElement(s)] + g[s \ {AnElement(s)}])
    BY <2>1
  <2>3. [s \in SUBSET T |-> IF s = {} THEN 0 ELSE step[<<pick[s], g[s \ {pick[s]}]>>]]
          = [s \in SUBSET T |-> IF s = {} THEN 0 ELSE f[AnElement(s)] + g[s \ {AnElement(s)}]]
    BY <2>2
  <2> QED BY <1>5, <2>3 DEF AddsUp, Folds
<1> DEFINE F == CHOOSE g : Folds(g, T, 0, step, pick)
           A == CHOOSE g : AddsUp(g, f, T)
<1>6. Folds(F, T, 0, step, pick)
  BY <1>1, FoldExists
<1>7. AddsUp(A, f, T)
  <2>1. AddsUp(F, f, T)
    BY <1>5, <1>6
  <2> QED BY <2>1
<1>8. SumOf(f, T) = A[T]
  BY DEF SumOf, MapThenSumSet, MapThenFoldSet, AddsUp, AnElement
<1> HIDE DEF F, A
<1>9. A = F
  BY <1>1, <1>5, <1>6, <1>7, OneFold
<1>10. A[T] \in Nat
  BY <1>4, <1>7
<1> QED BY <1>8, <1>9, <1>10 DEF Folded, F, step, pick

LEMMA SumInNat ==
    ASSUME NEW S, IsFiniteSet(S), NEW f, \A x \in S : f[x] \in Nat
    PROVE  SumOf(f, S) \in Nat
BY SumIsFold

LEMMA SumTaken ==
    ASSUME NEW S, IsFiniteSet(S), NEW f, \A x \in S : f[x] \in Nat
    PROVE  SumOf(f, S) = IF S = {} THEN 0 ELSE f[AnElement(S)] + SumOf(f, S \ {AnElement(S)})
<1> DEFINE r == S \ {AnElement(S)}
           sum(T) == Folded(T, 0, AddStep(f, S), AnyOf(S))
<1>1. SumOf(f, S) = sum(S) /\ SumOf(f, r) = sum(r) /\ sum(r) \in Nat
  BY SumIsFold
<1>2. sum(S) = IF S = {} THEN 0 ELSE AddStep(f, S)[<<AnElement(S), sum(r)>>]
  BY AnyPicks, FoldedStep
<1>3. S # {} => AnElement(S) \in S
  BY DEF AnElement
<1> HIDE DEF sum
<1>4. S # {} => AddStep(f, S)[<<AnElement(S), sum(r)>>] = f[AnElement(S)] + sum(r)
  BY <1>1, <1>3 DEF AddStep
<1> QED BY <1>1, <1>2, <1>4

\* The order in which the elements are taken does not matter.
LEMMA SumSplit ==
    ASSUME NEW S, IsFiniteSet(S), NEW f, \A x \in S : f[x] \in Nat, NEW x \in S
    PROVE  SumOf(f, S) = f[x] + SumOf(f, S \ {x})
<1> DEFINE W == {T \in SUBSET S : \A y \in T : SumOf(f, T) = f[y] + SumOf(f, T \ {y})}
<1>1. ASSUME NEW T \in SUBSET S, \A U \in SUBSET T : U # T => U \in W
      PROVE  T \in W
  <2>1. SUFFICES ASSUME NEW y \in T PROVE SumOf(f, T) = f[y] + SumOf(f, T \ {y})
    OBVIOUS
  <2> DEFINE c == AnElement(T)
  <2>2. c \in T /\ IsFiniteSet(T)
    BY ElementIn, FS_Subset
  <2>3. SumOf(f, T) = f[c] + SumOf(f, T \ {c})
    BY <2>2, SumTaken
  <2> HIDE DEF c
  <2>4. CASE y = c
    BY <2>3, <2>4
  <2>5. CASE y # c
    <3> DEFINE r == T \ {c, y}
    <3>1. T \ {c} \in W /\ T \ {y} \in W
      BY <1>1, <2>2
    <3>2. (T \ {c}) \ {y} = r /\ (T \ {y}) \ {c} = r /\ y \in T \ {c} /\ c \in T \ {y}
      BY <2>2, <2>5
    <3>3. SumOf(f, T \ {c}) = f[y] + SumOf(f, r) /\ SumOf(f, T \ {y}) = f[c] + SumOf(f, r)
      BY <3>1, <3>2
    <3>4. SumOf(f, r) \in Nat
      <4>1. r \in SUBSET S /\ IsFiniteSet(r)
        BY FS_Subset
      <4> QED BY <4>1, SumInNat
    <3>5. f[c] \in Nat /\ f[y] \in Nat
      BY <2>2
    <3> HIDE DEF r
    <3> QED BY <2>3, <3>3, <3>4, <3>5
  <2> QED BY <2>4, <2>5
<1>2. S \in W
  <2>1. W \subseteq SUBSET S
    OBVIOUS
  <2> HIDE DEF W
  <2>2. W = SUBSET S
    BY <1>1, <2>1, SubsetInduction
  <2> QED BY <2>2
<1> QED BY <1>2

\* Sums of equal numbers are equal.
LEMMA SumSame ==
    ASSUME NEW S, IsFiniteSet(S), NEW f, NEW g, \A x \in S : f[x] \in Nat /\ g[x] = f[x]
    PROVE  SumOf(f, S) = SumOf(g, S)
<1> DEFINE W == {T \in SUBSET S : SumOf(f, T) = SumOf(g, T)}
<1>1. ASSUME NEW T \in SUBSET S, \A U \in SUBSET T : U # T => U \in W
      PROVE  T \in W
  <2>1. IsFiniteSet(T)
    BY FS_Subset
  <2>2. /\ SumOf(f, T) = IF T = {} THEN 0 ELSE f[AnElement(T)] + SumOf(f, T \ {AnElement(T)})
        /\ SumOf(g, T) = IF T = {} THEN 0 ELSE g[AnElement(T)] + SumOf(g, T \ {AnElement(T)})
    BY <2>1, SumTaken
  <2>3. T # {} => AnElement(T) \in T /\ T \ {AnElement(T)} \in W
    BY <1>1, ElementIn
  <2> QED BY <2>2, <2>3
<1>2. W = SUBSET S
  <2>1. W \subseteq SUBSET S
    OBVIOUS
  <2> HIDE DEF W
  <2> QED BY <1>1, <2>1, SubsetInduction
<1> QED BY <1>2

\* Where only one summand changes, the sum changes with it.
LEMMA SumChanged ==
    ASSUME NEW S, IsFiniteSet(S), NEW f, NEW g, NEW x \in S,
           \A y \in S : f[y] \in Nat /\ g[y] \in Nat /\ (y # x => g[y] = f[y])
    PROVE  SumOf(g, S) + f[x] = SumOf(f, S) + g[x]
<1>1. IsFiniteSet(S \ {x})
  BY FS_Subset
<1>2. SumOf(f, S) = f[x] + SumOf(f, S \ {x}) /\ SumOf(g, S) = g[x] + SumOf(g, S \ {x})
  BY SumSplit
<1>3. SumOf(f, S \ {x}) = SumOf(g, S \ {x})
  BY <1>1, SumSame
<1>4. SumOf(f, S \ {x}) \in Nat /\ f[x] \in Nat /\ g[x] \in Nat
  BY <1>1, SumInNat
<1> QED BY <1>2, <1>3, <1>4

\* What is zero need not be added.
LEMMA SumOfPart ==
    ASSUME NEW S, IsFiniteSet(S), NEW f, \A x \in S : f[x] \in Nat, NEW P \in SUBSET S,
           \A x \in S \ P : f[x] = 0
    PROVE  SumOf(f, P) = SumOf(f, S)
<1> DEFINE W == {T \in SUBSET S : P \subseteq T => SumOf(f, P) = SumOf(f, T)}
<1>1. ASSUME NEW T \in SUBSET S, \A U \in SUBSET T : U # T => U \in W
      PROVE  T \in W
  <2>1. SUFFICES ASSUME P \subseteq T, P # T PROVE SumOf(f, P) = SumOf(f, T)
    OBVIOUS
  <2>2. PICK x \in T : x \notin P
    BY <2>1
  <2>3. T \ {x} \in W /\ P \subseteq T \ {x}
    BY <1>1, <2>1, <2>2
  <2>4. IsFiniteSet(T) /\ IsFiniteSet(T \ {x})
    BY FS_Subset
  <2>5. SumOf(f, T) = f[x] + SumOf(f, T \ {x})
    BY <2>2, <2>4, SumSplit
  <2>6. f[x] = 0 /\ SumOf(f, T \ {x}) \in Nat
    BY <2>2, <2>4, SumInNat
  <2> QED BY <2>3, <2>5, <2>6
<1>2. S \in W
  <2>1. W \subseteq SUBSET S
    OBVIOUS
  <2> HIDE DEF W
  <2>2. W = SUBSET S
    BY <1>1, <2>1, SubsetInduction
  <2> QED BY <2>2
<1> QED BY <1>2

-----------------------------------------------------------------------------
(* Loops over sequences. *)

\* Induction over the numbers up to n.
LEMMA UpTo ==
    ASSUME NEW n \in Nat, NEW W, 0 \in W, \A k \in 0..n : k \in W /\ k < n => k + 1 \in W
    PROVE  \A k \in 0..n : k \in W
<1> DEFINE R == OpToRel(<, Nat)
           Bad == {k \in 0..n : k \notin W}
<1> SUFFICES ASSUME Bad # {} PROVE FALSE
  OBVIOUS
<1>1. IsWellFoundedOn(R, Nat)
  BY NatLessThanWellFounded
<1>2. Bad \subseteq Nat
  OBVIOUS
<1>3. \A k, m \in Nat : k < m => <<k, m>> \in R
  BY DEF OpToRel
<1> HIDE DEF R, Bad
<1>4. PICK m \in Bad : \A k \in Bad : ~(<<k, m>> \in R)
  BY <1>1, <1>2, WFMin
<1>5. m \in Nat /\ m - 1 \in 0..n /\ m - 1 \in Nat /\ m - 1 < m /\ m - 1 < n /\ m \notin W
  BY DEF Bad
<1>6. m - 1 \notin Bad
  BY <1>3, <1>4, <1>5
<1>7. m - 1 \in W
  BY <1>5, <1>6 DEF Bad
<1> QED BY <1>5, <1>7

\* Induction over the sequences of elements of A.
LEMMA SeqInduction ==
    ASSUME NEW A, NEW W, <<>> \in W, \A s \in Seq(A), e \in A : s \in W => Append(s, e) \in W
    PROVE  \A s \in Seq(A) : s \in W
<1> SUFFICES ASSUME NEW t \in Seq(A) PROVE t \in W
  OBVIOUS
<1> DEFINE V == {k \in 0..Len(t) : \A s \in Seq(A) : Len(s) = k => s \in W}
<1>1. Len(t) \in Nat
  OBVIOUS
<1>2. 0 \in V
  <2>1. \A s \in Seq(A) : Len(s) = 0 => s = <<>>
    BY EmptySeq
  <2> QED BY <1>1, <2>1
<1>3. ASSUME NEW k \in 0..Len(t), k \in V, k < Len(t) PROVE k + 1 \in V
  <2>1. ASSUME NEW s \in Seq(A), Len(s) = k + 1 PROVE s \in W
    <3>1. s # <<>>
      BY <2>1
    <3>2. PICK r \in Seq(A), e \in A : s = Append(r, e)
      BY <3>1, SequenceEmptyOrAppend
    <3>3. Len(r) = k
      BY <2>1, <3>2, AppendProperties
    <3> QED BY <1>3, <3>2, <3>3
  <2> QED BY <1>1, <1>3, <2>1
<1> HIDE DEF V
<1>4. \A k \in 0..Len(t) : k \in V /\ k < Len(t) => k + 1 \in V
  BY <1>3
<1>5. \A k \in 0..Len(t) : k \in V
  BY <1>1, <1>2, <1>4, UpTo
<1>6. Len(t) \in V
  BY <1>1, <1>5
<1> QED BY <1>6 DEF V

\* The greatest of some indices is one of them.
LEMMA MaxIn ==
    ASSUME NEW n \in Nat, NEW T \in SUBSET (1..n), T # {}
    PROVE  Max(T) \in T /\ \A k \in T : Max(T) >= k
<1> DEFINE S == 1..n
           W == {U \in SUBSET S : U # {} => \E m \in U : \A k \in U : m >= k}
<1>1. ASSUME NEW U \in SUBSET S, \A V \in SUBSET U : V # U => V \in W
      PROVE  U \in W
  <2> SUFFICES ASSUME U # {} PROVE \E m \in U : \A k \in U : m >= k
    OBVIOUS
  <2>1. PICK x \in U : TRUE
    OBVIOUS
  <2>2. U \ {x} \in W
    BY <1>1, <2>1
  <2>3. CASE U = {x}
    BY <2>3
  <2>4. CASE U # {x}
    <3>1. PICK m \in U \ {x} : \A k \in U \ {x} : m >= k
      BY <2>1, <2>2, <2>4
    <3>2. m \in Int /\ x \in Int /\ \A k \in U : k \in Int
      OBVIOUS
    <3>3. CASE m >= x
      BY <3>1, <3>2, <3>3
    <3>4. CASE ~(m >= x)
      BY <3>1, <3>2, <3>4
    <3> QED BY <3>3, <3>4
  <2> QED BY <2>3, <2>4
<1>2. W = SUBSET S
  <2>1. W \subseteq SUBSET S /\ IsFiniteSet(S)
    BY FS_Interval
  <2> HIDE DEF W, S
  <2> QED BY <1>1, <2>1, SubsetInduction
<1>3. \E m \in T : \A k \in T : m >= k
  BY <1>2
<1> QED BY <1>3 DEF Max

Steps(A, Acc) == [A \X Acc -> Acc]
Greatest(S) == [s \in SUBSET S |-> Max(s)]
LoopStep(seq, step, Acc) == [p \in (DOMAIN seq) \X Acc |-> step[<<seq[p[1]], p[2]>>]]

\* A loop over a sequence that starts with base and goes on by step.
LoopOf(seq, base, step, Acc) ==
    Folded(DOMAIN seq, base, LoopStep(seq, step, Acc), Greatest(DOMAIN seq))

LEMMA GreatestPicks ==
    ASSUME NEW n \in Nat, NEW k \in 0..n
    PROVE  /\ Picks(Greatest(1..n), 1..k) /\ IsFiniteSet(1..k)
           /\ k > 0 => Greatest(1..n)[1..k] = k /\ (1..k) \ {k} = 1..(k - 1)
<1>1. ASSUME NEW T \in SUBSET (1..n), T # {} PROVE Greatest(1..n)[T] = Max(T) /\ Max(T) \in T
  BY <1>1, MaxIn DEF Greatest
<1>2. Picks(Greatest(1..n), 1..k)
  <2>1. \A T \in SUBSET (1..k) : T \in SUBSET (1..n)
    OBVIOUS
  <2> QED BY <1>1, <2>1 DEF Picks
<1>3. ASSUME k > 0 PROVE Greatest(1..n)[1..k] = k /\ (1..k) \ {k} = 1..(k - 1)
  <2>1. 1..k \in SUBSET (1..n) /\ 1..k # {} /\ k \in 1..k
    BY <1>3
  <2>2. Max(1..k) \in 1..k /\ Max(1..k) >= k
    BY <2>1, MaxIn
  <2>3. (1..k) \ {k} = 1..(k - 1)
    BY <1>3
  <2>4. Max(1..k) = k
    BY <1>3, <2>2
  <2> QED BY <1>1, <2>1, <2>3, <2>4
<1> QED BY <1>2, <1>3, FS_Interval

\* What such a loop has at each index.
LoopRun(run, seq, base, step, Acc) ==
    /\ run \in [0..Len(seq) -> Acc]
    /\ run[0] = base
    /\ \A k \in 0..(Len(seq) - 1) : run[k + 1] = step[<<seq[k + 1], run[k]>>]

LEMMA LoopRuns ==
    ASSUME NEW A, NEW Acc, NEW base \in Acc, NEW step \in Steps(A, Acc),
           NEW seq \in Seq(A)
    PROVE  \E run : /\ LoopRun(run, seq, base, step, Acc)
                    /\ LoopOf(seq, base, step, Acc) = run[Len(seq)]
<1> DEFINE n == Len(seq)
           each == LoopStep(seq, step, Acc)
           pick == Greatest(1..n)
           run == [k \in 0..n |-> Folded(1..k, base, each, pick)]
           W == {k \in 0..n : run[k] \in Acc}
<1>1. n \in Nat /\ DOMAIN seq = 1..n
  BY LenProperties
<1>2. run[0] = base
  <2>1. Picks(pick, {})
    BY DEF Picks
  <2> HIDE DEF each, pick
  <2>2. Folded({}, base, each, pick) = base
    BY <2>1, FoldedStep, FS_EmptySet
  <2>3. 0 \in 0..n /\ 1..0 = {}
    BY <1>1
  <2> HIDE DEF n
  <2> QED BY <2>2, <2>3
<1>3. ASSUME NEW k \in 0..(n - 1)
      PROVE  run[k + 1] = each[<<k + 1, run[k]>>]
  <2> DEFINE S == 1..(k + 1)
  <2>1. k + 1 \in 0..n /\ k \in 0..n /\ k + 1 > 0
    BY <1>1
  <2>2. /\ Picks(pick, S) /\ IsFiniteSet(S) /\ S # {} /\ pick[S] = k + 1
        /\ S \ {k + 1} = 1..((k + 1) - 1)
    BY <1>1, <2>1, GreatestPicks
  <2>3. 1..((k + 1) - 1) = 1..k
    BY <1>1
  <2>4. run[k + 1] = Folded(S, base, each, pick) /\ run[k] = Folded(1..k, base, each, pick)
    BY <2>1
  <2> HIDE DEF S, n, each, pick, run
  <2>5. Folded(S, base, each, pick) = each[<<pick[S], Folded(S \ {pick[S]}, base, each, pick)>>]
    BY <2>2, FoldedStep
  <2>6. Folded(S, base, each, pick) = each[<<k + 1, Folded(1..k, base, each, pick)>>]
    BY <2>2, <2>3, <2>5
  <2> QED BY <2>4, <2>6
<1>4. ASSUME NEW k \in 0..(n - 1), run[k] \in Acc
      PROVE  run[k + 1] = step[<<seq[k + 1], run[k]>>] /\ run[k + 1] \in Acc
  <2>1. k + 1 \in 1..n
    BY <1>1
  <2>2. seq[k + 1] \in A
    BY <2>1, ElementOfSeq
  <2>3. <<k + 1, run[k]>> \in (DOMAIN seq) \X Acc
    BY <1>1, <1>4, <2>1
  <2> HIDE DEF run
  <2>4. each[<<k + 1, run[k]>>] = step[<<seq[k + 1], run[k]>>]
    BY <2>3 DEF LoopStep
  <2> QED BY <1>3, <1>4, <2>2, <2>4 DEF Steps
<1>5. \A k \in 0..n : k \in W
  <2>1. 0 \in W
    BY <1>1, <1>2
  <2>2. ASSUME NEW k \in 0..n, k \in W, k < n PROVE k + 1 \in W
    <3>1. k \in 0..(n - 1) /\ k + 1 \in 0..n
      BY <1>1, <2>2
    <3>2. run[k] \in Acc
      BY <2>2
    <3> HIDE DEF run, n
    <3>3. run[k + 1] \in Acc
      BY <1>4, <3>1, <3>2
    <3> QED BY <3>1, <3>3
  <2> HIDE DEF W, n
  <2>3. \A k \in 0..n : k \in W /\ k < n => k + 1 \in W
    BY <2>2
  <2> QED BY <1>1, <2>1, <2>3, UpTo
<1>6. LoopOf(seq, base, step, Acc) = run[n]
  <2>1. n \in 0..n
    BY <1>1
  <2>2. run[n] = Folded(1..n, base, each, pick)
    BY <2>1
  <2> QED BY <1>1, <2>2 DEF LoopOf
<1>7. run \in [0..n -> Acc]
  <2>1. run = [k \in 0..n |-> run[k]]
    OBVIOUS
  <2> HIDE DEF run
  <2> QED BY <1>5, <2>1
<1>8. \A k \in 0..(n - 1) : run[k] \in Acc
  BY <1>1, <1>7
<1> HIDE DEF run
<1> QED BY <1>2, <1>4, <1>6, <1>7, <1>8 DEF LoopRun

LEMMA LoopEmpty ==
    ASSUME NEW base, NEW step, NEW Acc
    PROVE  LoopOf(<<>>, base, step, Acc) = base
<1>1. DOMAIN <<>> = {}
  OBVIOUS
<1>2. \A pick : Picks(pick, {})
  BY DEF Picks
<1>3. \A each, pick : Folded({}, base, each, pick) = base
  BY <1>2, FoldedStep, FS_EmptySet
<1> QED BY <1>1, <1>3 DEF LoopOf

\* One more element is one more step.
LEMMA LoopAppend ==
    ASSUME NEW A, NEW Acc, NEW base \in Acc, NEW step \in Steps(A, Acc),
           NEW seq \in Seq(A), NEW e \in A
    PROVE  /\ LoopOf(Append(seq, e), base, step, Acc) = step[<<e, LoopOf(seq, base, step, Acc)>>]
           /\ LoopOf(seq, base, step, Acc) \in Acc
<1> DEFINE n == Len(seq)
           more == Append(seq, e)
<1>1. /\ n \in Nat /\ more \in Seq(A) /\ Len(more) = n + 1
      /\ more[n + 1] = e /\ \A k \in 1..n : more[k] = seq[k]
  BY AppendProperties
<1> HIDE DEF more
<1>0. ASSUME NEW s \in Seq(A)
      PROVE  \E run : /\ LoopRun(run, s, base, step, Acc)
                      /\ LoopOf(s, base, step, Acc) = run[Len(s)]
  BY LoopRuns
<1>2. PICK f : LoopRun(f, seq, base, step, Acc) /\ LoopOf(seq, base, step, Acc) = f[n]
  BY <1>0
<1>3. PICK g : LoopRun(g, more, base, step, Acc) /\ LoopOf(more, base, step, Acc) = g[n + 1]
  BY <1>0, <1>1
<1> DEFINE W == {k \in 0..n : f[k] = g[k]}
<1>4. \A k \in 0..n : k \in W
  <2>1. 0 \in W
    BY <1>1, <1>2, <1>3 DEF LoopRun
  <2>2. ASSUME NEW k \in 0..n, k \in W, k < n PROVE k + 1 \in W
    <3>1. k \in 0..(n - 1) /\ k \in 0..((n + 1) - 1) /\ k + 1 \in 1..n /\ k + 1 \in 0..n
      BY <1>1, <2>2
    <3>2. f[k + 1] = step[<<seq[k + 1], f[k]>>]
      BY <1>2, <3>1 DEF LoopRun
    <3>3. g[k + 1] = step[<<more[k + 1], g[k]>>]
      BY <1>1, <1>3, <3>1 DEF LoopRun
    <3>4. f[k] = g[k] /\ more[k + 1] = seq[k + 1]
      BY <1>1, <2>2, <3>1
    <3>5. f[k + 1] = g[k + 1]
      BY <3>2, <3>3, <3>4
    <3> QED BY <3>1, <3>5
  <2>3. \A k \in 0..n : k \in W /\ k < n => k + 1 \in W
    BY <2>2
  <2> HIDE DEF W, n
  <2> QED BY <1>1, <2>1, <2>3, UpTo
<1>5. n \in 0..n /\ n \in 0..((n + 1) - 1)
  BY <1>1
<1>6. g[n + 1] = step[<<more[n + 1], g[n]>>]
  BY <1>1, <1>3, <1>5 DEF LoopRun
<1>7. f[n] = g[n] /\ f[n] \in Acc
  BY <1>2, <1>4, <1>5 DEF LoopRun
<1> QED BY <1>1, <1>2, <1>3, <1>6, <1>7 DEF more

KeepStep(A, S) == [p \in A \X Seq(A) |-> IF p[1] \in S THEN Append(p[2], p[1]) ELSE p[2]]

Keeps(g, seq, S) ==
    g = [s \in SUBSET (DOMAIN seq) |->
            IF s = {} THEN <<>>
            ELSE IF seq[Max(s)] \in S THEN Append(g[s \ {Max(s)}], seq[Max(s)])
            ELSE g[s \ {Max(s)}]]

LEMMA KeptIsLoop ==
    ASSUME NEW A, NEW seq \in Seq(A), NEW S
    PROVE  Kept(seq, S) = LoopOf(seq, <<>>, KeepStep(A, S), Seq(A))
<1> DEFINE n == Len(seq)
           I == 1..n
           step == LoopStep(seq, KeepStep(A, S), Seq(A))
           pick == Greatest(I)
           By(g, s) == IF seq[Max(s)] \in S THEN Append(g[s \ {Max(s)}], seq[Max(s)])
                       ELSE g[s \ {Max(s)}]
<1>1. n \in Nat /\ DOMAIN seq = I /\ Picks(pick, I) /\ IsFiniteSet(I)
  <2>1. n \in Nat /\ DOMAIN seq = I
    BY LenProperties
  <2> HIDE DEF n
  <2>2. n \in 0..n
    BY <2>1
  <2> QED BY <2>1, <2>2, GreatestPicks
<1>2. ASSUME NEW s \in SUBSET I, s # {}
      PROVE  pick[s] = Max(s) /\ Max(s) \in s /\ Max(s) \in I /\ seq[Max(s)] \in A
  <2>1. Max(s) \in s
    BY <1>1, <1>2, MaxIn
  <2> QED BY <1>1, <2>1, ElementOfSeq DEF Greatest
<1>3. \A i \in I, kept \in Seq(A) :
        /\ step[<<i, kept>>] = IF seq[i] \in S THEN Append(kept, seq[i]) ELSE kept
        /\ step[<<i, kept>>] \in Seq(A)
  <2>1. ASSUME NEW i \in I, NEW kept \in Seq(A)
        PROVE  step[<<i, kept>>] = IF seq[i] \in S THEN Append(kept, seq[i]) ELSE kept
    <3>1. <<i, kept>> \in (DOMAIN seq) \X Seq(A) /\ <<seq[i], kept>> \in A \X Seq(A)
      BY <1>1, ElementOfSeq
    <3>2. step[<<i, kept>>] = KeepStep(A, S)[<<seq[i], kept>>]
      BY <3>1 DEF LoopStep
    <3> QED BY <3>1, <3>2 DEF KeepStep
  <2>2. ASSUME NEW i \in I PROVE seq[i] \in A
    BY ElementOfSeq
  <2>3. ASSUME NEW i \in I, NEW kept \in Seq(A)
        PROVE  (IF seq[i] \in S THEN Append(kept, seq[i]) ELSE kept) \in Seq(A)
    BY <2>2, AppendProperties
  <2> HIDE DEF step, I
  <2> QED BY <2>1, <2>3
<1> HIDE DEF step, pick, I, n
<1>4. ASSUME NEW g, Keeps(g, seq, S) \/ Folds(g, I, <<>>, step, pick)
      PROVE  \A s \in SUBSET I :
               /\ g[s] \in Seq(A)
               /\ s # {} => step[<<pick[s], g[s \ {pick[s]}]>>] = By(g, s)
  <2> DEFINE W == {s \in SUBSET I : g[s] \in Seq(A)}
  <2>1. ASSUME NEW s \in SUBSET I, s # {}, g[s \ {Max(s)}] \in Seq(A)
        PROVE  step[<<pick[s], g[s \ {pick[s]}]>>] = By(g, s) /\ By(g, s) \in Seq(A)
    <3>1. pick[s] = Max(s) /\ Max(s) \in I
      BY <1>2, <2>1
    <3>2. PICK i \in I, kept \in Seq(A) : i = Max(s) /\ kept = g[s \ {Max(s)}]
      BY <2>1, <3>1
    <3>3. /\ step[<<i, kept>>] = IF seq[i] \in S THEN Append(kept, seq[i]) ELSE kept
          /\ step[<<i, kept>>] \in Seq(A)
      BY <1>3
    <3>4. By(g, s) = IF seq[i] \in S THEN Append(kept, seq[i]) ELSE kept
      BY <3>2
    <3> QED BY <3>1, <3>2, <3>3, <3>4
  <2>2. ASSUME NEW s \in SUBSET I, \A u \in SUBSET s : u # s => u \in W
        PROVE  s \in W
    <3>1. CASE s = {}
      <4>1. g[s] = <<>>
        <5>1. CASE Keeps(g, seq, S)
          BY <1>1, <3>1, <5>1 DEF Keeps
        <5>2. CASE Folds(g, I, <<>>, step, pick)
          BY <3>1, <5>2 DEF Folds
        <5> QED BY <1>4, <5>1, <5>2
      <4> QED BY <4>1, EmptySeq
    <3>2. CASE s # {}
      <4>1. g[s \ {Max(s)}] \in Seq(A)
        BY <1>2, <2>2, <3>2
      <4>2. step[<<pick[s], g[s \ {pick[s]}]>>] = By(g, s) /\ By(g, s) \in Seq(A)
        BY <2>1, <3>2, <4>1
      <4>3. g[s] = By(g, s)
        <5>1. CASE Keeps(g, seq, S)
          BY <1>1, <3>2, <5>1 DEF Keeps
        <5>2. CASE Folds(g, I, <<>>, step, pick)
          <6>1. g[s] = step[<<pick[s], g[s \ {pick[s]}]>>]
            BY <3>2, <5>2 DEF Folds
          <6> QED BY <4>2, <6>1
        <5> QED BY <1>4, <5>1, <5>2
      <4> QED BY <4>2, <4>3
    <3> QED BY <3>1, <3>2
  <2>3. W = SUBSET I
    <3>1. W \subseteq SUBSET I
      OBVIOUS
    <3> HIDE DEF W
    <3> QED BY <1>1, <2>2, <3>1, SubsetInduction
  <2>4. \A s \in SUBSET I : g[s] \in Seq(A) /\ s \ {Max(s)} \in SUBSET I
    BY <2>3
  <2> QED BY <2>1, <2>4
<1>5. ASSUME NEW g, Keeps(g, seq, S) \/ Folds(g, I, <<>>, step, pick)
      PROVE  Keeps(g, seq, S) /\ Folds(g, I, <<>>, step, pick)
  <2>1. [s \in SUBSET I |-> IF s = {} THEN <<>> ELSE step[<<pick[s], g[s \ {pick[s]}]>>]]
          = [s \in SUBSET I |-> IF s = {} THEN <<>> ELSE By(g, s)]
    <3>1. \A s \in SUBSET I : s # {} => step[<<pick[s], g[s \ {pick[s]}]>>] = By(g, s)
      BY <1>4, <1>5
    <3> HIDE DEF By
    <3> QED BY <3>1
  <2> QED BY <1>1, <1>5, <2>1 DEF Keeps, Folds
<1> DEFINE F == CHOOSE g : Folds(g, I, <<>>, step, pick)
           K == CHOOSE g : Keeps(g, seq, S)
<1>6. Folds(F, I, <<>>, step, pick)
  BY <1>1, FoldExists
<1>7. Keeps(K, seq, S)
  <2>1. Keeps(F, seq, S)
    BY <1>5, <1>6
  <2> QED BY <2>1
<1>8. Kept(seq, S) = K[I]
  BY <1>1 DEF Kept, FoldLeft, MapThenFoldSet, Keeps
<1> HIDE DEF F, K
<1>9. K = F
  BY <1>1, <1>5, <1>6, <1>7, OneFold
<1> QED BY <1>1, <1>8, <1>9 DEF LoopOf, Folded, F, step, pick

LEMMA KeptEmpty == \A S : Kept(<<>>, S) = <<>>
BY KeptIsLoop, LoopEmpty, EmptySeq

LEMMA KeptAppend ==
    ASSUME NEW A, NEW seq \in Seq(A), NEW e \in A, NEW S
    PROVE  /\ Kept(seq, S) \in Seq(A)
           /\ e \in S => Kept(Append(seq, e), S) = Append(Kept(seq, S), e)
           /\ e \notin S => Kept(Append(seq, e), S) = Kept(seq, S)
<1> DEFINE step == KeepStep(A, S)
           loop(s) == LoopOf(s, <<>>, step, Seq(A))
<1>1. step \in Steps(A, Seq(A))
  <2>1. \A p \in A \X Seq(A) : (IF p[1] \in S THEN Append(p[2], p[1]) ELSE p[2]) \in Seq(A)
    BY AppendProperties
  <2> QED BY <2>1 DEF Steps, KeepStep
<1>2. <<>> \in Seq(A) /\ Append(seq, e) \in Seq(A)
  BY EmptySeq, AppendProperties
<1>3. Kept(seq, S) = loop(seq) /\ Kept(Append(seq, e), S) = loop(Append(seq, e))
  BY <1>2, KeptIsLoop
<1> HIDE DEF step
<1>4. loop(Append(seq, e)) = step[<<e, loop(seq)>>] /\ loop(seq) \in Seq(A)
  BY <1>1, <1>2, LoopAppend
<1> HIDE DEF loop
<1>5. step[<<e, loop(seq)>>] = IF e \in S THEN Append(loop(seq), e) ELSE loop(seq)
  BY <1>4 DEF step, KeepStep
<1> QED BY <1>3, <1>4, <1>5

LEMMA KeptTakes ==
    ASSUME NEW A, NEW S, NEW e \in A, e \in S, NEW seq \in Seq(A)
    PROVE  Kept(Append(seq, e), S) = Append(Kept(seq, S), e)
BY KeptAppend

LEMMA KeptSkips ==
    ASSUME NEW A, NEW S, NEW e \in A, e \notin S, NEW seq \in Seq(A)
    PROVE  Kept(Append(seq, e), S) = Kept(seq, S)
BY KeptAppend

LEMMA KeptInSeq ==
    ASSUME NEW A, NEW seq \in Seq(A), NEW S
    PROVE  Kept(seq, S) \in Seq(A)
<1>1. CASE seq = <<>>
  BY <1>1, KeptEmpty
<1>2. CASE seq # <<>>
  <2>1. PICK e : e \in A
    BY <1>2, SequenceEmptyOrAppend
  <2> QED BY <2>1, KeptAppend
<1> QED BY <1>1, <1>2

LEMMA AppendRange ==
    ASSUME NEW A, NEW seq \in Seq(A), NEW e \in A
    PROVE  Range(Append(seq, e)) = Range(seq) \cup {e}
<1> DEFINE more == Append(seq, e)
<1>1. /\ Len(seq) \in Nat /\ more \in Seq(A) /\ Len(more) = Len(seq) + 1
      /\ more[Len(seq) + 1] = e /\ \A k \in 1..Len(seq) : more[k] = seq[k]
  BY AppendProperties
<1>2. Range(seq) = {seq[i] : i \in 1..Len(seq)} /\ Range(more) = {more[i] : i \in 1..Len(more)}
  BY <1>1, RangeEquality
<1> HIDE DEF more
<1>3. 1..Len(more) = 1..Len(seq) \cup {Len(seq) + 1}
  BY <1>1
<1>4. {more[i] : i \in 1..Len(more)} = {more[i] : i \in 1..Len(seq)} \cup {more[Len(seq) + 1]}
  BY <1>3
<1>5. {more[i] : i \in 1..Len(seq)} = {seq[i] : i \in 1..Len(seq)}
  BY <1>1
<1> QED BY <1>1, <1>2, <1>4, <1>5 DEF more

\* What is kept is the elements of the set, and only those.
LEMMA KeptRange ==
    ASSUME NEW A, NEW seq \in Seq(A), NEW S
    PROVE  Range(Kept(seq, S)) = Range(seq) \cap S
<1> DEFINE W == {s \in Seq(A) : Range(Kept(s, S)) = Range(s) \cap S}
<1>1. <<>> \in W
  <2>1. Range(<<>>) = {} /\ <<>> \in Seq(A)
    BY EmptySeq DEF Range
  <2> QED BY <2>1, KeptEmpty
<1>2. ASSUME NEW s \in Seq(A), NEW e \in A, s \in W PROVE Append(s, e) \in W
  <2>1. Range(Append(s, e)) = Range(s) \cup {e} /\ Append(s, e) \in Seq(A)
    BY AppendRange, AppendProperties
  <2>2. Kept(s, S) \in Seq(A)
    BY KeptInSeq
  <2>3. Range(Append(Kept(s, S), e)) = Range(Kept(s, S)) \cup {e}
    BY <2>2, AppendRange
  <2>4. Range(Kept(s, S)) = Range(s) \cap S
    BY <1>2
  <2>5. CASE e \in S
    <3>1. Kept(Append(s, e), S) = Append(Kept(s, S), e)
      BY <2>5, KeptAppend
    <3> QED BY <2>1, <2>3, <2>4, <2>5, <3>1
  <2>6. CASE e \notin S
    <3>1. Kept(Append(s, e), S) = Kept(s, S)
      BY <2>6, KeptAppend
    <3> QED BY <2>1, <2>4, <2>6, <3>1
  <2> QED BY <2>5, <2>6
<1> HIDE DEF W
<1>3. seq \in W
  BY <1>1, <1>2, SeqInduction
<1> QED BY <1>3 DEF W

\* Every element is kept by one of two loops that split the elements.
LEMMA KeptLengths ==
    ASSUME NEW A, NEW seq \in Seq(A), NEW S, NEW T, \A a \in A : a \in S <=> a \notin T
    PROVE  Len(Kept(seq, S)) + Len(Kept(seq, T)) = Len(seq)
<1> DEFINE W == {s \in Seq(A) : Len(Kept(s, S)) + Len(Kept(s, T)) = Len(s)}
<1>1. <<>> \in W
  BY KeptEmpty, EmptySeq
<1>2. ASSUME NEW s \in Seq(A), NEW e \in A, s \in W PROVE Append(s, e) \in W
  <2>1. Append(s, e) \in Seq(A) /\ Len(Append(s, e)) = Len(s) + 1
    BY AppendProperties
  <2>2. /\ Kept(s, S) \in Seq(A) /\ Len(Append(Kept(s, S), e)) = Len(Kept(s, S)) + 1
        /\ Kept(s, T) \in Seq(A) /\ Len(Append(Kept(s, T), e)) = Len(Kept(s, T)) + 1
    BY KeptInSeq, AppendProperties
  <2>3. /\ e \in S => Kept(Append(s, e), S) = Append(Kept(s, S), e)
        /\ e \notin S => Kept(Append(s, e), S) = Kept(s, S)
        /\ e \in T => Kept(Append(s, e), T) = Append(Kept(s, T), e)
        /\ e \notin T => Kept(Append(s, e), T) = Kept(s, T)
    BY KeptTakes, KeptSkips
  <2>4. Len(s) \in Nat /\ Len(Kept(s, S)) \in Nat /\ Len(Kept(s, T)) \in Nat
    BY <2>2, LenProperties
  <2>5. Len(Kept(s, S)) + Len(Kept(s, T)) = Len(s)
    BY <1>2
  <2>6. Len(Kept(Append(s, e), S)) + Len(Kept(Append(s, e), T)) = Len(s) + 1
    <3>1. CASE e \in S
      <4>1. e \notin T
        BY <3>1
      <4>2. /\ Len(Kept(Append(s, e), S)) = Len(Kept(s, S)) + 1
            /\ Len(Kept(Append(s, e), T)) = Len(Kept(s, T))
        BY <2>2, <2>3, <3>1, <4>1
      <4> QED BY <2>4, <2>5, <4>2
    <3>2. CASE e \notin S
      <4>1. e \in T
        BY <3>2
      <4>2. /\ Len(Kept(Append(s, e), S)) = Len(Kept(s, S))
            /\ Len(Kept(Append(s, e), T)) = Len(Kept(s, T)) + 1
        BY <2>2, <2>3, <3>2, <4>1
      <4> QED BY <2>4, <2>5, <4>2
    <3> QED BY <3>1, <3>2
  <2> QED BY <2>1, <2>6
<1> HIDE DEF W
<1>3. seq \in W
  BY <1>1, <1>2, SeqInduction
<1> QED BY <1>3 DEF W

LEMMA ConcatAppend ==
    ASSUME NEW A, NEW s \in Seq(A), NEW t \in Seq(A), NEW e \in A
    PROVE  s \o Append(t, e) = Append(s \o t, e)
<1>1. <<e>> \in Seq(A) /\ s \o t \in Seq(A)
  BY ConcatProperties
<1>2. Append(t, e) = t \o <<e>> /\ Append(s \o t, e) = (s \o t) \o <<e>>
  BY <1>1, AppendIsConcat
<1> QED BY <1>1, <1>2, ConcatAssociative

LEMMA KeptConcat ==
    ASSUME NEW A, NEW s \in Seq(A), NEW t \in Seq(A), NEW S
    PROVE  Kept(s \o t, S) = Kept(s, S) \o Kept(t, S)
<1> DEFINE W == {r \in Seq(A) : Kept(s \o r, S) = Kept(s, S) \o Kept(r, S)}
<1>0. Kept(s, S) \in Seq(A)
  BY KeptInSeq
<1>1. <<>> \in W
  <2>1. <<>> \in Seq(A) /\ s \o <<>> = s /\ Kept(s, S) \o <<>> = Kept(s, S)
    BY <1>0, EmptySeq, ConcatEmptySeq
  <2> QED BY <2>1, KeptEmpty
<1>2. ASSUME NEW r \in Seq(A), NEW e \in A, r \in W PROVE Append(r, e) \in W
  <2>1. /\ Append(r, e) \in Seq(A) /\ s \o r \in Seq(A) /\ Kept(r, S) \in Seq(A)
        /\ s \o Append(r, e) = Append(s \o r, e)
    BY AppendProperties, ConcatProperties, KeptInSeq, ConcatAppend
  <2>2. Kept(s, S) \o Append(Kept(r, S), e) = Append(Kept(s, S) \o Kept(r, S), e)
    BY <1>0, <2>1, ConcatAppend
  <2>3. Kept(s \o r, S) = Kept(s, S) \o Kept(r, S)
    BY <1>2
  <2>4. /\ e \in S => Kept(Append(s \o r, e), S) = Append(Kept(s \o r, S), e)
        /\ e \notin S => Kept(Append(s \o r, e), S) = Kept(s \o r, S)
    <3>1. ASSUME NEW q \in Seq(A)
          PROVE  /\ e \in S => Kept(Append(q, e), S) = Append(Kept(q, S), e)
                 /\ e \notin S => Kept(Append(q, e), S) = Kept(q, S)
      BY KeptTakes, KeptSkips
    <3> QED BY <2>1, <3>1
  <2>5. /\ e \in S => Kept(Append(r, e), S) = Append(Kept(r, S), e)
        /\ e \notin S => Kept(Append(r, e), S) = Kept(r, S)
    BY KeptTakes, KeptSkips
  <2>6. Kept(s \o Append(r, e), S) = Kept(s, S) \o Kept(Append(r, e), S)
    BY <2>1, <2>2, <2>3, <2>4, <2>5
  <2> QED BY <2>1, <2>6
<1> HIDE DEF W
<1>3. t \in W
  BY <1>1, <1>2, SeqInduction
<1> QED BY <1>3 DEF W

\* To keep twice is to keep what is in both sets.
LEMMA KeptTwice ==
    ASSUME NEW A, NEW seq \in Seq(A), NEW S, NEW T
    PROVE  Kept(Kept(seq, S), T) = Kept(seq, S \cap T)
<1> DEFINE W == {s \in Seq(A) : Kept(Kept(s, S), T) = Kept(s, S \cap T)}
<1>1. <<>> \in W
  BY KeptEmpty, EmptySeq
<1>2. ASSUME NEW s \in Seq(A), NEW e \in A, s \in W PROVE Append(s, e) \in W
  <2>1. Append(s, e) \in Seq(A) /\ Kept(s, S) \in Seq(A)
    BY AppendProperties, KeptInSeq
  <2>2. /\ e \in S => Kept(Append(s, e), S) = Append(Kept(s, S), e)
        /\ e \notin S => Kept(Append(s, e), S) = Kept(s, S)
    BY KeptTakes, KeptSkips
  <2>4. /\ e \in T => Kept(Append(Kept(s, S), e), T) = Append(Kept(Kept(s, S), T), e)
        /\ e \notin T => Kept(Append(Kept(s, S), e), T) = Kept(Kept(s, S), T)
    BY <2>1, KeptTakes, KeptSkips
  <2>5. /\ e \in S \cap T => Kept(Append(s, e), S \cap T) = Append(Kept(s, S \cap T), e)
        /\ e \notin S \cap T => Kept(Append(s, e), S \cap T) = Kept(s, S \cap T)
    <3> DEFINE B == S \cap T
    <3> HIDE DEF B
    <3>1. /\ e \in B => Kept(Append(s, e), B) = Append(Kept(s, B), e)
          /\ e \notin B => Kept(Append(s, e), B) = Kept(s, B)
      BY KeptTakes, KeptSkips
    <3> QED BY <3>1 DEF B
  <2>3. Kept(Kept(s, S), T) = Kept(s, S \cap T)
    BY <1>2
  <2>6. Kept(Kept(Append(s, e), S), T) = Kept(Append(s, e), S \cap T)
    BY <2>2, <2>3, <2>4, <2>5
  <2> QED BY <2>1, <2>6
<1> HIDE DEF W
<1>3. seq \in W
  BY <1>1, <1>2, SeqInduction
<1> QED BY <1>3 DEF W

LEMMA KeptNone ==
    ASSUME NEW A, NEW seq \in Seq(A)
    PROVE  Kept(seq, {}) = <<>>
<1>1. Kept(seq, {}) \in Seq(A) /\ Range(Kept(seq, {})) = {}
  BY KeptInSeq, KeptRange
<1>2. ASSUME NEW s \in Seq(A), Range(s) = {} PROVE s = <<>>
  <2>1. Range(s) = {s[i] : i \in 1..Len(s)} /\ Len(s) \in Nat
    BY RangeEquality, LenProperties
  <2>2. ASSUME Len(s) # 0 PROVE FALSE
    <3>1. 1 \in 1..Len(s)
      BY <2>1, <2>2
    <3> QED BY <1>2, <2>1, <3>1
  <2> QED BY <2>2, EmptySeq
<1> QED BY <1>1, <1>2

Distinct(seq) == \A i, j \in 1..Len(seq) : seq[i] = seq[j] => i = j

\* A loop repeats nothing that its sequence does not repeat.
LEMMA KeptDistinct ==
    ASSUME NEW A, NEW seq \in Seq(A), Distinct(seq), NEW S
    PROVE  Distinct(Kept(seq, S))
<1> DEFINE W == {s \in Seq(A) : Distinct(s) => Distinct(Kept(s, S))}
<1>1. <<>> \in W
  BY KeptEmpty, EmptySeq
<1>2. ASSUME NEW s \in Seq(A), NEW e \in A PROVE
        Distinct(Append(s, e)) <=> Distinct(s) /\ e \notin Range(s)
  <2> DEFINE more == Append(s, e)
  <2>1. /\ Len(s) \in Nat /\ Len(more) = Len(s) + 1
        /\ more[Len(s) + 1] = e /\ \A k \in 1..Len(s) : more[k] = s[k]
    BY AppendProperties
  <2>2. Range(s) = {s[i] : i \in 1..Len(s)}
    BY RangeEquality
  <2> HIDE DEF more
  <2>3. /\ \A i \in 1..Len(more) : i \in 1..Len(s) \/ i = Len(s) + 1
        /\ \A i \in 1..Len(s) : i \in 1..Len(more) /\ i # Len(s) + 1
        /\ Len(s) + 1 \in 1..Len(more)
    BY <2>1
  <2>4. Distinct(more) => Distinct(s) /\ e \notin Range(s)
    BY <2>1, <2>2, <2>3 DEF Distinct
  <2>5. ASSUME Distinct(s), e \notin Range(s) PROVE Distinct(more)
    BY <2>1, <2>2, <2>3, <2>5 DEF Distinct
  <2> QED BY <2>4, <2>5 DEF more
<1>3. ASSUME NEW s \in Seq(A), NEW e \in A, s \in W PROVE Append(s, e) \in W
  <2>1. Append(s, e) \in Seq(A) /\ Kept(s, S) \in Seq(A) /\ Range(Kept(s, S)) = Range(s) \cap S
    BY AppendProperties, KeptInSeq, KeptRange
  <2>2. /\ e \in S => Kept(Append(s, e), S) = Append(Kept(s, S), e)
        /\ e \notin S => Kept(Append(s, e), S) = Kept(s, S)
    BY KeptTakes, KeptSkips
  <2>3. ASSUME Distinct(Append(s, e)) PROVE Distinct(Kept(Append(s, e), S))
    <3>1. Distinct(s) /\ e \notin Range(s) /\ Distinct(Kept(s, S))
      BY <1>2, <1>3, <2>3
    <3>2. Distinct(Append(Kept(s, S), e))
      BY <1>2, <2>1, <3>1
    <3> QED BY <2>2, <3>1, <3>2
  <2> QED BY <2>1, <2>3
<1> HIDE DEF W
<1>4. seq \in W
  BY <1>1, <1>3, SeqInduction
<1> QED BY <1>4 DEF W

-----------------------------------------------------------------------------
(* Connections. *)

\* A user's client is what it asked for, and there is nothing to dial before the
\* lookup. The deadline of a handshake is never overrun.
Fits(a, s) ==
    /\ s.prefer = normalizeIPVersionPreference(a.prefer)
    /\ ~a.socket =>
        s.unsafe = a.unsafe /\ s.timeout = IF a.timeout > 0 THEN a.timeout ELSE DefaultTimeout
UserInv(u) ==
    /\ asked[u] # None => Fits(asked[u], client[u].settings)
    /\ pc[u] # "idle" => Prefers(u) \in {"", "4", "6"}
    /\ pc[u] \in {"idle", "lookup"} => answer[u] = None /\ next[u] = 1
    /\ spent[u] <= Handshake

\* A client is kept under what it was built with, and none is built beside them.
CacheInv ==
    /\ \A k \in DOMAIN clients : clients[k].settings = k
    /\ \A c \in built : \E k \in DOMAIN clients : c = clients[k]

NetShape ==
    /\ pc = [u \in Users |-> pc[u]] /\ asked = [u \in Users |-> asked[u]]
    /\ client = [u \in Users |-> client[u]] /\ server = [u \in Users |-> server[u]]
    /\ answer = [u \in Users |-> answer[u]] /\ ips = [u \in Users |-> ips[u]]
    /\ next = [u \in Users |-> next[u]] /\ tried = [u \in Users |-> tried[u]]
    /\ spent \in [Users -> Nat]

NetInv == NetShape /\ CacheInv /\ \A u \in Users : UserInv(u)

\* The family that comes first.
Preferred(u) == IF Prefers(u) # "" THEN Prefers(u) ELSE IF hasIPv4 THEN "4" ELSE "6"

\* What a user dials is the sort of its answer, by what it prefers or, without a
\* preference, by what is settled; and it has dialled what comes before the next.
AttemptsInv(u) ==
    /\ pc[u] = "sort" => answer[u] \in Resolutions /\ ips[u] = answer[u] /\ next[u] = 1
    /\ pc[u] = "dial" =>
        /\ Prefers(u) = "" => onceDone
        /\ answer[u] \in Resolutions /\ ips[u] = sortIPs(answer[u], Preferred(u))
        /\ next[u] \in Nat \ {0} /\ \A i \in 1..(next[u] - 1) : ips[u][i] \in tried[u]
    /\ pc[u] = "failed" =>
        \/ answer[u] = None \/ Range(answer[u]) \subseteq tried[u]
        \/ asked[u].socket /\ spent[u] = Handshake
DialInv == \A u \in Users : AttemptsInv(u)

\* The servers asked are those of the configuration of the run.
ServerInv ==
    /\ custom \in Customs \cup {NoServer}
    /\ duty = "configure" => \A u \in Users : server[u] = None
    /\ \A u \in Users : server[u] # None =>
        /\ server[u].host = "system" <=> custom.form = "empty"
        /\ Dialable(custom) /\ server[u].routed => server[u].host = custom.host

LEMMA NetInit == Init => NetInv /\ DialInv /\ ServerInv
<1> SUFFICES ASSUME Init PROVE NetInv /\ DialInv /\ ServerInv
  OBVIOUS
<1>1. IdleNet /\ custom = NoServer
  BY DEF Init
<1>2. NetShape /\ CacheInv
  BY <1>1 DEF IdleNet, NetShape, CacheInv
<1>3. ASSUME NEW u \in Users PROVE UserInv(u) /\ AttemptsInv(u) /\ server[u] = None
  BY <1>1, TimesAssumption DEF IdleNet, UserInv, AttemptsInv
<1> QED BY <1>1, <1>2, <1>3 DEF NetInv, DialInv, ServerInv

\* A step of one user changes nothing of another.
Same(v) ==
    /\ pc'[v] = pc[v] /\ asked'[v] = asked[v] /\ client'[v] = client[v]
    /\ server'[v] = server[v] /\ answer'[v] = answer[v] /\ ips'[v] = ips[v]
    /\ next'[v] = next[v] /\ tried'[v] = tried[v] /\ spent'[v] = spent[v]

LEMMA Budget ==
    ASSUME NetShape, NEW u \in Users, NEW time \in 0..DialTimeout, Takes(u, time),
           spent[u] <= Handshake
    PROVE  /\ spent' \in [Users -> Nat] /\ spent'[u] <= Handshake
           /\ \A v \in Users \ {u} : spent'[v] = spent[v]
<1>1. CASE asked[u].socket
  <2>1. spent[u] \in Nat /\ spent[u] + time \in Nat /\ spent \in [Users -> Nat]
    BY TimesAssumption DEF NetShape
  <2>2. spent[u] + time <= Handshake /\ spent' = [spent EXCEPT ![u] = spent[u] + time]
    BY <1>1 DEF Takes
  <2> QED BY <2>1, <2>2
<1>2. CASE ~asked[u].socket
  BY <1>2 DEF Takes, NetShape
<1> QED BY <1>1, <1>2

LEMMA Attempt ==
    ASSUME NetShape, NEW u \in Users, Dials(u), spent[u] <= Handshake
    PROVE  /\ spent' \in [Users -> Nat] /\ spent'[u] <= Handshake
           /\ tried' = [tried EXCEPT ![u] = tried[u] \cup {ips[u][next[u]]}]
           /\ \A v \in Users \ {u} : spent'[v] = spent[v]
           /\ UNCHANGED <<clients, built, onceDone, hasIPv4, asked, client, server, answer, ips>>
           /\ pc[u] = "dial" /\ next[u] <= Len(ips[u])
<1>1. PICK time \in 0..DialTimeout : Takes(u, time)
  BY DEF Dials
<1>2. /\ spent' \in [Users -> Nat] /\ spent'[u] <= Handshake
      /\ \A v \in Users \ {u} : spent'[v] = spent[v]
  BY <1>1, Budget
<1> QED BY <1>2 DEF Dials, manager, cache, lookup

\* What the lookup of a user leaves behind.
LookedUp(u) ==
    /\ pc[u] = "lookup"
    /\ spent' \in [Users -> Nat] /\ spent'[u] <= Handshake
    /\ \A v \in Users \ {u} : spent'[v] = spent[v]
    /\ UNCHANGED <<clients, built, onceDone, hasIPv4, asked, client, next, tried>>
    /\ \/ /\ pc' = [pc EXCEPT ![u] = "sort"]
          /\ \E s : server' = [server EXCEPT ![u] = s]
          /\ \E found \in Resolutions :
                answer' = [answer EXCEPT ![u] = found] /\ ips' = [ips EXCEPT ![u] = found]
       \/ pc' = [pc EXCEPT ![u] = "failed"] /\ UNCHANGED <<server, answer, ips>>

LEMMA LookupIs ==
    ASSUME NetShape, NEW u \in Users, Lookup(u), spent[u] <= Handshake
    PROVE  LookedUp(u)
<1>1. PICK time \in 0..DialTimeout : Takes(u, time)
  BY DEF Lookup
<1>2. /\ spent' \in [Users -> Nat] /\ spent'[u] <= Handshake
      /\ \A v \in Users \ {u} : spent'[v] = spent[v]
  BY <1>1, Budget
<1>3. /\ pc[u] = "lookup"
      /\ UNCHANGED <<clients, built, onceDone, hasIPv4, asked, client, next, tried>>
  BY DEF Lookup, manager, cache
<1>4. \/ /\ pc' = [pc EXCEPT ![u] = "sort"]
         /\ \E s : server' = [server EXCEPT ![u] = s]
         /\ \E found \in Resolutions :
               answer' = [answer EXCEPT ![u] = found] /\ ips' = [ips EXCEPT ![u] = found]
      \/ pc' = [pc EXCEPT ![u] = "failed"] /\ UNCHANGED <<server, answer, ips>>
  <2>1. CASE pc' = [pc EXCEPT ![u] = "failed"] /\ UNCHANGED <<server, answer, ips>>
    BY <2>1
  <2>2. CASE /\ \E routed \in SUBSET ({custom.host} \cup Range(Fallbacks)) :
                    server' = [server EXCEPT ![u] =
                                  [host |-> ChosenServer(custom, routed),
                                   routed |-> custom.host \in routed]]
             /\ \E found \in Resolutions :
                   answer' = [answer EXCEPT ![u] = found] /\ ips' = [ips EXCEPT ![u] = found]
             /\ pc' = [pc EXCEPT ![u] = "sort"]
    <3>1. \E s : server' = [server EXCEPT ![u] = s]
      BY <2>2
    <3> QED BY <2>2, <3>1
  <2> QED BY <2>1, <2>2 DEF Lookup, Goto, lookup
<1> QED BY <1>2, <1>3, <1>4 DEF LookedUp

LEMMA NewClientIs == \A s : NewClient(s).settings = s
  BY DEF NewClient

\* A request that finds its client in the cache, or puts it there.
LEMMA RequestStep ==
    ASSUME NetInv, NEW u \in Users, NEW w \in Wanted, Request(u, Asked(w))
    PROVE  /\ CacheInv' /\ client' = [v \in Users |-> client'[v]]
           /\ \A v \in Users \ {u} : client'[v] = client[v]
           /\ Fits(Asked(w), client'[u].settings)
           /\ client'[u].settings.prefer \in {"", "4", "6"}
<1> DEFINE settings == Settings(Asked(w))
<1>1. /\ Fits(Asked(w), settings) /\ settings.prefer \in {"", "4", "6"}
  <2>1. w.timeout \in Int /\ Asked(w).timeout = w.timeout /\ Asked(w).socket = FALSE
    BY WantedAssumption DEF Asked
  <2>2. /\ settings.unsafe = Asked(w).unsafe
        /\ settings.prefer = normalizeIPVersionPreference(Asked(w).prefer)
        /\ settings.timeout = IF Asked(w).timeout <= 0 THEN DefaultTimeout ELSE Asked(w).timeout
    BY DEF Settings
  <2>3. normalizeIPVersionPreference(Asked(w).prefer) \in {"", "4", "6"}
    BY DEF normalizeIPVersionPreference
  <2>4. settings.timeout = IF Asked(w).timeout > 0 THEN Asked(w).timeout ELSE DefaultTimeout
    <3> DEFINE seconds == Asked(w).timeout
    <3>1. seconds \in Int
      BY <2>1
    <3> HIDE DEF seconds
    <3>2. seconds <= 0 <=> ~(seconds > 0)
      BY <3>1
    <3> QED BY <2>2, <3>2 DEF seconds
  <2> HIDE DEF settings
  <2>5. settings.prefer \in {"", "4", "6"}
    BY <2>2, <2>3
  <2> QED BY <2>2, <2>4, <2>5 DEF Fits
<1>2. \/ /\ settings \in DOMAIN clients
         /\ client' = [client EXCEPT ![u] = clients[settings]]
         /\ UNCHANGED <<clients, built>>
      \/ /\ settings \notin DOMAIN clients
         /\ client' = [client EXCEPT ![u] = NewClient(settings)]
         /\ clients' = [k \in DOMAIN clients \cup {settings} |->
                            IF k = settings THEN client'[u] ELSE clients[k]]
         /\ built' = built \cup {client'[u]}
  BY DEF Request, httpClientKey, cache
<1> HIDE DEF settings
<1>3. client = [v \in Users |-> client[v]] /\ CacheInv
  BY DEF NetInv, NetShape
<1>4. CASE /\ settings \in DOMAIN clients
           /\ client' = [client EXCEPT ![u] = clients[settings]]
           /\ UNCHANGED <<clients, built>>
  <2>1. client'[u].settings = settings /\ CacheInv'
    BY <1>3, <1>4 DEF CacheInv
  <2> QED BY <1>1, <1>3, <1>4, <2>1
<1>5. CASE /\ settings \notin DOMAIN clients
           /\ client' = [client EXCEPT ![u] = NewClient(settings)]
           /\ clients' = [k \in DOMAIN clients \cup {settings} |->
                              IF k = settings THEN client'[u] ELSE clients[k]]
           /\ built' = built \cup {client'[u]}
  <2>1. client'[u] = NewClient(settings)
    BY <1>3, <1>5
  <2>2. client'[u].settings = settings
    BY <2>1, NewClientIs
  <2>3. /\ DOMAIN clients' = DOMAIN clients \cup {settings}
        /\ clients'[settings] = client'[u]
        /\ \A k \in DOMAIN clients : clients'[k] = clients[k]
    BY <1>5
  <2>4. CacheInv'
    BY <1>3, <1>5, <2>2, <2>3 DEF CacheInv
  <2> QED BY <1>1, <1>3, <1>5, <2>2, <2>4
<1> QED BY <1>2, <1>4, <1>5

LEMMA NetStep ==
    ASSUME NetInv, NEW u \in Users, UserNext(u)
    PROVE  NetInv' /\ \A v \in Users \ {u} : Same(v)
<1> USE DEF NetInv, NetShape
<1>1. ASSUME NetShape', CacheInv', UserInv(u)', \A v \in Users \ {u} : Same(v)
      PROVE  NetInv'
  <2>1. ASSUME NEW v \in Users \ {u} PROVE UserInv(v)'
    BY <1>1 DEF UserInv, Same, Prefers
  <2> QED BY <1>1, <2>1
<1>2. UNCHANGED cache => CacheInv'
  BY DEF cache, CacheInv
<1>3. CASE OpenSocket(u)
  <2>1. /\ pc[u] = "idle" /\ pc' = [pc EXCEPT ![u] = "lookup"]
        /\ asked' = [asked EXCEPT ![u] = [socket |-> TRUE, prefer |-> preference]]
        /\ client' = [client EXCEPT ![u] =
              [settings |-> [prefer |-> normalizeIPVersionPreference(preference)], nth |-> 0]]
        /\ UNCHANGED <<server, answer, ips, next, tried, spent>> /\ UNCHANGED cache
    BY <1>3 DEF OpenSocket, Start, Goto, lookup, dial
  <2>2. /\ client'[u].settings.prefer = normalizeIPVersionPreference(preference)
        /\ asked'[u].socket = TRUE /\ asked'[u].prefer = preference
    BY <2>1
  <2>3. UserInv(u)'
    BY <2>1, <2>2 DEF UserInv, Fits, Prefers, normalizeIPVersionPreference
  <2>4. NetShape' /\ \A v \in Users \ {u} : Same(v)
    BY <2>1 DEF Same
  <2> QED BY <1>1, <1>2, <2>1, <2>3, <2>4
<1>4. CASE \E w \in Wanted : Request(u, Asked(w))
  <2>1. PICK w \in Wanted : Request(u, Asked(w))
    BY <1>4
  <2>2. /\ pc[u] = "idle" /\ pc' = [pc EXCEPT ![u] = "lookup"]
        /\ asked' = [asked EXCEPT ![u] = Asked(w)]
        /\ UNCHANGED <<server, answer, ips, next, tried, spent>>
    BY <2>1 DEF Request, Start, Goto, lookup, dial
  <2>3. /\ CacheInv' /\ client' = [v \in Users |-> client'[v]]
        /\ \A v \in Users \ {u} : client'[v] = client[v]
        /\ Fits(Asked(w), client'[u].settings)
        /\ client'[u].settings.prefer \in {"", "4", "6"}
    BY <2>1, RequestStep
  <2>4. UserInv(u)'
    <3>1. asked'[u] = Asked(w)
      BY <2>2
    <3>2. Fits(asked'[u], client'[u].settings)
      BY <2>3, <3>1
    <3>3. (asked[u] # None => Fits(asked[u], client[u].settings))'
      BY <3>2 DEF Fits, normalizeIPVersionPreference
    <3> QED BY <2>2, <2>3, <3>3 DEF UserInv, Prefers
  <2>5. \A v \in Users \ {u} : Same(v)
    BY <2>2, <2>3 DEF Same
  <2>6. NetShape'
    <3>1. pc' = [v \in Users |-> pc'[v]] /\ asked' = [v \in Users |-> asked'[v]]
      BY <2>2
    <3> QED BY <2>2, <2>3, <3>1
  <2> QED BY <1>1, <2>3, <2>4, <2>5, <2>6
<1>5. CASE Lookup(u)
  <2>1. LookedUp(u)
    BY <1>5, LookupIs DEF UserInv
  <2>2. CacheInv'
    BY <2>1, <1>2 DEF LookedUp, cache
  <2>3. CASE pc' = [pc EXCEPT ![u] = "failed"] /\ UNCHANGED <<server, answer, ips>>
    <3>1. NetShape' /\ \A v \in Users \ {u} : Same(v)
      BY <2>1, <2>3 DEF LookedUp, Same
    <3>2. UserInv(u)'
      BY <2>1, <2>3 DEF LookedUp, UserInv, Prefers, Fits
    <3> QED BY <1>1, <2>2, <3>1, <3>2
  <2>4. ASSUME NEW s, NEW found \in Resolutions,
               pc' = [pc EXCEPT ![u] = "sort"], server' = [server EXCEPT ![u] = s],
               answer' = [answer EXCEPT ![u] = found], ips' = [ips EXCEPT ![u] = found]
        PROVE  NetInv' /\ \A v \in Users \ {u} : Same(v)
    <3>1. NetShape' /\ \A v \in Users \ {u} : Same(v)
      BY <2>1, <2>4 DEF LookedUp, Same
    <3>2. UserInv(u)'
      BY <2>1, <2>4 DEF LookedUp, UserInv, Prefers, Fits
    <3> QED BY <1>1, <2>2, <3>1, <3>2
  <2> QED BY <2>1, <2>3, <2>4 DEF LookedUp
<1>6. CASE Sort(u)
  <2>1. PICK sorted : ips' = [ips EXCEPT ![u] = sorted]
    BY <1>6 DEF Sort
  <2>2. /\ pc[u] = "sort" /\ pc' = [pc EXCEPT ![u] = "dial"]
        /\ server' = [server EXCEPT ![u] = None]
        /\ UNCHANGED <<asked, client, answer, next, tried, spent>> /\ UNCHANGED cache
    BY <1>6 DEF Sort, Goto
  <2>3. NetShape' /\ \A v \in Users \ {u} : Same(v)
    BY <2>1, <2>2 DEF Same
  <2>4. UserInv(u)'
    BY <2>2 DEF UserInv, Prefers, Fits
  <2> QED BY <1>1, <1>2, <2>2, <2>3, <2>4
<1>7. CASE Answers(u)
  <2>1. /\ Dials(u) /\ pc' = [pc EXCEPT ![u] = "connected"] /\ UNCHANGED next
        /\ spent[u] <= Handshake
    BY <1>7 DEF Answers, Goto, UserInv
  <2>2. /\ spent' \in [Users -> Nat] /\ spent'[u] <= Handshake
        /\ tried' = [tried EXCEPT ![u] = tried[u] \cup {ips[u][next[u]]}]
        /\ \A v \in Users \ {u} : spent'[v] = spent[v]
        /\ UNCHANGED <<clients, built, onceDone, hasIPv4, asked, client, server, answer, ips>>
        /\ pc[u] = "dial"
    BY <2>1, Attempt
  <2>3. NetShape' /\ \A v \in Users \ {u} : Same(v)
    BY <2>1, <2>2 DEF Same
  <2>4. UserInv(u)' /\ CacheInv'
    BY <1>2, <2>1, <2>2 DEF UserInv, Prefers, Fits, cache
  <2> QED BY <1>1, <2>3, <2>4
<1>8. CASE Refuses(u)
  <2>1. Dials(u) /\ next' = [next EXCEPT ![u] = @ + 1] /\ UNCHANGED pc /\ spent[u] <= Handshake
    BY <1>8 DEF Refuses, UserInv
  <2>2. /\ spent' \in [Users -> Nat] /\ spent'[u] <= Handshake
        /\ tried' = [tried EXCEPT ![u] = tried[u] \cup {ips[u][next[u]]}]
        /\ \A v \in Users \ {u} : spent'[v] = spent[v]
        /\ UNCHANGED <<clients, built, onceDone, hasIPv4, asked, client, server, answer, ips>>
        /\ pc[u] = "dial"
    BY <2>1, Attempt
  <2>3. NetShape' /\ \A v \in Users \ {u} : Same(v)
    BY <2>1, <2>2 DEF Same
  <2>4. UserInv(u)' /\ CacheInv'
    BY <1>2, <2>1, <2>2 DEF UserInv, Prefers, Fits, cache
  <2> QED BY <1>1, <2>3, <2>4
<1>9. CASE Fails(u)
  <2>1. /\ pc[u] = "dial" /\ pc' = [pc EXCEPT ![u] = "failed"]
        /\ UNCHANGED <<asked, client, server, answer, ips, next, tried, spent>>
        /\ UNCHANGED cache
    BY <1>9 DEF Fails, Goto, manager, lookup, dial
  <2>2. NetShape' /\ UserInv(u)' /\ \A v \in Users \ {u} : Same(v)
    BY <2>1 DEF Same, UserInv, Prefers, Fits
  <2> QED BY <1>1, <1>2, <2>1, <2>2
<1>10. CASE Done(u)
  <2>1. /\ pc' = [pc EXCEPT ![u] = "idle"]
        /\ asked' = [asked EXCEPT ![u] = None] /\ client' = [client EXCEPT ![u] = None]
        /\ answer' = [answer EXCEPT ![u] = None] /\ ips' = [ips EXCEPT ![u] = <<>>]
        /\ next' = [next EXCEPT ![u] = 1] /\ tried' = [tried EXCEPT ![u] = {}]
        /\ spent' = [spent EXCEPT ![u] = 0]
        /\ UNCHANGED server /\ UNCHANGED cache
    BY <1>10 DEF Done, Goto, manager
  <2>2. NetShape' /\ \A v \in Users \ {u} : Same(v)
    BY <2>1 DEF Same
  <2>3. /\ pc'[u] = "idle" /\ asked'[u] = None /\ answer'[u] = None /\ next'[u] = 1
        /\ spent'[u] = 0
    BY <2>1
  <2>4. UserInv(u)'
    <3>1. spent'[u] <= Handshake
      BY <2>3, TimesAssumption
    <3> QED BY <2>3, <3>1 DEF UserInv, Fits, Prefers, normalizeIPVersionPreference
  <2> QED BY <1>1, <1>2, <2>1, <2>2, <2>4
<1> QED BY <1>3, <1>4, <1>5, <1>6, <1>7, <1>8, <1>9, <1>10 DEF UserNext

\* The steps of the process, for the connections.
LEMMA NetSteps ==
    ASSUME [Next]_vars
    PROVE  UNCHANGED netVars \/ (Connect /\ \E u \in Users : UserNext(u))
  BY DEF Next, Configure, Run, Connect, NetNext, ReportNetwork, ReportFigure, Ping, Count, vars

LEMMA NetStays == NetInv /\ [Next]_vars => NetInv'
<1> SUFFICES ASSUME NetInv, [Next]_vars PROVE NetInv'
  OBVIOUS
<1>1. CASE UNCHANGED netVars
  <2>1. UNCHANGED <<clients, built, pc, asked, client, server, answer, ips, next, tried, spent>>
    BY <1>1 DEF netVars, manager, cache, lookup, dial
  <2> QED BY <2>1 DEF NetInv, NetShape, CacheInv, UserInv, Fits, Prefers
<1>2. CASE \E u \in Users : UserNext(u)
  BY <1>2, NetStep
<1> QED BY <1>1, <1>2, NetSteps

\* Every lookup in the cache of clients, filled by whoever and in whatever order,
\* gives a client of the timeout, the certificate check and the family that are
\* asked for, for any settings that users ask for; and no client is built twice.
THEOREM ClientsFit == Spec => []ClientFits
<1>1. NetInv => ClientFits
  <2> SUFFICES ASSUME NetInv PROVE ClientFits
    OBVIOUS
  <2>1. \A c, d \in built : c.settings = d.settings => c = d
    BY DEF NetInv, CacheInv
  <2> QED BY <2>1 DEF NetInv, UserInv, Fits, ClientFits, normalizeIPVersionPreference
<1> QED BY <1>1, NetInit, NetStays, PTL DEF Spec

\* What the sort of a lookup's found keeps, and the order it makes.
SortOf(s, found, family) ==
    /\ Len(s) = Len(found) /\ Range(s) = Range(found)
    /\ \A f \in {"4", "6"} : OfFamily(s, f) = OfFamily(found, f)
    /\ \A i, j \in DOMAIN s :
        Families[s[i]] # family /\ Families[s[j]] = family => j < i

LEMMA Sorted ==
    ASSUME NEW found \in Seq(Addresses), NEW family \in {"4", "6"}
    PROVE  sortIPs(found, family) \in Seq(Addresses) /\ SortOf(sortIPs(found, family), found, family)
<1> DEFINE A == Addresses
           In(f) == {a \in A : Families[a] = f}
           others == {a \in A : Families[a] # family}
           p == Kept(found, In(family))
           o == Kept(found, others)
           s == sortIPs(found, family)
<1>1. s = p \o o
  BY DEF sortIPs, OfFamily
<1>2. p \in Seq(A) /\ o \in Seq(A) /\ s \in Seq(A)
  BY <1>1, KeptInSeq, ConcatProperties
<1>3. Range(p) = Range(found) \cap In(family) /\ Range(o) = Range(found) \cap others
  BY KeptRange
<1>4. Len(s) = Len(found)
  <2>1. Len(s) = Len(p) + Len(o)
    BY <1>1, <1>2, ConcatProperties
  <2>2. \A a \in A : a \in In(family) <=> a \notin others
    OBVIOUS
  <2> HIDE DEF A, In, others
  <2>3. Len(p) + Len(o) = Len(found)
    BY <2>2, KeptLengths DEF A
  <2> QED BY <2>1, <2>3
<1>5. Range(s) = Range(found)
  <2>1. Range(s) = Range(p) \cup Range(o)
    BY <1>1, <1>2, RangeConcatenation
  <2>2. Range(found) \in SUBSET A
    BY RangeOfSeq
  <2>3. \A a \in A : a \in In(family) \/ a \in others
    OBVIOUS
  <2> QED BY <1>3, <2>1, <2>2, <2>3
<1>6. ASSUME NEW f \in {"4", "6"} PROVE OfFamily(s, f) = OfFamily(found, f)
  <2>1. OfFamily(s, f) = Kept(p, In(f)) \o Kept(o, In(f))
    <3>1. Kept(p \o o, In(f)) = Kept(p, In(f)) \o Kept(o, In(f))
      <4> HIDE DEF p, o, In
      <4> QED BY <1>2, KeptConcat
    <3> QED BY <1>1, <3>1 DEF OfFamily
  <2>2. Kept(p, In(f)) = Kept(found, In(family) \cap In(f)) /\ Kept(o, In(f)) = Kept(found, others \cap In(f))
    BY KeptTwice
  <2>3. OfFamily(found, f) = Kept(found, In(f)) /\ Kept(found, In(f)) \in Seq(A)
    BY KeptInSeq DEF OfFamily
  <2>4. Kept(found, {}) = <<>>
    BY KeptNone
  <2>5. CASE f = family
    <3>1. In(family) \cap In(f) = In(f) /\ others \cap In(f) = {}
      BY <2>5
    <3> HIDE DEF p, o, In, others
    <3>2. OfFamily(s, f) = Kept(found, In(f)) \o <<>>
      BY <2>1, <2>2, <2>4, <3>1
    <3> QED BY <2>3, <3>2, ConcatEmptySeq
  <2>6. CASE f # family
    <3>1. In(family) \cap In(f) = {} /\ others \cap In(f) = In(f)
      BY <2>6
    <3> HIDE DEF p, o, In, others
    <3>2. OfFamily(s, f) = <<>> \o Kept(found, In(f))
      BY <2>1, <2>2, <2>4, <3>1
    <3> QED BY <2>3, <3>2, ConcatEmptySeq
  <2> QED BY <2>5, <2>6
<1>7. ASSUME NEW i \in DOMAIN s, NEW j \in DOMAIN s,
             Families[s[i]] # family, Families[s[j]] = family
      PROVE  j < i
  <2>1. /\ Len(p) \in Nat /\ Len(o) \in Nat /\ Len(s) = Len(p) + Len(o) /\ DOMAIN s = 1..Len(s)
        /\ \A k \in 1..(Len(p) + Len(o)) : s[k] = IF k <= Len(p) THEN p[k] ELSE o[k - Len(p)]
    BY <1>1, <1>2, ConcatProperties, LenProperties
  <2>2. \A k \in 1..Len(p) : p[k] \in Range(p)
    BY <1>2, RangeEquality
  <2>3. \A k \in 1..Len(o) : o[k] \in Range(o)
    BY <1>2, RangeEquality
  <2>4. i \in Int /\ j \in Int /\ i \in 1..(Len(p) + Len(o)) /\ j \in 1..(Len(p) + Len(o))
    BY <2>1
  <2> HIDE DEF s, p, o
  <2>5. i > Len(p)
    <3>1. ASSUME i <= Len(p) PROVE FALSE
      <4>1. i \in 1..Len(p) /\ s[i] = p[i]
        BY <2>1, <2>4, <3>1
      <4>2. s[i] \in In(family)
        BY <1>3, <2>2, <4>1
      <4> QED BY <1>7, <4>2
    <3> QED BY <2>1, <2>4, <3>1
  <2>6. j <= Len(p)
    <3>1. ASSUME j > Len(p) PROVE FALSE
      <4>1. j - Len(p) \in 1..Len(o) /\ s[j] = o[j - Len(p)]
        BY <2>1, <2>4, <3>1
      <4>2. s[j] \in others
        BY <1>3, <2>3, <4>1
      <4> QED BY <1>7, <4>2
    <3> QED BY <2>1, <2>4, <3>1
  <2> QED BY <2>1, <2>4, <2>5, <2>6
<1> HIDE DEF s
<1> QED BY <1>2, <1>4, <1>5, <1>6, <1>7 DEF s, SortOf
LEMMA PreferredIs ==
    ASSUME NetInv, NEW u \in Users, pc[u] # "idle"
    PROVE  Preferred(u) \in {"4", "6"}
  BY DEF NetInv, UserInv, Preferred

\* The sort, and what it settles.
LEMMA SortIs ==
    ASSUME NetShape, NEW u \in Users, Sort(u)
    PROVE  /\ pc[u] = "sort" /\ pc'[u] = "dial"
           /\ UNCHANGED <<asked, client, answer, next, tried, spent>>
           /\ onceDone => onceDone' /\ hasIPv4' = hasIPv4
           /\ Prefers(u) = "" => onceDone'
           /\ ips'[u] = sortIPs(ips[u], Preferred(u)')
<1>1. /\ pc[u] = "sort" /\ pc' = [pc EXCEPT ![u] = "dial"]
      /\ UNCHANGED <<asked, client, answer, next, tried, spent>>
  BY DEF Sort, Goto
<1>2. Prefers(u)' = Prefers(u)
  BY <1>1 DEF Prefers
<1>3. CASE /\ Prefers(u) # "" /\ UNCHANGED <<onceDone, hasIPv4>>
           /\ ips' = [ips EXCEPT ![u] = sortIPs(@, Prefers(u))]
  <2>1. Preferred(u)' = Prefers(u)
    BY <1>2, <1>3 DEF Preferred
  <2> QED BY <1>1, <1>3, <2>1 DEF NetShape
<1>4. CASE /\ Prefers(u) = "" /\ preferIPv4First
           /\ ips' = [ips EXCEPT ![u] = sortIPs(@, IF hasIPv4' THEN "4" ELSE "6")]
  <2>1. Preferred(u)' = IF hasIPv4' THEN "4" ELSE "6"
    BY <1>2, <1>4 DEF Preferred
  <2>2. onceDone' /\ (onceDone => hasIPv4' = hasIPv4)
    <3>1. CASE onceDone /\ UNCHANGED <<onceDone, hasIPv4>>
      BY <3>1
    <3>2. CASE ~onceDone /\ onceDone' = TRUE
      BY <3>2
    <3> QED BY <1>4, <3>1, <3>2 DEF preferIPv4First
  <2> QED BY <1>1, <1>4, <2>1, <2>2 DEF NetShape
<1> QED BY <1>3, <1>4 DEF Sort

\* A dial that fails for want of time or of addresses has dialled them all.
LEMMA FailsLast ==
    ASSUME NetInv, NEW u \in Users, AttemptsInv(u), Fails(u)
    PROVE  \/ Range(answer[u]) \subseteq tried[u]
           \/ asked[u].socket /\ spent[u] = Handshake
<1>1. pc[u] = "dial" /\ (next[u] > Len(ips[u]) \/ ~InTime(u))
  BY DEF Fails
<1>2. CASE ~InTime(u)
  <2>1. asked[u].socket /\ ~(spent[u] < Handshake) /\ spent[u] \in Nat /\ spent[u] <= Handshake
    BY <1>2 DEF InTime, NetInv, NetShape, UserInv
  <2> QED BY <2>1, TimesAssumption
<1>3. CASE next[u] > Len(ips[u])
  <2>1. /\ answer[u] \in Seq(Addresses) /\ ips[u] = sortIPs(answer[u], Preferred(u))
        /\ next[u] \in Nat /\ \A i \in 1..(next[u] - 1) : ips[u][i] \in tried[u]
    BY <1>1, ResolutionsAssumption DEF AttemptsInv
  <2>2. ips[u] \in Seq(Addresses) /\ Range(ips[u]) = Range(answer[u])
    BY <1>1, <2>1, PreferredIs, Sorted DEF SortOf
  <2>3. Len(ips[u]) \in Nat /\ Range(ips[u]) = {ips[u][i] : i \in 1..Len(ips[u])}
    BY <2>2, LenProperties, RangeEquality
  <2>4. \A i \in 1..Len(ips[u]) : i \in 1..(next[u] - 1)
    BY <1>3, <2>1, <2>3
  <2> QED BY <2>1, <2>2, <2>3, <2>4
<1> QED BY <1>1, <1>2, <1>3

LEMMA DialStep ==
    ASSUME NetInv, DialInv, NEW u \in Users, UserNext(u)
    PROVE  DialInv'
<1> DEFINE Rest == \A v \in Users \ {u} : Same(v)
<1>1. NetInv' /\ Rest
  BY NetStep
<1>2. AttemptsInv(u)
  BY DEF DialInv
\* The others dial as before, unless the order is settled anew.
<1>3. ASSUME onceDone => onceDone' /\ hasIPv4' = hasIPv4, NEW v \in Users \ {u}
      PROVE  AttemptsInv(v)'
  <2>1. Same(v) /\ AttemptsInv(v)
    BY <1>1 DEF DialInv
  <2>2. Prefers(v)' = Prefers(v)
    BY <2>1 DEF Same, Prefers
  <2>3. ASSUME Prefers(v) = "" => onceDone PROVE Preferred(v)' = Preferred(v)
    <3>1. CASE Prefers(v) # ""
      BY <2>2, <3>1 DEF Preferred
    <3>2. CASE Prefers(v) = ""
      <4>1. onceDone
        BY <2>3, <3>2
      <4>2. hasIPv4' = hasIPv4
        BY <1>3, <4>1
      <4> QED BY <2>2, <3>2, <4>2 DEF Preferred
    <3> QED BY <3>1, <3>2
  <2>4. CASE pc[v] = "dial"
    <3>1. Preferred(v)' = Preferred(v) /\ (Prefers(v)' = "" => onceDone')
      BY <1>3, <2>1, <2>2, <2>3, <2>4 DEF AttemptsInv
    <3> QED BY <2>1, <2>4, <3>1 DEF AttemptsInv, Same
  <2> QED BY <2>1, <2>4 DEF AttemptsInv, Same
<1>4. ASSUME AttemptsInv(u)', onceDone => onceDone' /\ hasIPv4' = hasIPv4
      PROVE  DialInv'
  BY <1>3, <1>4 DEF DialInv
<1> HIDE DEF Rest
<1> USE DEF NetInv, NetShape
<1>5. CASE OpenSocket(u) \/ (\E w \in Wanted : Request(u, Asked(w))) \/ Done(u)
  <2>1. pc'[u] \in {"lookup", "idle"} /\ UNCHANGED <<onceDone, hasIPv4>>
    <3>1. CASE OpenSocket(u) \/ Done(u)
      BY <3>1 DEF OpenSocket, Start, Done, Goto, manager
    <3>2. CASE \E w \in Wanted : Request(u, Asked(w))
      <4>1. PICK w \in Wanted : Request(u, Asked(w))
        BY <3>2
      <4> QED BY <4>1 DEF Request, Start, Goto
    <3> QED BY <1>5, <3>1, <3>2
  <2>2. AttemptsInv(u)'
    BY <2>1 DEF AttemptsInv
  <2> QED BY <1>4, <2>1, <2>2
<1>6. CASE Lookup(u)
  <2>1. LookedUp(u) /\ answer[u] = None /\ next[u] = 1
    BY <1>6, LookupIs DEF UserInv, Lookup
  <2>2. CASE pc' = [pc EXCEPT ![u] = "failed"] /\ UNCHANGED <<server, answer, ips>>
    <3>1. pc'[u] = "failed" /\ answer'[u] = None
      BY <2>1, <2>2
    <3>2. AttemptsInv(u)'
      BY <3>1 DEF AttemptsInv
    <3> QED BY <1>4, <2>1, <3>2 DEF LookedUp
  <2>3. ASSUME NEW found \in Resolutions, pc' = [pc EXCEPT ![u] = "sort"],
               answer' = [answer EXCEPT ![u] = found], ips' = [ips EXCEPT ![u] = found]
        PROVE  DialInv'
    <3>1. pc'[u] = "sort" /\ answer'[u] = found /\ ips'[u] = found /\ next'[u] = 1
      BY <2>1, <2>3 DEF LookedUp
    <3>2. AttemptsInv(u)'
      BY <3>1 DEF AttemptsInv
    <3> QED BY <1>4, <2>1, <3>2 DEF LookedUp
  <2> QED BY <2>1, <2>2, <2>3 DEF LookedUp
<1>7. CASE Sort(u)
  <2>1. /\ pc[u] = "sort" /\ pc'[u] = "dial"
        /\ UNCHANGED <<asked, client, answer, next, tried, spent>>
        /\ onceDone => onceDone' /\ hasIPv4' = hasIPv4
        /\ Prefers(u) = "" => onceDone'
        /\ ips'[u] = sortIPs(ips[u], Preferred(u)')
    BY <1>7, SortIs
  <2>2. answer[u] \in Resolutions /\ ips[u] = answer[u] /\ next[u] = 1
    BY <1>2, <2>1 DEF AttemptsInv
  <2>3. Prefers(u)' = Prefers(u)
    BY <2>1 DEF Prefers
  <2>4. next'[u] \in Nat \ {0} /\ \A i \in 1..(next'[u] - 1) : FALSE
    <3>1. next'[u] = 1
      BY <2>1, <2>2
    <3> QED BY <3>1
  <2>5. answer'[u] \in Resolutions /\ ips'[u] = sortIPs(answer'[u], Preferred(u)')
    BY <2>1, <2>2
  <2>6. AttemptsInv(u)'
    BY <2>1, <2>3, <2>4, <2>5 DEF AttemptsInv
  <2> QED BY <1>4, <2>1, <2>6
<1>8. CASE Answers(u)
  <2>1. Dials(u) /\ pc'[u] = "connected" /\ spent[u] <= Handshake
    BY <1>8 DEF Answers, Goto, UserInv
  <2>2. UNCHANGED <<onceDone, hasIPv4>>
    BY <2>1, Attempt
  <2>3. AttemptsInv(u)'
    BY <2>1 DEF AttemptsInv
  <2> QED BY <1>4, <2>2, <2>3
<1>9. CASE Refuses(u)
  <2>1. Dials(u) /\ next' = [next EXCEPT ![u] = next[u] + 1] /\ UNCHANGED pc /\ spent[u] <= Handshake
    BY <1>9 DEF Refuses, UserInv
  <2>2. /\ tried' = [tried EXCEPT ![u] = tried[u] \cup {ips[u][next[u]]}]
        /\ UNCHANGED <<onceDone, hasIPv4, client, answer, ips>> /\ pc[u] = "dial"
    BY <2>1, Attempt
  <2>3. /\ Prefers(u) = "" => onceDone
        /\ answer[u] \in Resolutions /\ ips[u] = sortIPs(answer[u], Preferred(u))
        /\ next[u] \in Nat \ {0} /\ \A i \in 1..(next[u] - 1) : ips[u][i] \in tried[u]
    BY <1>2, <2>2 DEF AttemptsInv
  <2>4. /\ next'[u] = next[u] + 1 /\ tried'[u] = tried[u] \cup {ips[u][next[u]]}
        /\ pc'[u] = "dial" /\ answer'[u] = answer[u] /\ ips'[u] = ips[u]
        /\ Preferred(u)' = Preferred(u) /\ Prefers(u)' = Prefers(u)
    BY <2>1, <2>2 DEF Preferred, Prefers
  <2>5. next'[u] \in Nat \ {0} /\ \A i \in 1..(next'[u] - 1) : ips'[u][i] \in tried'[u]
    <3>1. next[u] \in Nat \ {0} /\ next'[u] = next[u] + 1
      BY <2>3, <2>4
    <3>2. \A i \in 1..(next'[u] - 1) : i \in 1..(next[u] - 1) \/ i = next[u]
      BY <3>1
    <3>3. /\ \A i \in 1..(next[u] - 1) : ips'[u][i] \in tried'[u]
          /\ ips'[u][next[u]] \in tried'[u]
      BY <2>3, <2>4
    <3> QED BY <3>1, <3>2, <3>3
  <2>6. answer'[u] \in Resolutions /\ ips'[u] = sortIPs(answer'[u], Preferred(u)')
    BY <2>3, <2>4
  <2>7. AttemptsInv(u)'
    BY <2>2, <2>3, <2>4, <2>5, <2>6 DEF AttemptsInv
  <2> QED BY <1>4, <2>2, <2>7
<1>10. CASE Fails(u)
  <2>1. /\ pc'[u] = "failed" /\ UNCHANGED <<onceDone, hasIPv4, asked, answer, tried, spent>>
    BY <1>10 DEF Fails, Goto, manager, lookup, dial
  <2>2. Range(answer[u]) \subseteq tried[u] \/ (asked[u].socket /\ spent[u] = Handshake)
    BY <1>2, <1>10, FailsLast
  <2>3. AttemptsInv(u)'
    BY <2>1, <2>2 DEF AttemptsInv
  <2> QED BY <1>4, <2>1, <2>3
<1> QED BY <1>5, <1>6, <1>7, <1>8, <1>9, <1>10 DEF UserNext

LEMMA DialsStay == NetInv /\ DialInv /\ [Next]_vars => DialInv'
<1> SUFFICES ASSUME NetInv, DialInv, [Next]_vars PROVE DialInv'
  OBVIOUS
<1>1. CASE UNCHANGED netVars
  <2>1. UNCHANGED <<onceDone, hasIPv4, pc, asked, client, answer, ips, next, tried, spent>>
    BY <1>1 DEF netVars, manager, lookup, dial
  <2>2. \A u \in Users : Preferred(u)' = Preferred(u) /\ Prefers(u)' = Prefers(u)
    BY <2>1 DEF Preferred, Prefers
  <2> QED BY <2>1, <2>2 DEF DialInv, AttemptsInv
<1>2. CASE \E u \in Users : UserNext(u)
  BY <1>2, DialStep
<1> QED BY <1>1, <1>2, NetSteps

\* A dial that fails after its lookup has dialled every address it got, unless the
\* handshake's time, which the lookup and the attempts share, is used up; for any
\* answers and time limits. And no handshake takes more than its time.
THEOREM DialsFailLast == Spec => []FailsOnlyAfterAll
<1>1. NetInv /\ DialInv => FailsOnlyAfterAll
  BY DEF NetInv, UserInv, DialInv, AttemptsInv, FailsOnlyAfterAll
<1> QED BY <1>1, NetInit, NetStays, DialsStay, PTL DEF Spec

\* The candidates name no server twice, the custom one first if it can be dialled.
LEMMA CandidatesAre ==
    ASSUME NEW s
    PROVE  LET A == Range(Fallbacks) \cup {s.host}
               rest == Kept(Fallbacks, Range(Fallbacks) \ {s.host})
           IN  /\ Candidates(s) \in Seq(A) /\ rest \in Seq(A)
               /\ Distinct(Candidates(s))
               /\ Dialable(s) => Candidates(s) = <<s.host>> \o rest
<1> DEFINE A == Range(Fallbacks) \cup {s.host}
           rest == Kept(Fallbacks, Range(Fallbacks) \ {s.host})
           first == <<s.host>>
<1>1. Fallbacks \in Seq(A)
  BY FallbacksAssumption, SeqMonotonic
<1>2. rest \in Seq(A) /\ Range(rest) = Range(Fallbacks) \cap (Range(Fallbacks) \ {s.host})
  BY <1>1, KeptInSeq, KeptRange
<1>3. first \in Seq(A) /\ Len(first) = 1 /\ first[1] = s.host
  OBVIOUS
<1>4. Distinct(Fallbacks) /\ Distinct(rest)
  <2>1. Distinct(Fallbacks)
    <3>1. DOMAIN Fallbacks = 1..Len(Fallbacks)
      BY <1>1, LenProperties
    <3> QED BY <3>1, FallbacksAssumption DEF Distinct, IsInjective
  <2> QED BY <1>1, <2>1, KeptDistinct
<1>5. Candidates(s) = IF Dialable(s) THEN first \o rest ELSE Fallbacks
  BY DEF Candidates
<1> HIDE DEF first, rest, A
<1>6. /\ first \o rest \in Seq(A) /\ Len(first \o rest) = Len(rest) + 1 /\ Len(rest) \in Nat
      /\ (first \o rest)[1] = s.host
      /\ \A i \in 2..(Len(rest) + 1) : (first \o rest)[i] = rest[i - 1]
  <2>1. /\ Len(rest) \in Nat /\ Len(first \o rest) = 1 + Len(rest) /\ first \o rest \in Seq(A)
        /\ \A i \in 1..(1 + Len(rest)) :
             (first \o rest)[i] = IF i <= 1 THEN first[i] ELSE rest[i - 1]
    <3>1. /\ Len(first \o rest) = Len(first) + Len(rest) /\ first \o rest \in Seq(A)
          /\ \A i \in 1..(Len(first) + Len(rest)) :
               (first \o rest)[i] = IF i <= Len(first) THEN first[i] ELSE rest[i - Len(first)]
      <4>1. first \in Seq(A) /\ rest \in Seq(A)
        BY <1>2, <1>3
      <4> QED BY <4>1, ConcatProperties
    <3>2. Len(rest) \in Nat
      BY <1>2, LenProperties
    <3> QED BY <1>3, <3>1, <3>2
  <2>2. \A i \in 2..(Len(rest) + 1) : i \in 1..(1 + Len(rest)) /\ ~(i <= 1)
    BY <2>1
  <2> QED BY <1>3, <2>1, <2>2
<1>7. \A i \in 1..Len(rest) : rest[i] # s.host
  BY <1>2, RangeEquality
<1>8. Distinct(first \o rest)
  <2>1. ASSUME NEW i \in 1..(Len(rest) + 1), NEW j \in 1..(Len(rest) + 1),
               (first \o rest)[i] = (first \o rest)[j]
        PROVE  i = j
    <3>1. \A k \in 1..(Len(rest) + 1) : k = 1 \/ (k \in 2..(Len(rest) + 1) /\ k - 1 \in 1..Len(rest))
      BY <1>6
    <3>2. i # 1 /\ j # 1 => i - 1 = j - 1
      <4>1. i # 1 /\ j # 1 => rest[i - 1] = rest[j - 1]
        BY <1>6, <2>1, <3>1
      <4> QED BY <1>4, <3>1, <4>1 DEF Distinct
    <3>3. i = 1 <=> j = 1
      BY <1>6, <1>7, <2>1, <3>1
    <3> QED BY <1>6, <3>2, <3>3
  <2> QED BY <1>6, <2>1 DEF Distinct
<1> QED BY <1>1, <1>2, <1>4, <1>5, <1>6, <1>8 DEF first, rest, A

\* A custom server that got a port is asked whenever there is a route to it.
LEMMA CustomChosen ==
    ASSUME NEW s, Dialable(s), NEW routed, s.host \in routed
    PROVE  Kept(Candidates(s), routed) # <<>> /\ Head(Kept(Candidates(s), routed)) = s.host
<1> DEFINE A == Range(Fallbacks) \cup {s.host}
           rest == Kept(Fallbacks, Range(Fallbacks) \ {s.host})
           first == <<s.host>>
           more == Kept(rest, routed)
<1>1. Candidates(s) = first \o rest /\ rest \in Seq(A) /\ first \in Seq(A)
  <2>1. Candidates(s) = first \o rest /\ rest \in Seq(A)
    BY CandidatesAre
  <2> QED BY <2>1
<1> HIDE DEF rest
<1>2. Kept(first \o rest, routed) = Kept(first, routed) \o more
  <2> HIDE DEF first, A
  <2> QED BY <1>1, KeptConcat
<1>3. Kept(first, routed) = first
  <2>1. <<>> \in Seq(A) /\ s.host \in A
    BY EmptySeq
  <2>2. Kept(Append(<<>>, s.host), routed) = Append(Kept(<<>>, routed), s.host)
    BY <2>1, KeptTakes
  <2>3. Append(<<>>, s.host) = first
    BY <2>1
  <2> QED BY <2>2, <2>3, KeptEmpty
<1>4. more \in Seq(A)
  BY <1>1, KeptInSeq
<1>5. Kept(Candidates(s), routed) = first \o more
  BY <1>1, <1>2, <1>3
<1> HIDE DEF more
<1>6. /\ first \o more \in Seq(A) /\ Len(first \o more) = 1 + Len(more) /\ Len(more) \in Nat
      /\ (first \o more)[1] = s.host
  <2>1. /\ Len(first \o more) = Len(first) + Len(more) /\ first \o more \in Seq(A)
        /\ \A i \in 1..(Len(first) + Len(more)) :
             (first \o more)[i] = IF i <= Len(first) THEN first[i] ELSE more[i - Len(first)]
    <3> HIDE DEF first
    <3> QED BY <1>1, <1>4, ConcatProperties
  <2>2. Len(more) \in Nat /\ Len(first) = 1 /\ first[1] = s.host
    BY <1>4, LenProperties
  <2> HIDE DEF first
  <2>3. 1 \in 1..(Len(first) + Len(more))
    BY <2>2
  <2> QED BY <2>1, <2>2, <2>3
<1>7. first \o more # <<>> /\ Head(first \o more) = s.host
  BY <1>6
<1> QED BY <1>5, <1>7

\* The server that a lookup asks.
LEMMA ChosenIs ==
    ASSUME NEW s \in Customs \cup {NoServer}, NEW routed, ChosenServer(s, routed) # None
    PROVE  /\ ChosenServer(s, routed) = "system" <=> s.form = "empty"
           /\ Dialable(s) /\ s.host \in routed => ChosenServer(s, routed) = s.host
<1> DEFINE usable == Kept(Candidates(s), routed)
<1>1. CASE s.form = "empty"
  BY <1>1 DEF ChosenServer, Dialable, normalizeDNSServer
<1>2. CASE s.form # "empty"
  <2>1. ChosenServer(s, routed) = Head(usable) /\ usable # <<>>
    BY <1>2 DEF ChosenServer
  <2>2. s \in Customs
    <3>1. NoServer.form = "empty"
      BY DEF NoServer
    <3> QED BY <1>2, <3>1
  <2>3. Candidates(s) \in Seq(Range(Fallbacks) \cup {s.host})
    BY CandidatesAre
  <2>4. usable \in Seq(Range(Fallbacks) \cup {s.host})
    BY <2>3, KeptInSeq
  <2> HIDE DEF usable
  <2>5. Head(usable) \in Range(Fallbacks) \cup {s.host}
    BY <2>1, <2>4
  <2>6. Head(usable) # "system"
    BY <2>2, <2>5, HostsAssumption
  <2>7. Dialable(s) /\ s.host \in routed => Head(usable) = s.host
    BY CustomChosen DEF usable
  <2> QED BY <1>2, <2>1, <2>6, <2>7
<1> QED BY <1>1, <1>2

LEMMA ServerStep ==
    ASSUME NetInv, ServerInv, NEW u \in Users, UserNext(u), duty # "configure",
           UNCHANGED <<custom, duty>>
    PROVE  ServerInv'
<1>1. \A v \in Users \ {u} : server'[v] = server[v]
  BY NetStep DEF Same
<1>2. ASSUME server'[u] = server[u] \/ server'[u] = None PROVE ServerInv'
  BY <1>1, <1>2 DEF ServerInv, Dialable
<1> USE DEF NetInv, NetShape
<1>3. CASE OpenSocket(u) \/ \E w \in Wanted : Request(u, Asked(w))
  <2>1. UNCHANGED server
    <3>1. CASE OpenSocket(u)
      BY <3>1 DEF OpenSocket, Start, lookup
    <3>2. CASE \E w \in Wanted : Request(u, Asked(w))
      BY <3>2 DEF Request, Start, lookup
    <3> QED BY <1>3, <3>1, <3>2
  <2> QED BY <1>2, <2>1
<1>4. CASE Lookup(u)
  <2>1. CASE UNCHANGED server
    BY <1>2, <2>1
  <2>2. ASSUME NEW routed, ChosenServer(custom, routed) # None,
               server' = [server EXCEPT ![u] =
                             [host |-> ChosenServer(custom, routed),
                              routed |-> custom.host \in routed]]
        PROVE  ServerInv'
    <3> DEFINE chosen == ChosenServer(custom, routed)
    <3>1. custom \in Customs \cup {NoServer}
      BY DEF ServerInv
    <3>2. /\ chosen = "system" <=> custom.form = "empty"
          /\ Dialable(custom) /\ custom.host \in routed => chosen = custom.host
      BY <2>2, <3>1, ChosenIs
    <3> HIDE DEF chosen
    <3>3. server' = [server EXCEPT ![u] = [host |-> chosen, routed |-> custom.host \in routed]]
      BY <2>2 DEF chosen
    <3>4. server'[u].host = chosen /\ server'[u].routed = (custom.host \in routed)
      BY <3>3
    <3>5. Dialable(custom)' = Dialable(custom)
      BY DEF Dialable
    <3> QED BY <1>1, <3>1, <3>2, <3>4, <3>5 DEF ServerInv
  <2> QED BY <1>4, <2>1, <2>2 DEF Lookup, lookup
<1>5. CASE Sort(u)
  <2>1. server'[u] = None
    BY <1>5 DEF Sort
  <2> QED BY <1>2, <2>1
<1>6. CASE Answers(u) \/ Refuses(u) \/ Fails(u) \/ Done(u)
  <2>1. UNCHANGED server
    BY <1>6 DEF Answers, Refuses, Fails, Done, Dials, lookup
  <2> QED BY <1>2, <2>1
<1> QED BY <1>3, <1>4, <1>5, <1>6 DEF UserNext

LEMMA ServersStay == NetInv /\ ServerInv /\ [Next]_vars => ServerInv'
<1> SUFFICES ASSUME NetInv, ServerInv, [Next]_vars PROVE ServerInv'
  OBVIOUS
<1>1. CASE Run
  <2>1. /\ \A u \in Users : server[u] = None /\ server' = server
        /\ custom' \in Customs \cup {NoServer} /\ duty' # "configure"
    BY <1>1 DEF Run, ServerInv, options, netVars, lookup
  <2> QED BY <2>1 DEF ServerInv
<1>2. CASE Connect
  <2>1. duty # "configure" /\ UNCHANGED <<custom, duty>>
    BY <1>2 DEF Connect, options
  <2> QED BY <1>2, <2>1, ServerStep DEF Connect, NetNext
<1>3. CASE UNCHANGED <<custom, server, duty>>
  BY <1>3 DEF ServerInv, Dialable, normalizeDNSServer
<1>4. Run \/ Connect \/ UNCHANGED <<custom, server, duty>>
  BY DEF Next, Configure, ReportNetwork, ReportFigure, Ping, Count, vars, options, netVars, lookup
<1> QED BY <1>1, <1>2, <1>3, <1>4

LEMMA ServersInOrder == ServerInv => CustomServerFirst
<1> SUFFICES ASSUME ServerInv PROVE CustomServerFirst
  OBVIOUS
<1>1. \A i, j \in DOMAIN Candidates(custom) :
        Candidates(custom)[i] = Candidates(custom)[j] => i = j
  <2>1. Candidates(custom) \in Seq(Range(Fallbacks) \cup {custom.host}) /\ Distinct(Candidates(custom))
    BY CandidatesAre
  <2>2. DOMAIN Candidates(custom) = 1..Len(Candidates(custom))
    BY <2>1, LenProperties
  <2> QED BY <2>1, <2>2 DEF Distinct
<1> QED BY <1>1 DEF ServerInv, CustomServerFirst

\* The servers are tried in their order. The addresses of a lookup are dialled
\* all, once, in the order of the lookup within a family, those of the preferred
\* one first; and dials without a preference agree on it.
THEOREM DialsOrdered == Spec => []DialsInOrder
<1>1. ASSUME NetInv, DialInv, ServerInv PROVE DialsInOrder
  <2>1. ASSUME NEW u \in Users, pc[u] = "dial"
        PROVE  /\ Preferred(u) \in {"4", "6"}
               /\ ips[u] \in Seq(Addresses)
               /\ SortOf(ips[u], answer[u], Preferred(u))
    <3>1. Preferred(u) \in {"4", "6"}
      BY <1>1, <2>1, PreferredIs
    <3>2. answer[u] \in Seq(Addresses) /\ ips[u] = sortIPs(answer[u], Preferred(u))
      BY <1>1, <2>1, ResolutionsAssumption DEF DialInv, AttemptsInv
    <3> QED BY <3>1, <3>2, Sorted
  <2>2. SortedDials
    <3>1. \A u \in Users : Prefers(u) # "" => Preferred(u) = Prefers(u)
      BY DEF Preferred
    <3> QED BY <2>1, <3>1 DEF SortedDials, SortOf
  <2>3. OneOrder
    <3>1. SUFFICES ASSUME NEW u \in Users, NEW v \in Users, pc[u] = "dial", pc[v] = "dial",
                          Prefers(u) = "", Prefers(v) = "",
                          Range(ips[u]) = Range(ips[v]), ips[u] # <<>>
                   PROVE  Families[ips[u][1]] = Families[ips[v][1]]
      BY DEF OneOrder
    <3> DEFINE family == Preferred(u)
    <3>2. Preferred(v) = family /\ family \in {"4", "6"}
      BY <2>1, <3>1 DEF Preferred
    <3>3. /\ ips[u] \in Seq(Addresses) /\ ips[v] \in Seq(Addresses)
          /\ \A i, j \in DOMAIN ips[u] :
               Families[ips[u][i]] # family /\ Families[ips[u][j]] = family => j < i
          /\ \A i, j \in DOMAIN ips[v] :
               Families[ips[v][i]] # family /\ Families[ips[v][j]] = family => j < i
      BY <2>1, <3>1, <3>2 DEF SortOf
    <3> HIDE DEF family
    <3>4. ASSUME NEW s \in Seq(Addresses), s # <<>>,
                 \A i, j \in DOMAIN s : Families[s[i]] # family /\ Families[s[j]] = family => j < i
          PROVE  /\ s[1] \in Range(s) /\ Range(s) \in SUBSET Addresses
                 /\ (\E a \in Range(s) : Families[a] = family) => Families[s[1]] = family
      <4>1. /\ Len(s) \in Nat \ {0} /\ DOMAIN s = 1..Len(s)
            /\ Range(s) = {s[i] : i \in 1..Len(s)} /\ Range(s) \in SUBSET Addresses
        BY <3>4, EmptySeq, LenProperties, RangeEquality, RangeOfSeq
      <4>2. 1 \in DOMAIN s
        BY <4>1
      <4>3. ASSUME NEW a \in Range(s), Families[a] = family, Families[s[1]] # family PROVE FALSE
        <5>1. PICK j \in 1..Len(s) : a = s[j]
          BY <4>1
        <5>2. j < 1
          BY <3>4, <4>1, <4>2, <4>3, <5>1
        <5> QED BY <4>1, <5>1, <5>2
      <4> QED BY <4>1, <4>2, <4>3
    <3>5. ips[v] # <<>>
      <4>1. ips[u][1] \in Range(ips[v])
        BY <3>1, <3>3, <3>4
      <4>2. Range(<<>>) = {}
        BY DEF Range
      <4> QED BY <4>1, <4>2
    <3>6. /\ ips[u][1] \in Range(ips[u]) /\ ips[v][1] \in Range(ips[u])
          /\ Range(ips[u]) \in SUBSET Addresses
          /\ (\E a \in Range(ips[u]) : Families[a] = family) =>
               Families[ips[u][1]] = family /\ Families[ips[v][1]] = family
      BY <3>1, <3>3, <3>4, <3>5
    <3>7. \A a \in Range(ips[u]) : Families[a] \in {"4", "6"}
      BY <3>6, FamiliesAssumption
    <3> QED BY <3>2, <3>6, <3>7
  <2> QED BY <1>1, <2>2, <2>3, ServersInOrder DEF DialsInOrder
<1> QED BY <1>1, NetInit, NetStays, DialsStay, ServersStay, PTL DEF Spec
-----------------------------------------------------------------------------
(* The network counters. *)

\* What a reading at this moment would be: the sum of the included interfaces.
Counts == [n \in NICs |-> IF counter[n] # NoTotal /\ shouldInclude(n) THEN counter[n] ELSE 0]
Reading == SumOf(Counts, NICs)

Worth(v) == IF v = NoTotal THEN 0 ELSE v

\* One sum is explained by an earlier one and what was carried since.
Explains(carried, before, now) ==
    /\ now <= before + carried.bytes
    /\ ~carried.gap => now = before + carried.bytes

Carried == [bytes : Nat, gap : BOOLEAN]

CountersInv ==
    /\ counter \in [NICs -> Nat \cup {NoTotal}]
    /\ total \in Nat \cup {NoTotal} /\ sampled \in Nat \cup {NoTotal}
    /\ since \in Carried /\ span \in Carried
    /\ duty = "configure" => total = NoTotal /\ sampled = NoTotal
    /\ total # NoTotal => Explains(since, total, Reading)
    /\ total = NoTotal /\ sampled # NoTotal => Explains(since, sampled, Reading)
    /\ total # NoTotal /\ sampled # NoTotal => Explains(span, sampled, total)
    /\ SpeedIsCarried

LEMMA CountsAreNumbers ==
    ASSUME counter \in [NICs -> Nat \cup {NoTotal}]
    PROVE  /\ \A n \in NICs :
                /\ Counts[n] \in Nat
                /\ Counts[n] = IF counter[n] # NoTotal /\ shouldInclude(n) THEN counter[n] ELSE 0
           /\ Reading \in Nat
<1>1. \A n \in NICs :
        /\ Counts[n] \in Nat
        /\ Counts[n] = IF counter[n] # NoTotal /\ shouldInclude(n) THEN counter[n] ELSE 0
  BY DEF Counts
<1>2. Reading \in Nat
  BY <1>1, SumInNat, CountersAssumption DEF Reading
<1> QED BY <1>1, <1>2

\* The sum follows the counter of an interface that changes, by itself.
LEMMA ReadingFollows ==
    ASSUME counter \in [NICs -> Nat \cup {NoTotal}], filter' = filter,
           NEW n \in NICs, NEW v \in Nat \cup {NoTotal}, counter' = [counter EXCEPT ![n] = v]
    PROVE  /\ counter' \in [NICs -> Nat \cup {NoTotal}]
           /\ Reading \in Nat /\ Reading' \in Nat
           /\ shouldInclude(n) => Reading' + Worth(counter[n]) = Reading + Worth(v)
           /\ ~shouldInclude(n) => Reading' = Reading
<1> DEFINE f == Counts
           g == Counts'
<1>1. counter' \in [NICs -> Nat \cup {NoTotal}]
  OBVIOUS
<1>2. \A m \in NICs : shouldInclude(m)' = shouldInclude(m)
  BY DEF shouldInclude
<1>3. \A m \in NICs :
        /\ f[m] \in Nat
        /\ f[m] = IF counter[m] # NoTotal /\ shouldInclude(m) THEN counter[m] ELSE 0
  BY CountsAreNumbers
<1>4. \A m \in NICs :
        /\ g[m] \in Nat
        /\ g[m] = IF counter'[m] # NoTotal /\ shouldInclude(m) THEN counter'[m] ELSE 0
  BY <1>1, <1>2 DEF Counts
<1>5. \A m \in NICs : m # n => g[m] = f[m]
  BY <1>3, <1>4
<1> HIDE DEF f, g
<1>6. SumOf(g, NICs) + f[n] = SumOf(f, NICs) + g[n]
  BY <1>3, <1>4, <1>5, SumChanged, CountersAssumption
<1>7. SumOf(f, NICs) \in Nat /\ SumOf(g, NICs) \in Nat
  BY <1>3, <1>4, SumInNat, CountersAssumption
<1>8. counter'[n] = v /\ counter[n] \in Nat \cup {NoTotal}
  OBVIOUS
<1>9. Reading = SumOf(f, NICs) /\ Reading' = SumOf(g, NICs)
  BY DEF Reading, f, g
<1> QED BY <1>1, <1>3, <1>4, <1>6, <1>7, <1>8, <1>9 DEF Worth

LEMMA ReadingStays ==
    ASSUME counter' = counter, filter' = filter
    PROVE  Reading' = Reading
BY DEF Reading, Counts, shouldInclude

\* collectNetworkTotals adds up the included interfaces that exist, and no other
\* one counts.
LEMMA ReadingIsTotal ==
    ASSUME counter \in [NICs -> Nat \cup {NoTotal}], collectNetworkTotals
    PROVE  total' = Reading
<1> DEFINE P == {n \in {m \in NICs : counter[m] # NoTotal} : shouldInclude(n)}
<1>1. total' = SumOf(counter, P)
  BY DEF collectNetworkTotals, SumOf
<1>2. \A n \in NICs :
        /\ Counts[n] \in Nat
        /\ Counts[n] = IF counter[n] # NoTotal /\ shouldInclude(n) THEN counter[n] ELSE 0
  BY CountsAreNumbers
<1>3. P \in SUBSET NICs /\ IsFiniteSet(P)
  BY CountersAssumption, FS_Subset
<1>4. /\ \A n \in P : counter[n] \in Nat /\ Counts[n] = counter[n]
      /\ \A n \in NICs \ P : Counts[n] = 0
  BY <1>2
<1> HIDE DEF P
<1>5. SumOf(counter, P) = SumOf(Counts, P)
  BY <1>3, <1>4, SumSame
<1>6. SumOf(Counts, P) = SumOf(Counts, NICs)
  BY <1>2, <1>3, <1>4, SumOfPart, CountersAssumption
<1> QED BY <1>1, <1>5, <1>6 DEF Reading

LEMMA CountersInit == Init => CountersInv
<1> SUFFICES ASSUME IdleCounters PROVE CountersInv
  BY DEF Init
<1>1. counter \in [NICs -> Nat \cup {NoTotal}] /\ since \in Carried /\ span \in Carried
  BY DEF IdleCounters, Quiet, Carried
<1>2. SpeedIsCarried
  BY DEF IdleCounters, Quiet, NoSpeed, SpeedIsCarried
<1> QED BY <1>1, <1>2 DEF IdleCounters, CountersInv

LEMMA CountersStep == CountersInv /\ [Next]_vars => CountersInv'
<1> SUFFICES ASSUME CountersInv, [Next]_vars PROVE CountersInv'
  OBVIOUS
<1>0. Reading \in Nat
  BY CountsAreNumbers DEF CountersInv
<1>1. CASE UNCHANGED <<counterVars, duty>>
  BY <1>1, ReadingStays DEF counterVars, CountersInv, Explains, SpeedIsCarried
<1>2. CASE Run
  BY <1>2 DEF Run, CountersInv, SpeedIsCarried
<1>3. ASSUME NEW n \in NICs, Carry(n), UNCHANGED duty PROVE CountersInv'
  <2>1. counter[n] + 1 \in Nat /\ counter[n] \in Nat /\ counter[n] # NoTotal /\ counter[n] + 1 # NoTotal
    BY <1>3, CountersAssumption DEF Carry, CountersInv
  <2>2. counter' = [counter EXCEPT ![n] = counter[n] + 1] /\ filter' = filter
    BY <1>3 DEF Carry
  <2>3. /\ counter' \in [NICs -> Nat \cup {NoTotal}] /\ Reading' \in Nat
        /\ Reading' = IF shouldInclude(n) THEN Reading + 1 ELSE Reading
    <3>1. /\ counter' \in [NICs -> Nat \cup {NoTotal}] /\ Reading' \in Nat
          /\ shouldInclude(n) => Reading' + Worth(counter[n]) = Reading + Worth(counter[n] + 1)
          /\ ~shouldInclude(n) => Reading' = Reading
      BY <2>1, <2>2, ReadingFollows DEF CountersInv
    <3> QED BY <1>0, <2>1, <3>1 DEF Worth
  <2>4. /\ since' \in Carried /\ since'.gap = since.gap
        /\ since'.bytes = IF shouldInclude(n) THEN since.bytes + 1 ELSE since.bytes
    BY <1>3 DEF Carry, CountersInv, Carried
  <2>5. UNCHANGED <<total, sampled, span, speed, duty>>
    BY <1>3 DEF Carry
  <2>6. since.bytes \in Nat
    BY DEF CountersInv, Carried
  <2> QED BY <1>0, <2>3, <2>4, <2>5, <2>6 DEF CountersInv, Explains, SpeedIsCarried
<1>4. ASSUME NEW n \in NICs, Leave(n), UNCHANGED duty PROVE CountersInv'
  <2>1. PICK v \in {0, NoTotal} : counter' = [counter EXCEPT ![n] = v]
    BY <1>4 DEF Leave
  <2>2. filter' = filter /\ counter[n] \in Nat
    BY <1>4 DEF Leave, CountersInv
  <2>3. /\ counter' \in [NICs -> Nat \cup {NoTotal}] /\ Reading' \in Nat
        /\ Reading' <= Reading /\ (~shouldInclude(n) => Reading' = Reading)
    <3>1. v \in Nat \cup {NoTotal}
      BY <2>1
    <3>2. /\ counter' \in [NICs -> Nat \cup {NoTotal}] /\ Reading' \in Nat
          /\ shouldInclude(n) => Reading' + Worth(counter[n]) = Reading + Worth(v)
          /\ ~shouldInclude(n) => Reading' = Reading
      BY <2>1, <2>2, <3>1, ReadingFollows DEF CountersInv
    <3>3. Worth(v) = 0 /\ Worth(counter[n]) \in Nat
      BY <2>1, <2>2 DEF Worth
    <3> QED BY <1>0, <3>2, <3>3
  <2>4. /\ since' \in Carried /\ since'.bytes = since.bytes
        /\ ~since'.gap => ~since.gap /\ ~shouldInclude(n)
    BY <1>4 DEF Leave, CountersInv, Carried
  <2>5. UNCHANGED <<total, sampled, span, speed, duty>>
    BY <1>4 DEF Leave
  <2>6. since.bytes \in Nat
    BY DEF CountersInv, Carried
  <2> QED BY <1>0, <2>3, <2>4, <2>5, <2>6 DEF CountersInv, Explains, SpeedIsCarried
<1>5. ASSUME NEW n \in NICs, Appear(n), UNCHANGED duty PROVE CountersInv'
  <2>1. counter[n] = NoTotal /\ counter' = [counter EXCEPT ![n] = 0] /\ filter' = filter
    BY <1>5 DEF Appear
  <2>2. counter' \in [NICs -> Nat \cup {NoTotal}] /\ Reading' = Reading
    <3>1. /\ counter' \in [NICs -> Nat \cup {NoTotal}] /\ Reading' \in Nat
          /\ shouldInclude(n) => Reading' + Worth(counter[n]) = Reading + Worth(0)
          /\ ~shouldInclude(n) => Reading' = Reading
      BY <2>1, ReadingFollows DEF CountersInv
    <3>2. Worth(counter[n]) = 0 /\ Worth(0) = 0
      BY <2>1 DEF Worth
    <3> QED BY <1>0, <3>1, <3>2
  <2>3. UNCHANGED <<total, sampled, since, span, speed, duty>>
    BY <1>5 DEF Appear
  <2> QED BY <2>2, <2>3 DEF CountersInv, Explains, SpeedIsCarried
<1>6. CASE TimePasses /\ UNCHANGED duty
  BY <1>6, ReadingStays DEF TimePasses, CountersInv, Explains, SpeedIsCarried
<1>7. CASE collectNetworkTotals /\ duty = "report" /\ UNCHANGED duty
  <2>1. total' = Reading
    BY <1>7, ReadingIsTotal DEF CountersInv
  <2>2. /\ total = NoTotal /\ span' = since /\ since' = Quiet
        /\ UNCHANGED <<filter, counter, sampled, speed>>
    BY <1>7 DEF collectNetworkTotals
  <2>3. Reading' = Reading
    BY <2>2, ReadingStays
  <2>4. total' # NoTotal /\ total' \in Nat
    BY <1>0, <2>1, CountersAssumption
  <2>5. since' \in Carried /\ since'.bytes = 0
    BY <2>2 DEF Quiet, Carried
  <2>6. Explains(since', total', Reading')
    BY <1>0, <2>1, <2>3, <2>5 DEF Explains
  <2> QED BY <1>7, <2>1, <2>2, <2>3, <2>4, <2>5, <2>6 DEF CountersInv, Explains, SpeedIsCarried
<1>8. CASE FirstSample /\ UNCHANGED duty
  <2>1. /\ total # NoTotal /\ sampled' = total /\ total' = NoTotal /\ span' = Quiet
        /\ speed' = NoSpeed /\ UNCHANGED <<filter, counter, since>>
    BY <1>8 DEF FirstSample
  <2>2. Reading' = Reading
    BY <2>1, ReadingStays
  <2>3. span' \in Carried /\ SpeedIsCarried'
    BY <2>1 DEF Quiet, Carried, NoSpeed, SpeedIsCarried
  <2> QED BY <1>8, <2>1, <2>2, <2>3 DEF CountersInv, Explains
<1>9. CASE SampleAtOnce /\ UNCHANGED duty
  <2>1. /\ total # NoTotal /\ sampled # NoTotal /\ total' = NoTotal /\ speed' = NoSpeed
        /\ since' = Join(span, since) /\ span' = Quiet /\ UNCHANGED <<filter, counter, sampled>>
    BY <1>9 DEF SampleAtOnce
  <2>2. Reading' = Reading
    BY <2>1, ReadingStays
  <2>3. span' \in Carried /\ SpeedIsCarried'
    BY <2>1 DEF Quiet, Carried, NoSpeed, SpeedIsCarried
  <2>4. /\ since' \in Carried /\ since'.bytes = span.bytes + since.bytes
        /\ ~since'.gap => ~span.gap /\ ~since.gap
    BY <2>1 DEF Join, CountersInv, Carried
  <2>5. /\ Explains(span, sampled, total) /\ Explains(since, total, Reading)
        /\ total \in Nat /\ sampled \in Nat /\ since.bytes \in Nat /\ span.bytes \in Nat
    BY <2>1 DEF CountersInv, Carried
  <2>6. Explains(since', sampled, Reading)
    BY <1>0, <2>4, <2>5 DEF Explains
  <2> QED BY <1>9, <2>1, <2>2, <2>3, <2>4, <2>6 DEF CountersInv, Explains
<1>10. CASE updateNetworkSpeedSample /\ UNCHANGED duty
  <2>1. /\ total # NoTotal /\ sampled # NoTotal /\ sampled' = total /\ total' = NoTotal
        /\ speed' = [delta |-> safeCounterDelta(total, sampled), truth |-> span]
        /\ span' = Quiet /\ UNCHANGED <<filter, counter, since>>
    BY <1>10 DEF updateNetworkSpeedSample
  <2>2. Reading' = Reading
    BY <2>1, ReadingStays
  <2>3. span' \in Carried
    BY <2>1 DEF Quiet, Carried
  <2>4. /\ Explains(span, sampled, total) /\ Explains(since, total, Reading)
        /\ total \in Nat /\ sampled \in Nat /\ span.bytes \in Nat
    BY <2>1 DEF CountersInv, Carried
  <2>5. SpeedIsCarried'
    BY <2>1, <2>4 DEF Explains, SpeedIsCarried, safeCounterDelta
  <2> QED BY <1>10, <2>1, <2>2, <2>3, <2>4, <2>5 DEF CountersInv, Explains
<1>11. \/ UNCHANGED <<counterVars, duty>> \/ Run
       \/ duty = "report" /\ UNCHANGED duty /\ CountersNext
  BY DEF Next, Configure, Connect, ReportNetwork, ReportFigure, Ping, Count, vars
<1> QED BY <1>1, <1>2, <1>3, <1>4, <1>5, <1>6, <1>7, <1>8, <1>9, <1>10, <1>11 DEF CountersNext

\* The speed of a report never counts a byte that the included interfaces have
\* not carried between the two readings, and misses none of them unless one left
\* or restarted, for any interfaces, filters and counters.
THEOREM SpeedCarried == Spec => []SpeedIsCarried
<1>1. CountersInv => SpeedIsCarried
  BY DEF CountersInv
<1> QED BY <1>1, CountersInit, CountersStep, PTL DEF Spec

-----------------------------------------------------------------------------
(* Disks. *)

Maps(A) == UNION {[D -> A] : D \in SUBSET {Device(p) : p \in A}}

AddStepOf(A, by) == [x \in A \X Maps(A) |-> Added(x[2], x[1], by)]

LEMMA MapIs ==
    ASSUME NEW A, NEW m
    PROVE  m \in Maps(A) <=> /\ m = [d \in DOMAIN m |-> m[d]]
                             /\ DOMAIN m \subseteq {Device(p) : p \in A}
                             /\ \A d \in DOMAIN m : m[d] \in A
<1>1. ASSUME m \in Maps(A)
      PROVE  /\ m = [d \in DOMAIN m |-> m[d]]
             /\ DOMAIN m \subseteq {Device(p) : p \in A}
             /\ \A d \in DOMAIN m : m[d] \in A
  <2>1. PICK D \in SUBSET {Device(p) : p \in A} : m \in [D -> A]
    BY <1>1 DEF Maps
  <2> QED BY <2>1
<1>2. ASSUME m = [d \in DOMAIN m |-> m[d]], DOMAIN m \subseteq {Device(p) : p \in A},
             \A d \in DOMAIN m : m[d] \in A
      PROVE  m \in Maps(A)
  <2>1. m \in [DOMAIN m -> A] /\ DOMAIN m \in SUBSET {Device(p) : p \in A}
    BY <1>2
  <2> QED BY <2>1 DEF Maps
<1> QED BY <1>1, <1>2

LEMMA NoMap == \A A : <<>> \in Maps(A)
<1>1. DOMAIN <<>> = {} /\ <<>> = [d \in {} |-> <<>>[d]]
  OBVIOUS
<1>2. \A A : <<>> \in [{} -> A]
  BY <1>1
<1>3. \A A : {} \in SUBSET {Device(p) : p \in A}
  OBVIOUS
<1> QED BY <1>2, <1>3 DEF Maps

\* What one more mount does to the map.
LEMMA AddedIs ==
    ASSUME NEW A, NEW m \in Maps(A), NEW p \in A, NEW by
    PROVE  /\ Added(m, p, by) \in Maps(A)
           /\ \A x : x \in DOMAIN Added(m, p, by) <=> x \in DOMAIN m \/ x = Device(p)
           /\ \A d \in DOMAIN m : d # Device(p) => Added(m, p, by)[d] = m[d]
           /\ \/ /\ Device(p) \in DOMAIN m /\ ~Replaces(p, m[Device(p)], by)
                 /\ Added(m, p, by)[Device(p)] = m[Device(p)]
              \/ /\ ~(Device(p) \in DOMAIN m /\ ~Replaces(p, m[Device(p)], by))
                 /\ Added(m, p, by)[Device(p)] = p
<1> DEFINE d == Device(p)
           n == [x \in DOMAIN m \cup {d} |-> IF x = d THEN p ELSE m[x]]
<1>1. /\ m = [x \in DOMAIN m |-> m[x]] /\ DOMAIN m \subseteq {Device(q) : q \in A}
      /\ \A x \in DOMAIN m : m[x] \in A
  BY MapIs
<1>2. CASE d \in DOMAIN m /\ ~Replaces(p, m[d], by)
  BY <1>2 DEF Added
<1>3. CASE ~(d \in DOMAIN m /\ ~Replaces(p, m[d], by))
  <2>1. Added(m, p, by) = n
    BY <1>3 DEF Added
  <2>2. n \in Maps(A)
    <3>1. /\ n = [x \in DOMAIN n |-> n[x]]
          /\ DOMAIN n = DOMAIN m \cup {d} /\ d \in {Device(q) : q \in A}
          /\ \A x \in DOMAIN n : n[x] \in A
      BY <1>1
    <3> HIDE DEF n
    <3>2. DOMAIN n \subseteq {Device(q) : q \in A}
      BY <1>1, <3>1
    <3> QED BY <3>1, <3>2, MapIs
  <2>3. /\ DOMAIN n = DOMAIN m \cup {d} /\ n[d] = p
        /\ \A x \in DOMAIN m : x # d => n[x] = m[x]
    OBVIOUS
  <2> HIDE DEF n
  <2> QED BY <1>3, <2>1, <2>2, <2>3
<1> QED BY <1>2, <1>3

Adds(g, seq, by) ==
    g = [s \in SUBSET (DOMAIN seq) |->
            IF s = {} THEN <<>> ELSE Added(g[s \ {Max(s)}], seq[Max(s)], by)]

LEMMA ChosenIsLoop ==
    ASSUME NEW A, NEW seq \in Seq(A), NEW by
    PROVE  Chosen(seq, by) = LoopOf(seq, <<>>, AddStepOf(A, by), Maps(A))
<1> DEFINE n == Len(seq)
           I == 1..n
           M == Maps(A)
           step == LoopStep(seq, AddStepOf(A, by), M)
           pick == Greatest(I)
           By(g, s) == Added(g[s \ {Max(s)}], seq[Max(s)], by)
<1>1. n \in Nat /\ DOMAIN seq = I /\ Picks(pick, I) /\ IsFiniteSet(I)
  <2>1. n \in Nat /\ DOMAIN seq = I
    BY LenProperties
  <2> HIDE DEF n
  <2>2. n \in 0..n
    BY <2>1
  <2> QED BY <2>1, <2>2, GreatestPicks
<1>2. ASSUME NEW s \in SUBSET I, s # {}
      PROVE  pick[s] = Max(s) /\ Max(s) \in s /\ Max(s) \in I /\ seq[Max(s)] \in A
  <2>1. Max(s) \in s
    BY <1>1, <1>2, MaxIn
  <2> QED BY <1>1, <2>1, ElementOfSeq DEF Greatest
<1>3. \A i \in I, m \in M :
        step[<<i, m>>] = Added(m, seq[i], by) /\ step[<<i, m>>] \in M
  <2>1. ASSUME NEW i \in I, NEW m \in M
        PROVE  seq[i] \in A /\ step[<<i, m>>] = Added(m, seq[i], by)
    <3>1. seq[i] \in A
      BY ElementOfSeq
    <3> HIDE DEF I, M
    <3>2. <<i, m>> \in (DOMAIN seq) \X M /\ <<seq[i], m>> \in A \X M
      BY <1>1, <3>1
    <3>3. step[<<i, m>>] = AddStepOf(A, by)[<<seq[i], m>>]
      BY <3>2 DEF LoopStep
    <3> QED BY <3>1, <3>2, <3>3 DEF AddStepOf, M
  <2> HIDE DEF step, I
  <2>2. ASSUME NEW i \in I, NEW m \in M PROVE Added(m, seq[i], by) \in M
    BY <2>1, AddedIs
  <2> QED BY <2>1, <2>2
<1> HIDE DEF step, pick, I, n, M
<1>4. ASSUME NEW g, Adds(g, seq, by) \/ Folds(g, I, <<>>, step, pick)
      PROVE  \A s \in SUBSET I :
               /\ g[s] \in M
               /\ s # {} => step[<<pick[s], g[s \ {pick[s]}]>>] = By(g, s)
  <2> DEFINE W == {s \in SUBSET I : g[s] \in M}
  <2>1. ASSUME NEW s \in SUBSET I, s # {}, g[s \ {Max(s)}] \in M
        PROVE  step[<<pick[s], g[s \ {pick[s]}]>>] = By(g, s) /\ By(g, s) \in M
    <3>1. pick[s] = Max(s) /\ Max(s) \in I
      BY <1>2, <2>1
    <3>2. PICK i \in I, m \in M : i = Max(s) /\ m = g[s \ {Max(s)}]
      BY <2>1, <3>1
    <3>3. step[<<i, m>>] = Added(m, seq[i], by) /\ step[<<i, m>>] \in M
      BY <1>3
    <3>4. By(g, s) = Added(m, seq[i], by)
      BY <3>2
    <3> QED BY <3>1, <3>2, <3>3, <3>4
  <2>2. ASSUME NEW s \in SUBSET I, \A u \in SUBSET s : u # s => u \in W
        PROVE  s \in W
    <3>1. CASE s = {}
      <4>1. g[s] = <<>>
        <5>1. CASE Adds(g, seq, by)
          BY <1>1, <3>1, <5>1 DEF Adds
        <5>2. CASE Folds(g, I, <<>>, step, pick)
          BY <3>1, <5>2 DEF Folds
        <5> QED BY <1>4, <5>1, <5>2
      <4> QED BY <4>1, NoMap DEF M
    <3>2. CASE s # {}
      <4>1. g[s \ {Max(s)}] \in M
        BY <1>2, <2>2, <3>2
      <4>2. step[<<pick[s], g[s \ {pick[s]}]>>] = By(g, s) /\ By(g, s) \in M
        BY <2>1, <3>2, <4>1
      <4>3. g[s] = By(g, s)
        <5>1. CASE Adds(g, seq, by)
          BY <1>1, <3>2, <5>1 DEF Adds
        <5>2. CASE Folds(g, I, <<>>, step, pick)
          <6>1. g[s] = step[<<pick[s], g[s \ {pick[s]}]>>]
            BY <3>2, <5>2 DEF Folds
          <6> QED BY <4>2, <6>1
        <5> QED BY <1>4, <5>1, <5>2
      <4> QED BY <4>2, <4>3
    <3> QED BY <3>1, <3>2
  <2>3. W = SUBSET I
    <3>1. W \subseteq SUBSET I
      OBVIOUS
    <3> HIDE DEF W
    <3> QED BY <1>1, <2>2, <3>1, SubsetInduction
  <2>4. \A s \in SUBSET I : g[s] \in M /\ s \ {Max(s)} \in SUBSET I
    BY <2>3
  <2> QED BY <2>1, <2>4
<1>5. ASSUME NEW g, Adds(g, seq, by) \/ Folds(g, I, <<>>, step, pick)
      PROVE  Adds(g, seq, by) /\ Folds(g, I, <<>>, step, pick)
  <2>1. [s \in SUBSET I |-> IF s = {} THEN <<>> ELSE step[<<pick[s], g[s \ {pick[s]}]>>]]
          = [s \in SUBSET I |-> IF s = {} THEN <<>> ELSE By(g, s)]
    <3>1. \A s \in SUBSET I : s # {} => step[<<pick[s], g[s \ {pick[s]}]>>] = By(g, s)
      BY <1>4, <1>5
    <3> HIDE DEF By
    <3> QED BY <3>1
  <2> QED BY <1>1, <1>5, <2>1 DEF Adds, Folds
<1> DEFINE F == CHOOSE g : Folds(g, I, <<>>, step, pick)
           K == CHOOSE g : Adds(g, seq, by)
<1>6. Folds(F, I, <<>>, step, pick)
  BY <1>1, FoldExists
<1>7. Adds(K, seq, by)
  <2>1. Adds(F, seq, by)
    BY <1>5, <1>6
  <2> QED BY <2>1
<1>8. Chosen(seq, by) = K[I]
  BY <1>1 DEF Chosen, FoldLeft, MapThenFoldSet, Adds
<1> HIDE DEF F, K
<1>9. K = F
  BY <1>1, <1>5, <1>6, <1>7, OneFold
<1> QED BY <1>1, <1>8, <1>9 DEF LoopOf, Folded, F, step, pick, M

LEMMA ChosenEmpty == \A by : Chosen(<<>>, by) = <<>>
<1>1. ASSUME NEW by PROVE Chosen(<<>>, by) = <<>>
  <2>1. <<>> \in Seq({})
    BY EmptySeq
  <2>2. Chosen(<<>>, by) = LoopOf(<<>>, <<>>, AddStepOf({}, by), Maps({}))
    BY <2>1, ChosenIsLoop
  <2> QED BY <2>2, LoopEmpty
<1> QED BY <1>1

LEMMA ChosenAppend ==
    ASSUME NEW A, NEW seq \in Seq(A), NEW p \in A, NEW by
    PROVE  /\ Chosen(seq, by) \in Maps(A)
           /\ Chosen(Append(seq, p), by) = Added(Chosen(seq, by), p, by)
<1> DEFINE step == AddStepOf(A, by)
           loop(s) == LoopOf(s, <<>>, step, Maps(A))
<1>1. step \in Steps(A, Maps(A))
  <2>1. \A x \in A \X Maps(A) : Added(x[2], x[1], by) \in Maps(A)
    BY AddedIs
  <2> QED BY <2>1 DEF Steps, AddStepOf
<1>2. <<>> \in Maps(A) /\ Append(seq, p) \in Seq(A)
  BY NoMap, AppendProperties
<1>3. Chosen(seq, by) = loop(seq) /\ Chosen(Append(seq, p), by) = loop(Append(seq, p))
  BY <1>2, ChosenIsLoop
<1> HIDE DEF step
<1>4. loop(Append(seq, p)) = step[<<p, loop(seq)>>] /\ loop(seq) \in Maps(A)
  BY <1>1, <1>2, LoopAppend
<1> HIDE DEF loop
<1>5. step[<<p, loop(seq)>>] = Added(loop(seq), p, by)
  BY <1>4 DEF step, AddStepOf
<1> QED BY <1>3, <1>4, <1>5

LEMMA ChosenIsMap ==
    ASSUME NEW A, NEW seq \in Seq(A), NEW by
    PROVE  Chosen(seq, by) \in Maps(A)
<1>1. CASE seq = <<>>
  BY <1>1, ChosenEmpty, NoMap
<1>2. CASE seq # <<>>
  <2>1. PICK p : p \in A
    BY <1>2, SequenceEmptyOrAppend
  <2> QED BY <2>1, ChosenAppend
<1> QED BY <1>1, <1>2

\* The map has a mount of each device, no other, and none is better.
NoBetter(q, p, by) == IF by = "total" THEN q.total <= p.total ELSE p.length <= q.length

Stands(m, S, by) ==
    /\ IsFiniteSet(DOMAIN m)
    /\ DOMAIN m = {Device(p) : p \in S}
    /\ \A d \in DOMAIN m : m[d] \in S /\ Device(m[d]) = d
    /\ \A q \in S : NoBetter(q, m[Device(q)], by)

LEMMA AddedStands ==
    ASSUME NEW A, \A p \in A : p.total \in Nat /\ p.length \in Nat,
           NEW m \in Maps(A), NEW p \in A, NEW by, NEW S \in SUBSET A, Stands(m, S, by)
    PROVE  Stands(Added(m, p, by), S \cup {p}, by)
<1> DEFINE n == Added(m, p, by)
           d == Device(p)
<1>1. /\ DOMAIN n = DOMAIN m \cup {d}
      /\ \A x \in DOMAIN m : x # d => n[x] = m[x]
      /\ \/ d \in DOMAIN m /\ ~Replaces(p, m[d], by) /\ n[d] = m[d]
         \/ ~(d \in DOMAIN m /\ ~Replaces(p, m[d], by)) /\ n[d] = p
  <2>1. /\ \A x : x \in DOMAIN n <=> x \in DOMAIN m \/ x = d
        /\ \A x \in DOMAIN m : x # d => n[x] = m[x]
        /\ \/ d \in DOMAIN m /\ ~Replaces(p, m[d], by) /\ n[d] = m[d]
           \/ ~(d \in DOMAIN m /\ ~Replaces(p, m[d], by)) /\ n[d] = p
    BY AddedIs
  <2> HIDE DEF n
  <2>2. DOMAIN n = DOMAIN m \cup {d}
    BY <2>1
  <2> QED BY <2>1, <2>2
<1> HIDE DEF n
<1>2. IsFiniteSet(DOMAIN n)
  <2>1. IsFiniteSet(DOMAIN m)
    BY DEF Stands
  <2>2. IsFiniteSet(DOMAIN m \cup {d})
    BY <2>1, FS_AddElement
  <2> QED BY <1>1, <2>2
<1>3. DOMAIN n = {Device(q) : q \in S \cup {p}}
  BY <1>1 DEF Stands
<1>4. n[d] \in S \cup {p} /\ Device(n[d]) = d
  BY <1>1 DEF Stands
<1>5. ASSUME NEW x \in DOMAIN n PROVE n[x] \in S \cup {p} /\ Device(n[x]) = x
  <2>1. CASE x = d
    BY <1>4, <2>1
  <2>2. CASE x # d
    BY <1>1, <2>2 DEF Stands
  <2> QED BY <2>1, <2>2
<1>6. NoBetter(p, n[d], by) /\ (d \in DOMAIN m => NoBetter(m[d], n[d], by))
  <2>1. CASE d \notin DOMAIN m
    BY <1>1, <2>1 DEF NoBetter
  <2>2. CASE d \in DOMAIN m
    <3>1. m[d].total \in Nat /\ m[d].length \in Nat
      BY <2>2 DEF Stands
    <3>2. CASE Replaces(p, m[d], by)
      <4>1. n[d] = p
        BY <1>1, <3>2
      <4> QED BY <3>1, <3>2, <4>1 DEF NoBetter, Replaces
    <3>3. CASE ~Replaces(p, m[d], by)
      <4>1. n[d] = m[d]
        BY <1>1, <2>2, <3>3
      <4> QED BY <3>1, <3>3, <4>1 DEF NoBetter, Replaces
    <3> QED BY <3>2, <3>3
  <2> QED BY <2>1, <2>2
<1>7. ASSUME NEW q \in S PROVE NoBetter(q, n[Device(q)], by)
  <2>1. Device(q) \in DOMAIN m /\ NoBetter(q, m[Device(q)], by)
    BY DEF Stands
  <2>2. CASE Device(q) # d
    BY <1>1, <2>1, <2>2
  <2>3. CASE Device(q) = d
    <3>1. NoBetter(q, m[d], by) /\ NoBetter(m[d], n[d], by)
      BY <1>6, <2>1, <2>3
    <3>2. m[d] \in A /\ n[d] \in A /\ q \in A
      BY <1>4, <2>1, <2>3 DEF Stands
    <3>3. NoBetter(q, n[d], by)
      BY <3>1, <3>2 DEF NoBetter
    <3> QED BY <2>3, <3>3
  <2> QED BY <2>2, <2>3
<1>8. Stands(n, S \cup {p}, by)
  BY <1>2, <1>3, <1>5, <1>6, <1>7 DEF Stands
<1> QED BY <1>8 DEF n

LEMMA ChosenStands ==
    ASSUME NEW A, \A p \in A : p.total \in Nat /\ p.length \in Nat,
           NEW seq \in Seq(A), NEW by
    PROVE  Stands(Chosen(seq, by), Range(seq), by)
<1> DEFINE W == {s \in Seq(A) : Stands(Chosen(s, by), Range(s), by)}
<1>1. <<>> \in W
  <2>1. DOMAIN <<>> = {} /\ Range(<<>>) = {} /\ <<>> \in Seq(A)
    BY EmptySeq DEF Range
  <2> QED BY <2>1, ChosenEmpty, FS_EmptySet DEF Stands
<1>2. ASSUME NEW s \in Seq(A), NEW p \in A, s \in W PROVE Append(s, p) \in W
  <2>1. Append(s, p) \in Seq(A) /\ Range(Append(s, p)) = Range(s) \cup {p} /\ Range(s) \in SUBSET A
    BY AppendProperties, AppendRange, RangeOfSeq
  <2>2. Chosen(s, by) \in Maps(A) /\ Chosen(Append(s, p), by) = Added(Chosen(s, by), p, by)
    BY ChosenAppend
  <2>3. Stands(Added(Chosen(s, by), p, by), Range(s) \cup {p}, by)
    BY <1>2, <2>1, <2>2, AddedStands
  <2> QED BY <2>1, <2>2, <2>3 DEF W
<1> HIDE DEF W
<1>3. seq \in W
  BY <1>1, <1>2, SeqInduction
<1> QED BY <1>3 DEF W

\* Every device counts once, by the greatest of its mounts.
LEMMA DiskCounts ==
    ASSUME NEW parts, parts \in Seq(Range(parts)),
           \A p \in Range(parts) : p.total \in Nat /\ p.length \in Nat
    PROVE  CountsDevicesOnce(parts, Disk(parts))
<1> DEFINE good == {p \in Range(parts) : isPhysicalDisk(p) /\ ~p.fails}
           kept == Kept(parts, Physical(parts) \cap Usable(parts))
           map == Chosen(kept, "total")
           devices == {DiskOfMount(p) : p \in good}
<1>1. kept \in Seq(Range(parts)) /\ Range(kept) = good
  BY KeptInSeq, KeptRange DEF Physical, Usable
<1>2. Stands(map, good, "total") /\ map \in Maps(Range(parts))
  BY <1>1, ChosenStands, ChosenIsMap
<1>3. \A p : DiskOfMount(p) = Device(p)
  BY DEF DiskOfMount, Device
<1>4. Disk(parts) = [total |-> TotalOf(map), used |-> UsedOf(map)]
  BY DEF Disk
<1> HIDE DEF kept, map
<1>5. DOMAIN map = devices /\ map \in [devices -> good]
  <2>1. map = [d \in DOMAIN map |-> map[d]]
    BY <1>2, MapIs
  <2> QED BY <1>2, <1>3, <2>1 DEF Stands
<1>6. /\ \A d \in devices : DiskOfMount(map[d]) = d
      /\ \A p \in good : p.total <= map[DiskOfMount(p)].total
  BY <1>2, <1>3, <1>5 DEF Stands, NoBetter
<1> HIDE DEF good, devices
<1>7. \E stands \in [devices -> good] :
        /\ \A d \in devices : DiskOfMount(stands[d]) = d
        /\ \A p \in good : p.total <= stands[DiskOfMount(p)].total
        /\ Disk(parts).total = TotalOf(stands) /\ Disk(parts).used = UsedOf(stands)
  BY <1>4, <1>5, <1>6
<1> QED BY <1>7 DEF CountsDevicesOnce, good, devices

\* The list has one mount of each device, of the shortest path.
LEMMA DisksListed ==
    ASSUME NEW parts, parts \in Seq(Range(parts)),
           \A p \in Range(parts) : p.total \in Nat /\ p.length \in Nat
    PROVE  ListsDevicesOnce(parts, DiskList(parts))
<1> DEFINE physical == {p \in Range(parts) : isPhysicalDisk(p)}
           kept == Kept(parts, Physical(parts))
           map == Chosen(kept, "path")
           list == {map[d] : d \in DOMAIN map}
<1>1. kept \in Seq(Range(parts)) /\ Range(kept) = physical
  BY KeptInSeq, KeptRange DEF Physical
<1>2. Stands(map, physical, "path")
  BY <1>1, ChosenStands
<1>3. DiskList(parts) = list
  BY DEF DiskList
<1>4. ListsDevicesOnce(parts, list) <=>
        /\ list \subseteq physical
        /\ {Device(p) : p \in list} = {Device(p) : p \in physical}
        /\ \A p, q \in list : Device(p) = Device(q) => p = q
        /\ \A p \in list, q \in physical : Device(p) = Device(q) => p.length <= q.length
  BY DEF ListsDevicesOnce, DiskOfMount, Device
<1> HIDE DEF physical, kept, map
<1>5. /\ DOMAIN map = {Device(p) : p \in physical}
      /\ \A d \in DOMAIN map : map[d] \in physical /\ Device(map[d]) = d
  BY <1>2 DEF Stands
<1>6. \A q \in physical : map[Device(q)].length <= q.length
  BY <1>2 DEF Stands, NoBetter
<1>7. list \subseteq physical /\ \A p, q \in list : Device(p) = Device(q) => p = q
  BY <1>5
<1>8. {Device(p) : p \in list} = {Device(p) : p \in physical}
  BY <1>5
<1>9. \A p \in list, q \in physical : Device(p) = Device(q) => p.length <= q.length
  BY <1>5, <1>6
<1> QED BY <1>3, <1>4, <1>7, <1>8, <1>9

-----------------------------------------------------------------------------
(* The figures of a report. *)

\* A figure is what one of the formulas gives for a sample.
FigureInv ==
    \/ figure = None
    \/ \E includeCache, raw \in BOOLEAN, info \in Samples :
        figure = [of |-> "ram", from |-> info, is |-> RAM(includeCache, raw, info)]
    \/ \E swap \in SwapSamples : figure = [of |-> "swap", from |-> swap, is |-> Swap(swap)]
    \/ \E parts \in Tables :
        \/ figure = [of |-> "disk", from |-> parts, is |-> Disk(parts)]
        \/ figure = [of |-> "mounts", from |-> parts, is |-> DiskOf(parts)]
        \/ figure = [of |-> "disks", from |-> parts, is |-> DiskList(parts)]

LEMMA FigureStep == FigureInv /\ [Next]_vars => FigureInv'
<1> SUFFICES ASSUME FigureInv, [Next]_vars PROVE FigureInv'
  OBVIOUS
<1>1. CASE UNCHANGED figure
  BY <1>1 DEF FigureInv
<1>2. CASE ReportFigure
  BY <1>2 DEF ReportFigure, FigureInv
<1>3. ReportFigure \/ UNCHANGED figure
  BY DEF Next, Configure, Run, Connect, ReportNetwork, Ping, Count, vars
<1> QED BY <1>1, <1>2, <1>3

\* Memory and swap in use are never more than there is, for words of any width.
THEOREM MemoryBounded == Spec => []MemoryWithinTotal
<1>1. Init => FigureInv
  BY DEF Init, FigureInv
<1>2. FigureInv => MemoryWithinTotal
  <2> SUFFICES ASSUME FigureInv, figure # None
               PROVE  /\ figure.of = "ram" => UsedWithinTotal(figure.from, figure.is)
                      /\ figure.of = "swap" => SwapWithinTotal(figure.from, figure.is)
    BY DEF MemoryWithinTotal
  <2>1. ASSUME NEW includeCache \in BOOLEAN, NEW raw \in BOOLEAN, NEW info \in Samples,
               figure = [of |-> "ram", from |-> info, is |-> RAM(includeCache, raw, info)]
        PROVE  figure.of # "swap" /\ UsedWithinTotal(figure.from, figure.is)
    BY <2>1, RAMBounded, SamplesAssumption
  <2>2. ASSUME NEW swap \in SwapSamples,
               figure = [of |-> "swap", from |-> swap, is |-> Swap(swap)]
        PROVE  figure.of # "ram" /\ SwapWithinTotal(figure.from, figure.is)
    BY <2>2, SwapBounded, SamplesAssumption
  <2> QED BY <2>1, <2>2 DEF FigureInv
<1> QED BY <1>1, <1>2, FigureStep, PTL DEF Spec

\* A device counts once in the sums and in the list, for any table of mounts:
\* whatever its length and order, and whichever mounts cannot be read.
THEOREM DisksCounted == Spec => []DisksCountOnce
<1>1. Init => FigureInv
  BY DEF Init, FigureInv
<1>2. FigureInv => DisksCountOnce
  <2> SUFFICES ASSUME FigureInv, figure # None
               PROVE  /\ figure.of = "disk" => CountsDevicesOnce(figure.from, figure.is)
                      /\ figure.of = "disks" => ListsDevicesOnce(figure.from, figure.is)
    BY DEF DisksCountOnce
  <2>1. ASSUME NEW parts \in Tables
        PROVE  CountsDevicesOnce(parts, Disk(parts)) /\ ListsDevicesOnce(parts, DiskList(parts))
    <3>1. /\ parts \in Seq(Range(parts))
          /\ \A p \in Range(parts) : p.total \in Nat /\ p.length \in Nat
      BY TablesAssumption
    <3> QED BY <3>1, DiskCounts, DisksListed
  <2> QED BY <2>1 DEF FigureInv
<1> QED BY <1>1, <1>2, FigureStep, PTL DEF Spec
================================================================================
