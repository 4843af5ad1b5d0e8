------------------------ MODULE FleetVersions_proofs ------------------------
(***************************************************************************)
(* What a channel concludes from its instances, for any number of images   *)
(* and instances and any fleet.                                            *)
(*                                                                         *)
(* Both fleetImage and the length of a rollout are recursive functions.    *)
(* For each, a function that is not recursive is shown to solve the        *)
(* equation, and a least counterexample shows that every solution agrees   *)
(* with it.                                                                *)
(***************************************************************************)
EXTENDS MCFleetVersions, FiniteSetTheorems, WellFoundedInduction, TLAPS

-----------------------------------------------------------------------------
(* Least counterexamples                                                   *)

\* A set of natural numbers has a least element.
LEMMA Least ==
    ASSUME NEW T \in SUBSET Nat, T # {}
    PROVE  \E x \in T : \A y \in T : x <= y
<1> DEFINE R == {ss \in Nat \X Nat : ss[1] < ss[2]}
<1>1. IsWellFoundedOn(R, Nat)
  BY NatLessThanWellFounded, Zenon DEF OpToRel
<1>2. PICK x \in T : \A y \in T : ~(<<y, x>> \in R)
  BY <1>1, WFMin
<1>3. \A y \in T : y < x => <<y, x>> \in R
  OBVIOUS
<1>4. \A y \in T : ~(y < x)
  BY <1>2, <1>3, Zenon
<1> QED
  BY <1>4

\* The subsets of a finite set are well-founded, and a set of them that has none
\* without others of the set below it is empty.
LEMMA SubsetsWellFounded ==
    ASSUME NEW D, IsFiniteSet(D)
    PROVE  IsWellFoundedOn(StrictSubsetOrdering(D), SUBSET D)
BY FS_StrictSubsetOrderingWellFounded, FS_FiniteSubsetsOfFinite

\* A finite set of natural numbers has a greatest element.
LEMMA Greatest ==
    ASSUME NEW D \in SUBSET Nat, IsFiniteSet(D), D # {}
    PROVE  \E m \in D : \A i \in D : i <= m
<1> DEFINE Bad == {T \in SUBSET D : T # {} /\ ~\E m \in T : \A i \in T : i <= m}
<1> SUFFICES ASSUME Bad # {} PROVE FALSE
  OBVIOUS
<1>1. PICK T \in Bad : \A y \in Bad : y \subseteq T => y = T
  <2>1. Bad \subseteq SUBSET D
    OBVIOUS
  <2>2. PICK T \in Bad : \A y \in Bad : ~(<<y, T>> \in StrictSubsetOrdering(D))
    <3> HIDE DEF Bad
    <3> QED
      BY <2>1, SubsetsWellFounded, WFMin
  <2> QED
    BY <2>1, <2>2 DEF StrictSubsetOrdering
<1>2. PICK x \in T : TRUE
  BY <1>1
<1>3. CASE T \ {x} = {}
  <2>1. \A i \in T : i <= x
    BY <1>1, <1>3
  <2> QED
    BY <1>1, <2>1
<1>4. CASE T \ {x} # {}
  <2>1. PICK m \in T \ {x} : \A i \in T \ {x} : i <= m
    <3>1. T \ {x} \notin Bad
      BY <1>1, <1>2
    <3> QED
      BY <1>1, <1>4, <3>1
  <2>2. m \in Nat /\ x \in Nat
    BY <1>1
  <2>3. CASE x <= m
    BY <1>1, <2>1, <2>3
  <2>4. CASE ~(x <= m)
    <3>1. \A i \in T : i <= x
      BY <1>1, <2>1, <2>2, <2>4
    <3> QED
      BY <1>1, <3>1
  <2> QED
    BY <2>3, <2>4
<1> QED
  BY <1>3, <1>4

-----------------------------------------------------------------------------
(* The upgrade budget                                                      *)

\* The numbers a strategy comes down to
LEMMA StrategyNumbers ==
    ASSUME NEW s \in Strategies
    PROVE  Parallel(s) \in Nat \ {0} /\ BatchAllowance(s) \in Nat
<1>1. s \in StrategyType
  BY StrategiesAssumption
<1>2. Parallel(s) \in Nat \ {0}
  BY <1>1 DEF StrategyType, Parallel
<1>3. \A d \in Durations, n \in Nat : OrElse(d, n) \in Nat
  BY DEF Durations, OrElse, Unset
<1>4. s.settle \in Durations /\ s.verify \in Durations /\ s.interval \in Durations
  BY <1>1 DEF StrategyType
<1> QED
  BY <1>2, <1>3, <1>4 DEF BatchAllowance

\* Quotients are unique.
LEMMA Quotient ==
    ASSUME NEW p \in Nat \ {0}, NEW q \in Int, NEW r \in 0 .. p - 1
    PROVE  (p * q + r) \div p = q
<1> DEFINE m == p * q + r
           d == m \div p
           e == m % p
<1>1. m \in Int /\ d \in Int /\ e \in 0 .. p - 1 /\ m = p * d + e
  OBVIOUS
<1> HIDE DEF d, e
<1>2. p * (d - q) = r - e
  BY <1>1
<1> DEFINE k == d - q
<1>3. k \in Int /\ p * k = r - e
  BY <1>1, <1>2
<1>4. ~(k >= 1)
  <2> SUFFICES ASSUME k >= 1 PROVE FALSE
    OBVIOUS
  <2>1. p * k >= p
    BY <1>3
  <2> QED
    BY <1>1, <1>3, <2>1
<1>5. ~(k <= -1)
  <2> SUFFICES ASSUME k <= -1 PROVE FALSE
    OBVIOUS
  <2>1. p * k <= -p
    BY <1>3
  <2> QED
    BY <1>1, <1>3, <2>1
<1>6. d = q
  BY <1>1, <1>3, <1>4, <1>5
<1> QED
  BY <1>6 DEF d

\* Taking a batch off what is left takes one off the number of batches.
LEMMA OneBatchLess ==
    ASSUME NEW s \in Strategies, NEW n \in Nat
    PROVE  /\ Batches(n, s) \in Nat
           /\ Batches(0, s) = 0
           /\ n # 0 => Batches(n, s) =
                          1 + Batches(IF n > Parallel(s) THEN n - Parallel(s) ELSE 0, s)
<1> DEFINE p == Parallel(s)
           B(k) == (k + p - 1) \div p
<1>1. p \in Nat \ {0}
  BY StrategyNumbers
<1>2. \A k : Batches(k, s) = B(k)
  BY DEF Batches
<1> HIDE DEF p
<1>3. B(0) = 0
  BY <1>1, Quotient
<1>4. ASSUME NEW k \in Nat, k # 0, k <= p PROVE B(k) = 1
  <2>1. k - 1 \in 0 .. p - 1 /\ k + p - 1 = p * 1 + (k - 1)
    BY <1>1, <1>4
  <2> QED
    BY <1>1, <2>1, Quotient
<1>5. ASSUME NEW k \in Nat, k > p PROVE B(k) = 1 + B(k - p)
  <2> DEFINE m == k - 1
             q == m \div p
             r == m % p
  <2>1. m \in Nat /\ q \in Int /\ r \in 0 .. p - 1 /\ m = p * q + r
    BY <1>1, <1>5
  <2>2. (k - p) + p - 1 = m /\ k + p - 1 = m + p
    BY <1>1, <1>5
  <2> HIDE DEF m, q, r
  <2>3. k + p - 1 = p * (q + 1) + r
    BY <1>1, <2>1, <2>2
  <2>4. (k + p - 1) \div p = q + 1
    BY <1>1, <2>1, <2>3, Quotient
  <2> QED
    BY <2>1, <2>2, <2>4 DEF q
<1>6. B(n) \in Nat
  <2>1. n + p - 1 \in Nat
    BY <1>1
  <2> QED
    BY <1>1, <2>1
<1> HIDE DEF B
<1>7. ASSUME n # 0 PROVE B(n) = 1 + B(IF n > p THEN n - p ELSE 0)
  BY <1>1, <1>3, <1>4, <1>5, <1>7
<1> QED
  BY <1>2, <1>3, <1>6, <1>7 DEF p

\* A rollout takes every batch its allowance and a wake-up, and a wake-up at the end.
LEMMA RolloutTimeIs ==
    ASSUME NEW s \in Strategies, NEW N \in Nat
    PROVE  RolloutTime(N, s) = Batches(N, s) * (BatchAllowance(s) + WakeUp) + WakeUp
<1> DEFINE B(n) == Batches(n, s)
           A == BatchAllowance(s) + WakeUp
           Rest(n) == IF n > Parallel(s) THEN n - Parallel(s) ELSE 0
           F(f) == [n \in 0 .. N |->
                      IF n = 0 THEN WakeUp ELSE BatchAllowance(s) + WakeUp + f[Rest(n)]]
           left == CHOOSE f : f = F(f)
           g == [n \in 0 .. N |-> B(n) * A + WakeUp]
<1>1. RolloutTime(N, s) = left[N]
  BY DEF RolloutTime
<1>2. ASSUME NEW n \in 0 .. N
      PROVE  /\ B(n) \in Nat /\ A \in Nat /\ WakeUp = 1 /\ B(0) = 0
             /\ n # 0 => Rest(n) \in 0 .. N /\ Rest(n) < n /\ B(n) = 1 + B(Rest(n))
  BY OneBatchLess, StrategyNumbers DEF WakeUp
<1> HIDE DEF B, A, Rest
<1>3. ASSUME NEW n \in 0 .. N
      PROVE  B(n) * A + WakeUp = IF n = 0 THEN WakeUp ELSE A + (B(Rest(n)) * A + WakeUp)
  <2>1. CASE n = 0
    BY <1>2, <2>1
  <2>2. CASE n # 0
    <3>1. B(n) = 1 + B(Rest(n)) /\ B(Rest(n)) \in Nat /\ A \in Nat /\ WakeUp \in Nat
      BY <1>2, <2>2
    <3>2. B(n) * A = A + B(Rest(n)) * A
      BY <3>1
    <3>3. B(Rest(n)) * A \in Nat /\ B(n) * A \in Nat
      BY <3>1
    <3> QED
      BY <2>2, <3>1, <3>2, <3>3
  <2> QED
    BY <2>1, <2>2
<1>4. A = BatchAllowance(s) + WakeUp
  BY DEF A
<1>5. g = F(g)
  BY <1>2, <1>3, <1>4
<1>6. left = F(left)
  BY <1>5
<1>7. left[N] = g[N]
  <2> HIDE DEF left
  <2> DEFINE Bad == {n \in 0 .. N : left[n] # g[n]}
  <2> SUFFICES ASSUME Bad # {} PROVE FALSE
    OBVIOUS
  <2>1. PICK n \in Bad : \A m \in Bad : n <= m
    <3>1. Bad \subseteq Nat
      OBVIOUS
    <3> HIDE DEF Bad
    <3> QED
      BY <3>1, Least
  <2>2. n # 0 /\ n \in 0 .. N
    BY <2>1, <1>5, <1>6
  <2>3. Rest(n) \in 0 .. N /\ Rest(n) < n
    BY <2>2, <1>2
  <2>4. Rest(n) \notin Bad
    <3> HIDE DEF Bad
    <3> QED
      BY <2>1, <2>2, <2>3
  <2>5. left[Rest(n)] = g[Rest(n)]
    BY <2>3, <2>4
  <2>6. /\ left[n] = BatchAllowance(s) + WakeUp + left[Rest(n)]
        /\ g[n] = BatchAllowance(s) + WakeUp + g[Rest(n)]
    <3>1. \A f : f = F(f) => f[n] = BatchAllowance(s) + WakeUp + f[Rest(n)]
      BY <2>2
    <3> HIDE DEF F, g
    <3> QED
      BY <3>1, <1>5, <1>6
  <2>7. left[n] # g[n]
    BY <2>1
  <2> QED
    BY <2>5, <2>6, <2>7
<1> QED
  BY <1>1, <1>7 DEF A, B

\* Whatever the size of the fleet, for any number of parallel upgrades and any of the
\* durations a strategy may set or leave unset: a budget
\* nobody pinned is what the batches may take one after the other, unless it is the
\* ceiling, and it is never less than the default.
THEOREM BudgetsCoverRollouts == Spec => []BudgetCoversRollout
<1>1. Listed \in Nat
  BY InstancesAssumption, FS_Subset, FS_CardinalityType DEF Listed
<1>2. ASSUME NEW s \in Strategies, ~Pinned(s)
      PROVE  /\ RolloutTime(Listed, s) <= Budget(Listed, s) \/ Budget(Listed, s) = Ceiling
             /\ Budget(Listed, s) >= Floor
  <2> DEFINE b == Batches(Listed, s)
             A == BatchAllowance(s)
  <2>1. b \in Nat /\ A \in Nat
    BY <1>1, OneBatchLess, StrategyNumbers
  <2>2. RolloutTime(Listed, s) = b * (A + 1) + 1
    BY <1>1, RolloutTimeIs DEF WakeUp
  <2>3. Budget(Listed, s) = Clamped(b * A + (b + 1) * 1)
    BY <1>2 DEF Budget, WakeUp
  <2> HIDE DEF b, A
  <2>4. b * (A + 1) + 1 = b * A + (b + 1) * 1 /\ b * A \in Nat
    BY <2>1
  <2> QED
    BY <2>1, <2>2, <2>3, <2>4 DEF Clamped, Floor, Ceiling
<1>3. BudgetCoversRollout
  BY <1>2 DEF BudgetCoversRollout
<1> QED
  BY <1>3, PTL

-----------------------------------------------------------------------------
(* The image of a fleet                                                    *)

MostCommon(s, S, f) == {i \in s : \A j \in s : CountOn(j, S, f) <= CountOn(i, S, f)}

\* The image fleetImage makes of the images s: one of the most common, older than none
\* of them, newer than those that sort before it and can be ordered; the first of them
\* only gives way to something newer.
Wins(w, s, S, f) ==
    LET most == MostCommon(s, S, f)
    IN  /\ w \in most
        /\ \A i \in most :
              /\ ~OlderThan(w, i)
              /\ i < w => ~HasVersion(i) \/ OlderThan(i, w)
              /\ (\A j \in most : i <= j) => i = w \/ OlderThan(i, w)

\* Instances are counted.
LEMMA CountsAreNumbers ==
    ASSUME NEW S, IsFiniteSet(S), NEW f, NEW i
    PROVE  CountOn(i, S, f) \in Nat
<1>1. IsFiniteSet({u \in S : f[u] = i})
  BY FS_Subset
<1> QED
  BY <1>1, FS_CardinalityType DEF CountOn

\* Being older is a strict order.
LEMMA OlderThanOrder ==
    /\ \A i : ~OlderThan(i, i)
    /\ \A i, j, k : OlderThan(i, j) /\ OlderThan(j, k) => OlderThan(i, k)
    /\ \A i, j, k : OlderThan(i, j) /\ ~OlderThan(i, k) /\ HasVersion(k) => OlderThan(k, j)
    /\ \A i, j : OlderThan(i, j) => HasVersion(i) /\ HasVersion(j) /\ ~OlderThan(j, i)
<1>1. \A i : HasVersion(i) => Version[i] \in Nat
  BY VersionAssumption DEF HasVersion
<1> QED
  BY <1>1 DEF OlderThan

\* There is at most one such image.
LEMMA OneWins ==
    ASSUME NEW S, NEW f, NEW s \in SUBSET Images, NEW v, NEW w,
           Wins(v, s, S, f), Wins(w, s, S, f), v < w
    PROVE  FALSE
<1> DEFINE most == MostCommon(s, S, f)
<1>1. most \subseteq Nat /\ v \in most /\ w \in most
  BY ImagesAssumption DEF MostCommon, Wins
<1>2. ~HasVersion(v)
  BY <1>1 DEF Wins
<1>3. PICK m \in most : \A j \in most : m <= j
  <2> HIDE DEF most
  <2> QED
    BY <1>1, Least
<1>4. (m = v \/ OlderThan(m, v)) /\ (m = w \/ OlderThan(m, w))
  BY <1>3 DEF Wins
<1>5. m = v
  BY <1>2, <1>4, OlderThanOrder
<1>6. v # w
  BY <1>1
<1> QED
  BY <1>2, <1>4, <1>5, <1>6, OlderThanOrder

\* One round of the loop: the image that won among those that sort before x, or x.
LEMMA RoundWins ==
    ASSUME NEW S, IsFiniteSet(S), NEW f, NEW s \in SUBSET Images,
           NEW x \in s, \A i \in s : i <= x,
           NEW w, Wins(w, s \ {x}, S, f)
    PROVE  Wins(Prefer(w, x, S, f), s, S, f)
<1> DEFINE C(i) == CountOn(i, S, f)
           before == MostCommon(s \ {x}, S, f)
           most == MostCommon(s, S, f)
<1>a. \A i : C(i) \in Nat
  BY CountsAreNumbers
<1>b. /\ w \in before /\ w \in s /\ w # x /\ w # NoImage
      /\ \A i \in s : i \in Nat /\ (i # x => i < x)
  BY ImagesAssumption DEF Wins, MostCommon, NoImage
<1>c. /\ \A i \in before : C(i) = C(w)
      /\ \A i \in s \ {x} : C(i) <= C(w)
      /\ \A i \in s \ {x} : C(i) = C(w) => i \in before
      /\ before \subseteq s \ {x}
  <2>1. before \subseteq s \ {x} /\ \A i \in s \ {x} : C(i) <= C(w)
    BY <1>b DEF MostCommon
  <2>2. \A i \in before : C(w) <= C(i)
    BY <1>b DEF MostCommon
  <2> HIDE DEF C
  <2>3. \A i \in before : C(i) = C(w)
    BY <2>1, <2>2, <1>a
  <2>4. ASSUME NEW i \in s \ {x}, C(i) = C(w) PROVE \A j \in s \ {x} : C(j) <= C(i)
    BY <2>1, <2>4
  <2> QED
    BY <2>1, <2>3, <2>4 DEF MostCommon, C
<1>1. CASE C(x) > C(w)
  <2>1. most = {x}
    BY <1>1, <1>a, <1>b, <1>c DEF MostCommon
  <2>2. Prefer(w, x, S, f) = x
    BY <1>1 DEF Prefer
  <2> QED
    BY <2>1, <2>2, <1>b, OlderThanOrder DEF Wins
<1>2. CASE C(x) = C(w)
  <2>1. most = before \cup {x}
    BY <1>2, <1>a, <1>b, <1>c DEF MostCommon
  <2>2. CASE OlderThan(w, x)
    <3>1. Prefer(w, x, S, f) = x
      BY <1>2, <2>2 DEF Prefer
    <3>2. \A i \in before : HasVersion(i) => OlderThan(i, x)
      BY <2>2, OlderThanOrder DEF Wins
    <3>3. \A i \in most : ~OlderThan(x, i) /\ (i < x => ~HasVersion(i) \/ OlderThan(i, x))
      <4> HIDE DEF most, before
      <4>1. \A i \in before : ~OlderThan(x, i)
        BY <3>2, OlderThanOrder
      <4>2. ~OlderThan(x, x) /\ ~(x < x)
        BY <1>b, OlderThanOrder
      <4> QED
        BY <2>1, <3>2, <4>1, <4>2
    <3>4. ASSUME NEW i \in most, \A j \in most : i <= j PROVE i = x \/ OlderThan(i, x)
      <4>1. i \in before => i = w \/ OlderThan(i, w)
        BY <2>1, <3>4 DEF Wins
      <4> QED
        BY <2>1, <2>2, <4>1, OlderThanOrder
    <3> QED
      BY <2>1, <3>1, <3>3, <3>4 DEF Wins
  <2>3. CASE ~OlderThan(w, x)
    <3>1. Prefer(w, x, S, f) = w
      BY <1>2, <1>a, <1>b, <2>3 DEF Prefer
    <3>2. \A i \in most : ~OlderThan(w, i) /\ (i < w => ~HasVersion(i) \/ OlderThan(i, w))
      BY <1>b, <2>1, <2>3 DEF Wins
    <3>3. ASSUME NEW i \in most, \A j \in most : i <= j PROVE i = w \/ OlderThan(i, w)
      <4> HIDE DEF most, before
      <4>1. i \in before /\ \A j \in before : i <= j
        <5>1. w \in most /\ ~(x <= w) /\ i <= w
          BY <1>b, <2>1, <3>3
        <5> QED
          BY <2>1, <3>3, <5>1
      <4> USE DEF before
      <4> QED
        BY <4>1 DEF Wins
    <3> QED
      BY <1>b, <2>1, <3>1, <3>2, <3>3 DEF Wins
  <2> QED
    BY <2>2, <2>3
<1>3. CASE C(x) < C(w)
  <2>1. most = before
    BY <1>3, <1>a, <1>b, <1>c DEF MostCommon
  <2>2. Prefer(w, x, S, f) = w
    BY <1>3, <1>a, <1>b DEF Prefer
  <2> QED
    BY <2>1, <2>2 DEF Wins
<1> QED
  BY <1>1, <1>2, <1>3, <1>a

\* The image that sorts last: the one the last round of the loop is about
LastOf(s) == CHOOSE m \in s : \A i \in s : i <= m

\* A set of images has one.
LEMMA LastIsThere ==
    ASSUME NEW s \in SUBSET Images, IsFiniteSet(s), s # {}
    PROVE  LastOf(s) \in s /\ \A i \in s : i <= LastOf(s)
<1>1. \E m \in s : \A i \in s : i <= m
  BY ImagesAssumption, Greatest
<1> QED
  BY <1>1 DEF LastOf

\* A single image wins.
LEMMA AloneWins ==
    ASSUME NEW S, IsFiniteSet(S), NEW f, NEW x \in Images
    PROVE  Wins(x, {x}, S, f) /\ Prefer(NoImage, x, S, f) = x
<1>1. CountOn(x, S, f) \in Nat
  BY CountsAreNumbers
<1>2. MostCommon({x}, S, f) = {x}
  BY <1>1 DEF MostCommon
<1> QED
  BY <1>2, ImagesAssumption, OlderThanOrder DEF Wins, Prefer

\* The equation fleetImage's loop solves
Loop(g, D, S, f) ==
    [s \in SUBSET D |->
        IF s = {} THEN NoImage ELSE Prefer(g[s \ {LastOf(s)}], LastOf(s), S, f)]

\* Some image wins in every set of images.
LEMMA SomeWins ==
    ASSUME NEW S, IsFiniteSet(S), NEW f,
           NEW D \in SUBSET Images, IsFiniteSet(D), NEW s \in SUBSET D, s # {}
    PROVE  \E w : Wins(w, s, S, f)
<1> DEFINE Bad == {t \in SUBSET D : t # {} /\ ~\E w : Wins(w, t, S, f)}
<1> SUFFICES ASSUME Bad # {} PROVE FALSE
  OBVIOUS
<1>1. PICK t \in Bad : \A y \in Bad : ~(<<y, t>> \in StrictSubsetOrdering(D))
  <2>1. Bad \subseteq SUBSET D
    OBVIOUS
  <2> HIDE DEF Bad
  <2> QED
    BY <2>1, SubsetsWellFounded, WFMin
<1>2. t \in SUBSET Images /\ IsFiniteSet(t) /\ t # {} /\ t \in SUBSET D
  BY <1>1, FS_Subset
<1> DEFINE x == LastOf(t)
<1>3. x \in t /\ (\A i \in t : i <= x) /\ x \in Images
  BY <1>2, LastIsThere
<1> HIDE DEF x
<1>4. CASE t \ {x} = {}
  <2>1. t = {x}
    BY <1>3, <1>4
  <2> QED
    BY <1>1, <1>3, <2>1, AloneWins
<1>5. CASE t \ {x} # {}
  <2>1. <<t \ {x}, t>> \in StrictSubsetOrdering(D)
    BY <1>2, <1>3 DEF StrictSubsetOrdering
  <2>2. t \ {x} \notin Bad
    <3> HIDE DEF Bad
    <3> QED
      BY <1>1, <2>1
  <2>3. PICK w : Wins(w, t \ {x}, S, f)
    BY <1>2, <1>5, <2>2
  <2>4. Wins(Prefer(w, x, S, f), t, S, f)
    BY <1>2, <1>3, <2>3, RoundWins
  <2> QED
    BY <1>1, <2>4
<1> QED
  BY <1>4, <1>5

\* Whatever solves the equation names the winner of every set of images.
LEMMA LoopFindsWinner ==
    ASSUME NEW S, IsFiniteSet(S), NEW f,
           NEW D \in SUBSET Images, IsFiniteSet(D),
           NEW g, g = Loop(g, D, S, f), NEW s \in SUBSET D, s # {}
    PROVE  Wins(g[s], s, S, f)
<1> DEFINE Bad == {t \in SUBSET D : t # {} /\ ~Wins(g[t], t, S, f)}
<1> SUFFICES ASSUME Bad # {} PROVE FALSE
  OBVIOUS
<1>1. PICK t \in Bad : \A y \in Bad : ~(<<y, t>> \in StrictSubsetOrdering(D))
  <2>1. Bad \subseteq SUBSET D
    OBVIOUS
  <2> HIDE DEF Bad
  <2> QED
    BY <2>1, SubsetsWellFounded, WFMin
<1>2. t \in SUBSET Images /\ IsFiniteSet(t) /\ t # {} /\ t \in SUBSET D
  BY <1>1, FS_Subset
<1> DEFINE x == LastOf(t)
<1>3. x \in t /\ (\A i \in t : i <= x) /\ x \in Images
  BY <1>2, LastIsThere
<1>4. g[t] = Prefer(g[t \ {x}], x, S, f) /\ g[{}] = NoImage
  <2>1. \A h : h = Loop(h, D, S, f) => h[t] = Prefer(h[t \ {x}], x, S, f) /\ h[{}] = NoImage
    BY <1>2 DEF Loop
  <2> QED
    BY <2>1
<1> HIDE DEF x
<1>5. CASE t \ {x} = {}
  <2>1. t = {x}
    BY <1>3, <1>5
  <2> QED
    BY <1>1, <1>3, <1>4, <1>5, <2>1, AloneWins
<1>6. CASE t \ {x} # {}
  <2>1. <<t \ {x}, t>> \in StrictSubsetOrdering(D)
    BY <1>2, <1>3 DEF StrictSubsetOrdering
  <2>2. t \ {x} \notin Bad
    <3> HIDE DEF Bad
    <3> QED
      BY <1>1, <2>1
  <2>3. Wins(g[t \ {x}], t \ {x}, S, f)
    BY <1>2, <1>6, <2>2
  <2>4. Wins(g[t], t, S, f)
    BY <1>2, <1>3, <1>4, <2>3, RoundWins
  <2> QED
    BY <1>1, <2>4
<1> QED
  BY <1>5, <1>6

\* The equation has a solution: the function that names the winner.
LEMMA LoopEnds ==
    ASSUME NEW S, IsFiniteSet(S), NEW f, NEW D \in SUBSET Images, IsFiniteSet(D)
    PROVE  \E g : g = Loop(g, D, S, f)
<1> DEFINE W(s) == CHOOSE w : Wins(w, s, S, f)
           g == [s \in SUBSET D |-> IF s = {} THEN NoImage ELSE W(s)]
<1>1. ASSUME NEW s \in SUBSET D, s # {}
      PROVE  W(s) = Prefer(g[s \ {LastOf(s)}], LastOf(s), S, f)
  <2> DEFINE x == LastOf(s)
             p == Prefer(g[s \ {x}], x, S, f)
  <2>1. s \in SUBSET Images /\ IsFiniteSet(s)
    BY FS_Subset
  <2>2. x \in s /\ (\A i \in s : i <= x) /\ x \in Images
    BY <1>1, <2>1, LastIsThere
  <2>3. \A t \in SUBSET D : t # {} => Wins(W(t), t, S, f)
    BY SomeWins
  <2> HIDE DEF x, W
  <2>4. Wins(p, s, S, f)
    <3>1. CASE s \ {x} = {}
      <4>1. s = {x} /\ p = Prefer(NoImage, x, S, f)
        BY <2>2, <3>1
      <4> QED
        BY <2>2, <4>1, AloneWins
    <3>2. CASE s \ {x} # {}
      <4>1. Wins(g[s \ {x}], s \ {x}, S, f)
        BY <2>3, <3>2
      <4> QED
        BY <2>1, <2>2, <4>1, RoundWins
    <3> QED
      BY <3>1, <3>2
  <2>5. Wins(W(s), s, S, f)
    BY <1>1, <2>3
  <2> HIDE DEF p
  <2>6. W(s) \in Nat /\ p \in Nat
    BY <2>1, <2>4, <2>5, ImagesAssumption DEF Wins, MostCommon
  <2>7. ~(W(s) < p) /\ ~(p < W(s))
    BY <2>1, <2>4, <2>5, OneWins
  <2>8. W(s) = p
    BY <2>6, <2>7
  <2> QED
    BY <2>8 DEF p, x
<1> HIDE DEF W
<1>2. g = Loop(g, D, S, f)
  BY <1>1 DEF Loop
<1> QED
  BY <1>2

\* fleetImage names the winner among the deployed images, and no image when there is
\* none.
LEMMA FleetImageWins ==
    ASSUME NEW S, IsFiniteSet(S), NEW f, \A u \in S : f[u] \in MaybeImage
    PROVE  LET D == DeployedImages(S, f)
           IN  IF D = {} THEN FleetImage(S, f) = NoImage ELSE Wins(FleetImage(S, f), D, S, f)
<1> DEFINE D == DeployedImages(S, f)
           iter == CHOOSE g : g = Loop(g, D, S, f)
<1>1. D \in SUBSET Images
  BY DEF DeployedImages, MaybeImage
<1>2. IsFiniteSet(D)
  <2> DEFINE h == [u \in S |-> f[u]]
             all == {f[u] : u \in S}
  <2>1. h \in Surjection(S, all)
    BY DEF Surjection
  <2>2. IsFiniteSet(all)
    BY <2>1, FS_Surjection
  <2> QED
    BY <2>2, FS_Subset DEF DeployedImages
<1>3. FleetImage(S, f) = iter[D]
  BY DEF FleetImage, MapThenFoldSet, Loop, LastOf
<1> HIDE DEF D
<1>4. iter = Loop(iter, D, S, f)
  <2>1. \E g : g = Loop(g, D, S, f)
    BY <1>1, <1>2, LoopEnds
  <2> QED
    BY <2>1, Zenon
<1> HIDE DEF iter
<1>5. CASE D = {}
  <2>1. \A h : h = Loop(h, D, S, f) => h[D] = NoImage
    BY <1>5 DEF Loop
  <2> QED
    BY <1>3, <1>4, <1>5, <2>1 DEF D
<1>6. CASE D # {}
  BY <1>1, <1>2, <1>3, <1>4, <1>6, LoopFindsWinner DEF D
<1> QED
  BY <1>5, <1>6 DEF D

-----------------------------------------------------------------------------
(* The theorems                                                            *)

\* Instances report images of the set.
TypeOK == resolved \in [Instances -> MaybeImage] /\ target \in Images

\* Reports keep to it.
LEMMA TypeCorrect == Spec => []TypeOK
<1>1. Init => TypeOK
  BY DEF Init, TypeOK, MaybeImage
<1>2. TypeOK /\ [Next]_<<resolved, target>> => TypeOK'
  BY DEF TypeOK, Next, Report, MaybeImage
<1> QED
  BY <1>1, <1>2, PTL DEF Spec

\* Whatever a fleet of any size reports, of any images: fleetImage finds the image
\* most instances run, and of equally common ones none that is older than another.
LEMMA NewestOfMostCommon == TypeOK => FleetImageIsNewestOfMostCommon
<1> SUFFICES ASSUME TypeOK PROVE FleetImageIsNewestOfMostCommon
  OBVIOUS
<1> DEFINE best == FleetImage(Instances, resolved)
           D == DeployedImages(Instances, resolved)
<1>1. IF D = {} THEN best = NoImage ELSE Wins(best, D, Instances, resolved)
  BY InstancesAssumption, FleetImageWins DEF TypeOK
<1>2. ASSUME NEW i \in Images PROVE Count(i) \in Nat
  BY InstancesAssumption, CountsAreNumbers DEF Count
<1>3. D \subseteq Images /\ NoImage \notin D
  BY DEF DeployedImages, TypeOK, MaybeImage
<1> HIDE DEF best, D
<1>4. CASE D = {}
  BY <1>1, <1>4 DEF FleetImageIsNewestOfMostCommon, best, D
<1>5. CASE D # {}
  <2>1. best \in D /\ \A i \in D : Count(i) <= Count(best)
    BY <1>1, <1>5 DEF Wins, MostCommon, Count
  <2>2. \A i \in D : Count(i) = Count(best) => i \in MostCommon(D, Instances, resolved)
    BY <1>2, <1>3, <2>1 DEF MostCommon, Count
  <2>3. \A i \in D : Count(i) = Count(best) => ~OlderThan(best, i)
    BY <1>1, <1>5, <2>2 DEF Wins
  <2> QED
    BY <1>3, <1>5, <2>1, <2>3 DEF FleetImageIsNewestOfMostCommon, best, D
<1> QED
  BY <1>4, <1>5

\* The same, in every state.
THEOREM FleetImageIsRight == Spec => []FleetImageIsNewestOfMostCommon
BY TypeCorrect, NewestOfMostCommon, PTL

\* downgradeFrom only refuses a target for at least as many instances as run any one
\* image that is not newer: those that run the fleet's image, which is newer, are
\* among them.
THEOREM RefusesForTheMany == Spec => []RefusedForTheMany
<1>1. TypeOK => RefusedForTheMany
  <2> SUFFICES ASSUME TypeOK, DowngradeFrom(target, FALSE, Instances, resolved),
                      NEW i \in Images, ~OlderThan(target, i)
               PROVE  Count(i) <= Cardinality({u \in Instances : OlderThan(target, resolved[u])})
    BY DEF RefusedForTheMany
  <2> DEFINE best == FleetImage(Instances, resolved)
             onBest == {u \in Instances : resolved[u] = best}
             newer == {u \in Instances : OlderThan(target, resolved[u])}
  <2>1. OlderThan(target, best)
    BY DEF DowngradeFrom
  <2>2. IsFiniteSet(onBest) /\ IsFiniteSet(newer) /\ onBest \subseteq newer
    BY <2>1, InstancesAssumption, FS_Subset
  <2>3. Count(best) <= Cardinality(newer) /\ Count(best) \in Nat /\ Cardinality(newer) \in Nat
    BY <2>2, FS_Subset, FS_CardinalityType DEF Count, CountOn
  <2>4. Count(i) <= Count(best)
    <3>1. CASE i \in DeployedImages(Instances, resolved)
      BY <3>1, NewestOfMostCommon DEF FleetImageIsNewestOfMostCommon
    <3>2. CASE i \notin DeployedImages(Instances, resolved)
      <4>1. {u \in Instances : resolved[u] = i} = {}
        BY <3>2, ImagesAssumption DEF DeployedImages, NoImage
      <4> QED
        BY <4>1, <2>3, FS_EmptySet DEF Count, CountOn
    <3> QED
      BY <3>1, <3>2
  <2>5. Count(i) \in Nat
    BY InstancesAssumption, CountsAreNumbers DEF Count
  <2> QED
    BY <2>3, <2>4, <2>5
<1> QED
  BY <1>1, TypeCorrect, PTL
=============================================================================
