----------------------------- MODULE LatencyProofs -----------------------------
(***************************************************************************)
(* The clock and the histogram for a machine word of any width, any        *)
(* frequency, any number of buckets and of samples: a calibration converts *)
(* back what it measured, every sample is in the bucket of its octave, and *)
(* the summary agrees with itself.                                         *)
(***************************************************************************)
EXTENDS LatencyHistogram, FiniteSetTheorems, WellFoundedInduction, TLAPS

------------------------------------------------------------------------------
(***************************************************************************)
(* Induction, over the numbers of a set.                                   *)
(***************************************************************************)

\* A set of numbers that holds zero, and with each number the next, holds all.
LEMMA AllNumbers ==
  ASSUME NEW T \in SUBSET Nat, 0 \in T, \A n \in T : n + 1 \in T
  PROVE  \A n \in Nat : n \in T
<1> SUFFICES ASSUME NEW n \in Nat, n \notin T PROVE FALSE
  OBVIOUS
<1>1. IsWellFoundedOn(OpToRel(<, Nat), Nat)
  BY NatLessThanWellFounded
<1>2. PICK m \in Nat \ T : \A y \in Nat \ T : ~ (<<y, m>> \in OpToRel(<, Nat))
  <2> DEFINE U == Nat \ T
  <2>1. U \in SUBSET Nat /\ U # {}
    OBVIOUS
  <2> HIDE DEF U
  <2>2. \E m \in U : \A y \in U : ~ (<<y, m>> \in OpToRel(<, Nat))
    BY <1>1, <2>1, WFMin
  <2> QED
    BY <2>2 DEF U
<1>3. m # 0 /\ m - 1 \in Nat /\ m - 1 < m
  OBVIOUS
<1>4. <<m - 1, m>> \in OpToRel(<, Nat)
  BY <1>3 DEF OpToRel
<1>5. m - 1 \in T
  BY <1>2, <1>3, <1>4
<1> QED
  BY <1>3, <1>5

------------------------------------------------------------------------------
(***************************************************************************)
(* Powers of two.                                                          *)
(***************************************************************************)

\* The powers up to the one with number n, as a function that stops there.
PowersUpTo(n, g) == g = [i \in 0 .. n |-> IF i = 0 THEN 1 ELSE 2 * g[i - 1]]

\* There are such powers, up to any number.
LEMMA PowersExist == \A n \in Nat : \E g : PowersUpTo(n, g)
<1> DEFINE T == {n \in Nat : \E g : PowersUpTo(n, g)}
<1>1. 0 \in T
  <2> DEFINE g == [i \in 0 .. 0 |-> 1]
  <2>1. PowersUpTo(0, g)
    BY DEF PowersUpTo
  <2> QED
    BY <2>1
<1>2. ASSUME NEW n \in T PROVE n + 1 \in T
  <2>1. PICK g : PowersUpTo(n, g)
    OBVIOUS
  <2> DEFINE h == [i \in 0 .. n + 1 |-> IF i = 0 THEN 1 ELSE 2 * g[i - 1]]
  <2>2. \A i \in 0 .. n : h[i] = g[i]
    BY <2>1 DEF PowersUpTo
  <2>3. \A i \in 0 .. n + 1 : h[i] = IF i = 0 THEN 1 ELSE 2 * h[i - 1]
    <3>1. \A i \in 0 .. n + 1 : i # 0 => i - 1 \in 0 .. n
      OBVIOUS
    <3> QED
      BY <2>2, <3>1
  <2>4. PowersUpTo(n + 1, h)
    BY <2>3 DEF PowersUpTo
  <2> QED
    BY <2>4
<1> HIDE DEF T
<1>3. \A n \in Nat : n \in T
  BY <1>1, <1>2, AllNumbers DEF T
<1> QED
  BY <1>3 DEF T

\* And they are the same, however far they go.
LEMMA PowersAgree ==
  ASSUME NEW n \in Nat, NEW g, PowersUpTo(n, g),
         NEW m \in Nat, NEW h, PowersUpTo(m, h)
  PROVE  \A i \in 0 .. n : i <= m => g[i] = h[i]
<1> DEFINE T == {i \in Nat : i <= n /\ i <= m => g[i] = h[i]}
<1>1. 0 \in T
  BY DEF PowersUpTo
<1>2. ASSUME NEW i \in T PROVE i + 1 \in T
  <2>1. i + 1 \in Nat /\ (i + 1) - 1 = i /\ i + 1 # 0
    OBVIOUS
  <2>2. i + 1 <= n /\ i + 1 <= m => g[i + 1] = 2 * g[i] /\ h[i + 1] = 2 * h[i]
    BY <2>1 DEF PowersUpTo
  <2> QED
    BY <2>1, <2>2
<1> HIDE DEF T
<1>3. \A i \in Nat : i \in T
  BY <1>1, <1>2, AllNumbers DEF T
<1> QED
  BY <1>3 DEF T

\* The recursion defines a function.
LEMMA PowerOfTwoDef ==
  PowerOfTwo = [i \in Nat |-> IF i = 0 THEN 1 ELSE 2 * PowerOfTwo[i - 1]]
<1> DEFINE upTo(n) == CHOOSE g : PowersUpTo(n, g)
           f == [n \in Nat |-> upTo(n)[n]]
<1>1. \A n \in Nat : PowersUpTo(n, upTo(n))
  BY PowersExist
<1> HIDE DEF upTo
<1>2. ASSUME NEW n \in Nat PROVE f[n] = IF n = 0 THEN 1 ELSE 2 * f[n - 1]
  <2>1. f[n] = IF n = 0 THEN 1 ELSE 2 * upTo(n)[n - 1]
    BY <1>1 DEF PowersUpTo
  <2>2. n # 0 => upTo(n)[n - 1] = upTo(n - 1)[n - 1]
    <3> SUFFICES ASSUME n # 0 PROVE upTo(n)[n - 1] = upTo(n - 1)[n - 1]
      OBVIOUS
    <3>1. n - 1 \in Nat /\ n - 1 \in 0 .. n
      OBVIOUS
    <3> QED
      BY <1>1, <3>1, PowersAgree
  <2> QED
    BY <2>1, <2>2
<1>3. f = [i \in Nat |-> IF i = 0 THEN 1 ELSE 2 * f[i - 1]]
  BY <1>2
<1> HIDE DEF f
<1> QED
  BY <1>3 DEF PowerOfTwo

\* 1u64 << i doubles with every i.
LEMMA Doubles ==
  /\ PowerOfTwo[0] = 1
  /\ \A i \in Nat : PowerOfTwo[i + 1] = 2 * PowerOfTwo[i]
BY PowerOfTwoDef, \A i \in Nat : i + 1 \in Nat /\ i + 1 # 0 /\ (i + 1) - 1 = i

\* It is a positive number, ...
LEMMA PowerType == \A i \in Nat : PowerOfTwo[i] \in Nat /\ PowerOfTwo[i] > 0
<1> DEFINE T == {i \in Nat : PowerOfTwo[i] \in Nat /\ PowerOfTwo[i] > 0}
<1>1. 0 \in T
  BY Doubles
<1>2. ASSUME NEW i \in T PROVE i + 1 \in T
  BY Doubles
<1> HIDE DEF T
<1>3. \A i \in Nat : i \in T
  BY <1>1, <1>2, AllNumbers DEF T
<1> QED
  BY <1>3 DEF T

\* ... and grows with i.
LEMMA PowerGrows ==
  ASSUME NEW i \in Nat, NEW j \in Nat, i <= j
  PROVE  PowerOfTwo[i] <= PowerOfTwo[j]
<1> DEFINE T == {k \in Nat : PowerOfTwo[i] <= PowerOfTwo[i + k]}
<1>1. 0 \in T
  BY PowerType
<1>2. ASSUME NEW k \in T PROVE k + 1 \in T
  <2>1. PowerOfTwo[i + (k + 1)] = 2 * PowerOfTwo[i + k]
    BY Doubles, i + (k + 1) = (i + k) + 1
  <2> QED
    BY <2>1, PowerType
<1> HIDE DEF T
<1>3. j - i \in Nat /\ i + (j - i) = j
  OBVIOUS
<1>4. j - i \in T
  BY <1>1, <1>2, <1>3, AllNumbers DEF T
<1> QED
  BY <1>3, <1>4 DEF T

------------------------------------------------------------------------------
(***************************************************************************)
(* Sums.  The fold takes the elements of a set in an order that depends on *)
(* the set alone, so that two functions are summed side by side.           *)
(***************************************************************************)
SumOver(f, S) == MapThenSumSet(LAMBDA t : f[t], S)

\* The sums over the subsets of S with at most n elements.
Small(S, n) == {s \in SUBSET S : Cardinality(s) <= n}

Pick(s) == CHOOSE x \in s : TRUE

SumsOf(f, D, g) ==
  g = [s \in D |-> IF s = {} THEN 0 ELSE f[Pick(s)] + g[s \ {Pick(s)}]]

\* A set without one of its elements is smaller.
LEMMA Smaller ==
  ASSUME NEW S, IsFiniteSet(S), NEW s \in SUBSET S, s # {}
  PROVE  /\ Pick(s) \in s
         /\ s \ {Pick(s)} \in SUBSET S
         /\ Cardinality(s) \in Nat
         /\ Cardinality(s \ {Pick(s)}) \in Nat
         /\ Cardinality(s) = Cardinality(s \ {Pick(s)}) + 1
<1>1. Pick(s) \in s
  BY DEF Pick
<1>2. IsFiniteSet(s)
  BY FS_Subset
<1>3. Cardinality(s \ {Pick(s)}) = Cardinality(s) - 1
  BY <1>1, <1>2, FS_RemoveElement
<1>4. Cardinality(s) \in Nat /\ Cardinality(s \ {Pick(s)}) \in Nat
  BY <1>2, FS_CardinalityType, FS_Difference
<1> QED
  BY <1>1, <1>3, <1>4

\* Only the empty set has no elements.
LEMMA OnlyEmptyIsSmallest ==
  ASSUME NEW S, IsFiniteSet(S), NEW s \in Small(S, 0)
  PROVE  s = {}
<1> SUFFICES ASSUME s # {} PROVE FALSE
  OBVIOUS
<1>1. s \in SUBSET S /\ Cardinality(s) <= 0
  BY DEF Small
<1>2. /\ Cardinality(s) \in Nat
      /\ Cardinality(s \ {Pick(s)}) \in Nat
      /\ Cardinality(s) = Cardinality(s \ {Pick(s)}) + 1
  BY <1>1, Smaller
<1> QED
  BY <1>1, <1>2

\* What holds of a set if it holds of the set without one element, and holds of
\* the empty set, holds of all subsets of a finite set.
LEMMA AllSubsets ==
  ASSUME NEW S, IsFiniteSet(S), NEW P \in SUBSET SUBSET S, {} \in P,
         \A s \in SUBSET S : s # {} /\ s \ {Pick(s)} \in P => s \in P
  PROVE  \A s \in SUBSET S : s \in P
<1> DEFINE T == {n \in Nat : Small(S, n) \subseteq P}
<1>1. 0 \in T
  <2> SUFFICES ASSUME NEW s \in Small(S, 0) PROVE s \in P
    OBVIOUS
  <2> QED
    BY OnlyEmptyIsSmallest
<1>2. ASSUME NEW n \in T PROVE n + 1 \in T
  <2> SUFFICES ASSUME NEW s \in Small(S, n + 1), s # {} PROVE s \in P
    OBVIOUS
  <2>1. s \in SUBSET S /\ Cardinality(s) <= n + 1
    BY DEF Small
  <2>2. s \ {Pick(s)} \in Small(S, n)
    BY <2>1, Smaller DEF Small
  <2> QED
    BY <2>1, <2>2
<1> HIDE DEF T
<1>3. \A n \in Nat : n \in T
  BY <1>1, <1>2, AllNumbers DEF T
<1> SUFFICES ASSUME NEW s \in SUBSET S PROVE s \in P
  OBVIOUS
<1>4. Cardinality(s) \in Nat
  BY FS_Subset, FS_CardinalityType
<1>5. s \in Small(S, Cardinality(s))
  BY <1>4 DEF Small
<1> QED
  BY <1>3, <1>4, <1>5 DEF T

\* The recursion of the fold defines a function.
LEMMA SumsExist ==
  ASSUME NEW S, IsFiniteSet(S), NEW f
  PROVE  \E g : SumsOf(f, SUBSET S, g)
<1> DEFINE T == {n \in Nat : \E g : SumsOf(f, Small(S, n), g)}
<1>0. \A s \in Small(S, 0) : s = {}
  BY OnlyEmptyIsSmallest
<1>1. 0 \in T
  <2> DEFINE g == [s \in Small(S, 0) |-> 0]
  <2>1. SumsOf(f, Small(S, 0), g)
    BY <1>0 DEF SumsOf
  <2> QED
    BY <2>1
<1>2. ASSUME NEW n \in T PROVE n + 1 \in T
  <2>1. PICK g : SumsOf(f, Small(S, n), g)
    OBVIOUS
  <2> DEFINE h == [s \in Small(S, n + 1) |->
                     IF s = {} THEN 0 ELSE f[Pick(s)] + g[s \ {Pick(s)}]]
  <2>2. \A s \in Small(S, n) : s \in Small(S, n + 1) /\ h[s] = g[s]
    <3> SUFFICES ASSUME NEW s \in Small(S, n)
                 PROVE  s \in Small(S, n + 1) /\ h[s] = g[s]
      OBVIOUS
    <3>1. Cardinality(s) \in Nat
      BY FS_Subset, FS_CardinalityType DEF Small
    <3>2. s \in Small(S, n + 1)
      BY <3>1 DEF Small
    <3> QED
      BY <2>1, <3>2 DEF SumsOf
  <2>3. \A s \in Small(S, n + 1) : s # {} => s \ {Pick(s)} \in Small(S, n)
    <3> SUFFICES ASSUME NEW s \in Small(S, n + 1), s # {}
                 PROVE  s \ {Pick(s)} \in Small(S, n)
      OBVIOUS
    <3>1. s \in SUBSET S /\ Cardinality(s) <= n + 1
      BY DEF Small
    <3> QED
      BY <3>1, Smaller DEF Small
  <2>4. \A s \in Small(S, n + 1) :
          h[s] = IF s = {} THEN 0 ELSE f[Pick(s)] + h[s \ {Pick(s)}]
    BY <2>2, <2>3
  <2>5. SumsOf(f, Small(S, n + 1), h)
    BY <2>4 DEF SumsOf
  <2> QED
    BY <2>5
<1> HIDE DEF T
<1>3. \A n \in Nat : n \in T
  BY <1>1, <1>2, AllNumbers DEF T
<1>4. Cardinality(S) \in Nat
  BY FS_CardinalityType
<1>5. Small(S, Cardinality(S)) = SUBSET S
  BY FS_Subset DEF Small
<1> QED
  BY <1>3, <1>4, <1>5 DEF T

\* The fold is that function.
LEMMA SumOverIs ==
  ASSUME NEW S, IsFiniteSet(S), NEW f
  PROVE  \E g : SumsOf(f, SUBSET S, g) /\ SumOver(f, S) = g[S]
<1> DEFINE g == CHOOSE g : SumsOf(f, SUBSET S, g)
<1>1. SumsOf(f, SUBSET S, g)
  BY SumsExist
<1>2. SumOver(f, S) = g[S]
  BY Zenon DEF SumOver, MapThenSumSet, MapThenFoldSet, SumsOf, Pick
<1> QED
  BY <1>1, <1>2

\* The sum of nothing but zeroes is zero.
LEMMA SumOfZeroes ==
  ASSUME NEW L, IsFiniteSet(L), NEW f, \A t \in L : f[t] = 0, NEW S \in SUBSET L
  PROVE  SumOver(f, S) = 0
<1>1. IsFiniteSet(S)
  BY FS_Subset
<1>2. PICK g : SumsOf(f, SUBSET S, g) /\ SumOver(f, S) = g[S]
  BY <1>1, SumOverIs
<1> DEFINE P == {s \in SUBSET S : g[s] = 0}
<1>3. {} \in P
  BY <1>2 DEF SumsOf
<1>4. ASSUME NEW s \in SUBSET S, s # {}, s \ {Pick(s)} \in P PROVE s \in P
  <2>1. g[s] = f[Pick(s)] + g[s \ {Pick(s)}]
    BY <1>2, <1>4 DEF SumsOf
  <2>2. Pick(s) \in L
    BY <1>1, <1>4, Smaller
  <2> QED
    BY <1>4, <2>1, <2>2
<1> HIDE DEF P
<1>5. P \in SUBSET SUBSET S
  BY DEF P
<1>6. S \in P
  BY <1>1, <1>3, <1>4, <1>5, AllSubsets
<1> QED
  BY <1>2, <1>6 DEF P

\* One more of t adds one to the sums over the sets that hold t.
LEMMA SumOfOneMore ==
  ASSUME NEW L, IsFiniteSet(L), NEW f \in [L -> Nat], NEW t \in L,
         NEW S \in SUBSET L,
         NEW more, \A x \in L : more[x] = f[x] + IF x = t THEN 1 ELSE 0
  PROVE  /\ SumOver(f, S) \in Nat
         /\ SumOver(more, S) = SumOver(f, S) + IF t \in S THEN 1 ELSE 0
<1>1. IsFiniteSet(S)
  BY FS_Subset
<1>2. PICK g : SumsOf(f, SUBSET S, g) /\ SumOver(f, S) = g[S]
  BY <1>1, SumOverIs
<1>3. PICK h : SumsOf(more, SUBSET S, h) /\ SumOver(more, S) = h[S]
  BY <1>1, SumOverIs
<1> DEFINE P == {s \in SUBSET S : /\ g[s] \in Nat
                                  /\ h[s] = g[s] + IF t \in s THEN 1 ELSE 0}
<1>4. {} \in P
  BY <1>2, <1>3 DEF SumsOf
<1>5. ASSUME NEW s \in SUBSET S, s # {}, s \ {Pick(s)} \in P PROVE s \in P
  <2> DEFINE x == Pick(s)
             others == s \ {x}
  <2>1. g[s] = f[x] + g[others] /\ h[s] = more[x] + h[others]
    BY <1>2, <1>3, <1>5 DEF SumsOf
  <2>2. x \in s /\ x \in L
    BY <1>1, <1>5, Smaller
  <2>3. f[x] \in Nat /\ more[x] = f[x] + IF x = t THEN 1 ELSE 0
    BY <2>2
  <2>4. t \in s <=> t \in others \/ t = x
    BY <2>2
  <2>5. g[others] \in Nat /\ h[others] = g[others] + IF t \in others THEN 1 ELSE 0
    BY <1>5
  <2>6. t \in others => t # x
    OBVIOUS
  <2> HIDE DEF x, others
  <2>7. g[s] \in Nat
    BY <2>1, <2>3, <2>5
  <2>8. h[s] = g[s] + IF t \in s THEN 1 ELSE 0
    BY <2>1, <2>3, <2>4, <2>5, <2>6
  <2> QED
    BY <2>7, <2>8
<1> HIDE DEF P
<1>6. P \in SUBSET SUBSET S
  BY DEF P
<1>7. S \in P
  BY <1>1, <1>4, <1>5, <1>6, AllSubsets
<1> QED
  BY <1>2, <1>3, <1>7 DEF P

------------------------------------------------------------------------------
(***************************************************************************)
(* Products and quotients.                                                 *)
(***************************************************************************)

\* The quotient is the number of times that the divisor goes into a number.
LEMMA Quotient ==
  ASSUME NEW a \in Nat, NEW d \in Nat, d > 0
  PROVE  /\ a \div d \in Nat
         /\ d * (a \div d) <= a
         /\ a < d * (a \div d) + d
OBVIOUS

\* A larger number has no smaller quotient.
LEMMA QuotientGrows ==
  ASSUME NEW a \in Nat, NEW b \in Nat, NEW d \in Nat, d > 0, a <= b
  PROVE  a \div d <= b \div d
OBVIOUS

\* A factor can be added on both sides, ...
LEMMA Multiply ==
  ASSUME NEW a \in Nat, NEW b \in Nat, NEW c \in Nat, a <= b
  PROVE  c * a <= c * b
OBVIOUS

\* ... and left out if it is not zero.
LEMMA Cancel ==
  ASSUME NEW a \in Nat, NEW b \in Nat, NEW c \in Nat, c > 0, c * a <= c * b
  PROVE  a <= b
OBVIOUS

\* Products of numbers are numbers.
LEMMA ProductType == ASSUME NEW a \in Nat, NEW b \in Nat PROVE a * b \in Nat
OBVIOUS

------------------------------------------------------------------------------
(***************************************************************************)
(* The clock.                                                              *)
(***************************************************************************)

\* The frequency is that of the last calibration.
ClockInv ==
  /\ TypeOK
  /\ elapsedNs # 0 => hz = Frequency(elapsedTicks, elapsedNs)

\* What TimerAssumption says of the constants.
LEMMA Word ==
  /\ MaxU64 \in Nat /\ MaxU64 > 0
  /\ Giga \in Nat /\ Giga > 0
  /\ FallbackHz \in U64
BY TimerAssumption DEF U64

\* A frequency fits in the word, the fallback included.
LEMMA FrequencyType ==
  ASSUME NEW t \in U64, NEW ns \in U64
  PROVE  /\ SaturatingMul(t, Giga) \in U64
         /\ Frequency(t, ns) \in U64
<1>1. t \in Nat /\ ns \in Nat /\ t * Giga \in Nat
  BY Word, ProductType DEF U64
<1>2. SaturatingMul(t, Giga) \in U64
  BY <1>1, Word DEF SaturatingMul, U64
<1>3. CASE ns = 0
  BY <1>2, <1>3, Word DEF Frequency
<1>4. CASE ns # 0
  <2> DEFINE p == SaturatingMul(t, Giga)
  <2>1. p \in Nat /\ p <= MaxU64
    BY <1>2, Word DEF U64
  <2> HIDE DEF p
  <2>2. p \div ns \in Nat /\ p \div ns <= p
    <3>1. p \div ns \in Nat /\ ns * (p \div ns) <= p
      BY <1>1, <1>4, <2>1, Quotient
    <3>2. 1 * (p \div ns) <= ns * (p \div ns)
      BY <1>1, <1>4, <3>1
    <3> QED
      BY <1>1, <2>1, <3>1, <3>2, ProductType
  <2> QED
    BY <1>2, <1>4, <2>1, <2>2, Word DEF Frequency, p, U64
<1> QED
  BY <1>3, <1>4

\* The clock is not calibrated.
LEMMA InitClock == Init => ClockInv
BY Word DEF Init, ClockInv, TypeOK, U64

\* One case for calibrate(), whatever the clocks read.
LEMMA StepClock == ClockInv /\ [Next]_vars => ClockInv'
<1> SUFFICES ASSUME ClockInv, [Next]_vars PROVE ClockInv'
  OBVIOUS
<1>1. CASE UNCHANGED vars
  BY <1>1 DEF ClockInv, TypeOK, Frequency, vars
<1>2. ASSUME NEW t \in U64, NEW ns \in U64, Calibrate(t, ns) PROVE ClockInv'
  BY <1>2, FrequencyType DEF Calibrate, ClockInv, TypeOK
<1> QED
  BY <1>1, <1>2 DEF Next

\* It holds throughout.
LEMMA ClockHolds == Spec => []ClockInv
<1> QED
  BY InitClock, StepClock, PTL DEF Spec

\* A result that fits in the word is not cut.
LEMMA Uncut ==
  ASSUME ClockInv, NEW t \in Nat, hz # 0, FitsInNs(t)
  PROVE  TicksToNs(t) = (t * Giga) \div hz
<1>1. hz \in Nat /\ hz > 0 /\ t * Giga \in Nat
  BY Word, ProductType DEF ClockInv, TypeOK, U64
<1>2. (t * Giga) \div hz \in 0 .. MaxU64
  BY <1>1, Word, Quotient DEF FitsInNs
<1> QED
  BY <1>2, Word DEF TicksToNs

\* A calibration that does not saturate converts what it measured back.
LEMMA Agrees == ASSUME ClockInv PROVE CalibrationAgrees
<1> SUFFICES ASSUME Measured, elapsedTicks * Giga <= MaxU64, FitsInNs(elapsedTicks)
             PROVE  /\ TicksToNs(elapsedTicks) >= elapsedNs
                    /\ (TicksToNs(elapsedTicks) - elapsedNs) * hz <= elapsedNs
  BY DEF CalibrationAgrees
<1> DEFINE p == elapsedTicks * Giga
           ns == elapsedNs
           q == p \div hz
<1>1. ns \in Nat /\ ns > 0 /\ hz \in Nat /\ hz > 0 /\ p \in Nat
  BY Word, ProductType DEF ClockInv, TypeOK, Measured, U64
<1>2. hz = p \div ns
  BY <1>1, Word DEF ClockInv, Measured, Frequency, SaturatingMul
<1>3. TicksToNs(elapsedTicks) = q
  BY Uncut DEF Measured, ClockInv, TypeOK, U64
<1> HIDE DEF p, ns
<1>4. ns * hz <= p /\ p < ns * hz + ns
  BY <1>1, <1>2, Quotient
<1>5. q \in Nat /\ hz * q <= p /\ p < hz * q + hz
  BY <1>1, Quotient
<1> HIDE DEF q
<1>6. ns <= q
  <2>1. hz * ns < hz * (q + 1)
    BY <1>1, <1>4, <1>5
  <2> QED
    BY <1>1, <1>5, <2>1
<1>7. (q - ns) * hz <= ns
  BY <1>1, <1>4, <1>5
<1> QED
  BY <1>3, <1>6, <1>7 DEF ns

\* One that saturates reports no latency as shorter than it was.
LEMMA Overstates == ASSUME ClockInv PROVE SaturationOverstates
<1> SUFFICES ASSUME Measured, elapsedTicks * Giga > MaxU64,
                    NEW t \in U64, FitsInNs(t)
             PROVE  TicksToNs(t) * elapsedTicks >= t * elapsedNs - elapsedTicks
  BY DEF SaturationOverstates
<1> DEFINE ns == elapsedNs
           e == elapsedTicks
           p == t * Giga
           q == p \div hz
<1>1. /\ t \in Nat /\ e \in Nat /\ p \in Nat
      /\ ns \in Nat /\ ns > 0 /\ hz \in Nat /\ hz > 0
  BY Word, ProductType DEF ClockInv, TypeOK, Measured, U64
<1>2. hz = MaxU64 \div ns
  BY DEF ClockInv, Measured, Frequency, SaturatingMul
<1>3. TicksToNs(t) = q
  BY <1>1, Uncut DEF Measured
<1>4. ns * hz <= e * Giga
  BY <1>1, <1>2, Word, Quotient
<1>5. q \in Nat /\ p <= hz * (q + 1)
  BY <1>1, Quotient
<1>6. Giga * (t * ns) <= Giga * (e * (q + 1))
  <2>1. ns * p <= ns * (hz * (q + 1))
    BY <1>1, <1>5, ProductType, Multiply
  <2>2. ns * (hz * (q + 1)) = (q + 1) * (ns * hz)
    BY <1>1, <1>5
  <2>3. (q + 1) * (ns * hz) <= (q + 1) * (e * Giga)
    BY <1>1, <1>4, <1>5, Word, ProductType, Multiply
  <2>4. (q + 1) * (e * Giga) = Giga * (e * (q + 1))
    BY <1>1, <1>5, Word
  <2>5. ns * p = Giga * (t * ns)
    BY <1>1, Word
  <2> HIDE DEF p, q, ns, e
  <2>6. /\ ns * p \in Nat /\ (q + 1) * (ns * hz) \in Nat
        /\ Giga * (e * (q + 1)) \in Nat
    BY <1>1, <1>5, Word, ProductType
  <2> QED
    BY <2>1, <2>2, <2>3, <2>4, <2>5, <2>6
<1> HIDE DEF p, q, ns, e
<1>7. t * ns <= e * (q + 1)
  BY <1>1, <1>5, <1>6, Word, ProductType, Cancel
<1>8. e * (q + 1) = q * e + e
  BY <1>1, <1>5
<1>9. t * ns \in Nat /\ q * e \in Nat
  BY <1>1, <1>5, ProductType
<1> QED
  BY <1>1, <1>3, <1>7, <1>8, <1>9 DEF ns, e

------------------------------------------------------------------------------
(***************************************************************************)
(* The histogram.                                                          *)
(***************************************************************************)
\* The latencies that bucket b counts, as BucketsAreOctaves has them.
Octave(b) ==
  {t \in Latencies : /\ b > 0 => t >= PowerOfTwo[b]
                     /\ b < Buckets - 1 => t < PowerOfTwo[b + 1]}

HistogramTypes ==
  /\ total \in 0 .. MaxSamples
  /\ max \in Latencies
  /\ buckets \in [Indexes -> Nat]
  /\ samples \in [Latencies -> Nat]

\* The inductive invariant.  A count never exceeds the number of samples, and a
\* bucket that counts one has seen a sample that max is not below.
HistogramInv ==
  /\ ClockInv
  /\ HistogramTypes
  /\ \A b \in Indexes :
       /\ buckets[b] <= total
       /\ buckets[b] = SumOver(samples, Octave(b))
       /\ buckets[b] > 0 /\ b > 0 => PowerOfTwo[b] <= max

\* What HistogramAssumption says of the constants.
LEMMA Shape ==
  /\ W \in Nat /\ Buckets \in Nat /\ Buckets > 0 /\ MaxSamples \in Nat
  /\ MaxU64 = PowerOfTwo[W] - 1
BY HistogramAssumption

\* The octave of a latency: its highest bit is the one with number k.
LEMMA HighestBit ==
  ASSUME NEW t \in Latencies, t > 0
  PROVE  \E k \in 0 .. W - 1 : PowerOfTwo[k] <= t /\ t < PowerOfTwo[k + 1]
<1> SUFFICES ASSUME \A k \in 0 .. W - 1 : PowerOfTwo[k] <= t => PowerOfTwo[k + 1] <= t
             PROVE  FALSE
  <2>1. \A k \in 0 .. W - 1 : PowerOfTwo[k + 1] \in Nat
    BY PowerType, Shape
  <2> QED
    BY <2>1, Word DEF Latencies, U64
<1>1. t \in Nat /\ t <= MaxU64
  BY Word DEF Latencies, U64
<1> DEFINE T == {k \in Nat : k <= W => PowerOfTwo[k] <= t}
<1>2. 0 \in T
  BY <1>1, Doubles
<1>3. ASSUME NEW k \in T PROVE k + 1 \in T
  BY Shape
<1> HIDE DEF T
<1>4. W \in T
  BY <1>2, <1>3, Shape, AllNumbers DEF T
<1>5. PowerOfTwo[W] <= t
  BY <1>4, Shape DEF T
<1> QED
  BY <1>1, <1>5, Shape, PowerType

\* leading_zeros() counts the bits above the highest one.
LEMMA ZerosAboveHighest ==
  ASSUME NEW t \in Latencies, NEW k \in 0 .. W - 1,
         PowerOfTwo[k] <= t, t < PowerOfTwo[k + 1]
  PROVE  LeadingZeros(t) = W - 1 - k
<1>1. t \in Nat /\ k \in Nat /\ k + 1 \in Nat
  BY Word, Shape DEF Latencies, U64
<1>2. ASSUME NEW i \in 0 .. W - 1 PROVE t < PowerOfTwo[i] <=> i \in k + 1 .. W - 1
  <2>1. i \in Nat /\ PowerOfTwo[i] \in Nat /\ PowerOfTwo[k] \in Nat
        /\ PowerOfTwo[k + 1] \in Nat
    BY <1>1, Shape, PowerType
  <2>2. i <= k => PowerOfTwo[i] <= PowerOfTwo[k]
    BY <1>1, <2>1, PowerGrows
  <2>3. k + 1 <= i => PowerOfTwo[k + 1] <= PowerOfTwo[i]
    BY <1>1, <2>1, PowerGrows
  <2> QED
    BY <1>1, <2>1, <2>2, <2>3, Shape
<1>3. {i \in 0 .. W - 1 : t < PowerOfTwo[i]} = k + 1 .. W - 1
  BY <1>1, <1>2, Shape
<1>4. Cardinality(k + 1 .. W - 1) = W - 1 - k
  BY <1>1, Shape, FS_Interval
<1> QED
  BY <1>3, <1>4 DEF LeadingZeros

\* record() puts a latency in the one bucket whose octave holds it.
LEMMA BucketIsOctave ==
  ASSUME NEW t \in Latencies
  PROVE  /\ BucketOf(t) \in Indexes
         /\ \A b \in Indexes : t \in Octave(b) <=> b = BucketOf(t)
<1>1. t \in Nat /\ \A b \in Indexes : b \in Nat /\ b < Buckets
  BY Word, Shape DEF Latencies, U64, Indexes
<1>2. CASE t = 0
  <2>1. BucketOf(t) = 0 /\ 0 \in Indexes
    BY <1>2, Shape DEF BucketOf, Indexes
  <2>2. \A b \in Indexes : b > 0 => t < PowerOfTwo[b]
    BY <1>1, <1>2, PowerType
  <2>3. t < PowerOfTwo[0 + 1]
    BY <1>2, PowerType
  <2>4. ASSUME NEW b \in Indexes PROVE t \in Octave(b) <=> b = 0
    <3>1. b > 0 => ~ (t >= PowerOfTwo[b])
      BY <1>1, <2>2, PowerType
    <3> QED
      BY <1>1, <2>3, <3>1 DEF Octave
  <2> QED
    BY <2>1, <2>4
<1>3. CASE t > 0
  <2>1. PICK k \in 0 .. W - 1 : PowerOfTwo[k] <= t /\ t < PowerOfTwo[k + 1]
    BY <1>3, HighestBit
  <2>2. BucketOf(t) = IF k < Buckets - 1 THEN k ELSE Buckets - 1
    BY <1>3, <2>1, ZerosAboveHighest, Shape DEF BucketOf
  <2>3. ASSUME NEW b \in Indexes PROVE t \in Octave(b) <=> b = BucketOf(t)
    <3>1. /\ k \in Nat /\ b \in Nat /\ b < Buckets
          /\ PowerOfTwo[k] \in Nat /\ PowerOfTwo[k + 1] \in Nat
          /\ PowerOfTwo[b] \in Nat /\ PowerOfTwo[b + 1] \in Nat
      BY <1>1, PowerType, Shape
    <3>2. b <= k => PowerOfTwo[b] <= PowerOfTwo[k]
      BY <3>1, PowerGrows
    <3>3. k + 1 <= b => PowerOfTwo[k + 1] <= PowerOfTwo[b]
      BY <3>1, PowerGrows
    <3>4. b + 1 <= k => PowerOfTwo[b + 1] <= PowerOfTwo[k]
      BY <3>1, PowerGrows
    <3>5. k <= b => PowerOfTwo[k + 1] <= PowerOfTwo[b + 1]
      BY <3>1, PowerGrows
    <3>6. t >= PowerOfTwo[b] <=> b <= k
      BY <1>1, <2>1, <3>1, <3>2, <3>3
    <3>7. t < PowerOfTwo[b + 1] <=> k <= b
      BY <1>1, <2>1, <3>1, <3>4, <3>5
    <3>8. t \in Octave(b) <=> b <= k /\ (b < Buckets - 1 => k <= b)
      BY <3>1, <3>6, <3>7 DEF Octave
    <3> QED
      BY <2>2, <3>1, <3>8, Shape
  <2>4. BucketOf(t) \in Indexes
    BY <2>2, Shape DEF Indexes
  <2> QED
    BY <2>3, <2>4
<1> QED
  BY <1>1, <1>2, <1>3

\* There are finitely many latencies.
LEMMA LatenciesFinite ==
  /\ IsFiniteSet(Latencies)
  /\ \A b \in Indexes : Octave(b) \in SUBSET Latencies
BY FS_Interval, Word DEF Latencies, U64, Octave

\* An empty histogram.
LEMMA InitHistogram == HistogramInit => HistogramInv
<1> SUFFICES ASSUME HistogramInit PROVE HistogramInv
  OBVIOUS
<1>1. ClockInv
  BY InitClock DEF HistogramInit
<1>2. HistogramTypes
  BY Shape, Word DEF HistogramInit, HistogramTypes, Latencies, U64
<1>3. ASSUME NEW b \in Indexes
      PROVE  buckets[b] = 0 /\ SumOver(samples, Octave(b)) = 0
  BY SumOfZeroes, LatenciesFinite DEF HistogramInit
<1> QED
  BY <1>1, <1>2, <1>3 DEF HistogramInv, HistogramInit

\* A sample adds one to its bucket, and to the sum over no other octave.
LEMMA StepRecord ==
  ASSUME HistogramInv, NEW t \in Latencies, Record(t)
  PROVE  HistogramInv'
<1> DEFINE own == BucketOf(t)
<1>1. own \in Indexes /\ \A b \in Indexes : t \in Octave(b) <=> b = own
  BY BucketIsOctave
<1>2. HistogramTypes /\ ClockInv
  BY DEF HistogramInv
<1>3. /\ total < MaxSamples /\ total' = total + 1
      /\ buckets' = [buckets EXCEPT ![own] = @ + 1]
      /\ max' = IF t > max THEN t ELSE max
      /\ samples' = [samples EXCEPT ![t] = @ + 1]
      /\ UNCHANGED vars
  BY DEF Record
<1> HIDE DEF own
<1>4. ClockInv'
  BY <1>2, <1>3, StepClock
<1>5. /\ t \in Nat /\ max \in Nat /\ max' \in Latencies /\ max' \in Nat
      /\ max <= max' /\ t <= max'
  BY <1>2, <1>3, Word DEF HistogramTypes, Latencies, U64
<1>6. HistogramTypes'
  BY <1>1, <1>2, <1>3, <1>5, Shape DEF HistogramTypes
<1>7. ASSUME NEW b \in Indexes
      PROVE  /\ buckets'[b] <= total'
             /\ buckets'[b] = SumOver(samples', Octave(b))
             /\ buckets'[b] > 0 /\ b > 0 => PowerOfTwo[b] <= max'
  <2>1. /\ buckets[b] <= total
        /\ buckets[b] = SumOver(samples, Octave(b))
        /\ buckets[b] > 0 /\ b > 0 => PowerOfTwo[b] <= max
    BY DEF HistogramInv
  <2>2. buckets[b] \in Nat /\ total \in Nat
        /\ buckets'[b] = buckets[b] + IF b = own THEN 1 ELSE 0
    BY <1>1, <1>2, <1>3, Shape DEF HistogramTypes
  <2>3. SumOver(samples', Octave(b))
          = SumOver(samples, Octave(b)) + IF t \in Octave(b) THEN 1 ELSE 0
    <3>1. samples \in [Latencies -> Nat] /\ IsFiniteSet(Latencies)
          /\ Octave(b) \in SUBSET Latencies
      BY <1>2, LatenciesFinite DEF HistogramTypes
    <3>2. \A x \in Latencies : samples'[x] = samples[x] + IF x = t THEN 1 ELSE 0
      BY <1>3, <3>1
    <3> QED
      BY <3>1, <3>2, SumOfOneMore
  <2>4. b \in Nat /\ PowerOfTwo[b] \in Nat
    BY PowerType, Shape DEF Indexes
  <2>5. b = own /\ b > 0 => PowerOfTwo[b] <= t
    BY <1>1, <1>5, <2>4 DEF Octave
  <2>6. buckets'[b] > 0 /\ b > 0 => PowerOfTwo[b] <= max'
    BY <1>5, <2>1, <2>2, <2>4, <2>5
  <2> QED
    BY <1>1, <1>3, <2>1, <2>2, <2>3, <2>6
<1> QED
  BY <1>4, <1>6, <1>7 DEF HistogramInv, Octave

\* A calibration leaves the histogram alone.
LEMMA StepHistogram == HistogramInv /\ [HistogramNext]_allVars => HistogramInv'
<1> SUFFICES ASSUME HistogramInv, [HistogramNext]_allVars PROVE HistogramInv'
  OBVIOUS
<1>1. ASSUME [Next]_vars, UNCHANGED histogramVars PROVE HistogramInv'
  <2>1. ClockInv'
    BY <1>1, StepClock DEF HistogramInv
  <2> QED
    BY <1>1, <2>1 DEF HistogramInv, HistogramTypes, histogramVars, Octave
<1>2. CASE UNCHANGED allVars
  BY <1>1, <1>2 DEF allVars
<1>3. CASE Startup
  BY <1>1, <1>3 DEF Startup
<1>4. ASSUME NEW t \in Latencies, Record(t) PROVE HistogramInv'
  BY <1>4, StepRecord
<1> QED
  BY <1>2, <1>3, <1>4 DEF HistogramNext

\* It holds throughout.
LEMMA HistogramHolds == HistogramSpec => []HistogramInv
<1> QED
  BY InitHistogram, StepHistogram, PTL DEF HistogramSpec

\* A larger latency is never converted to fewer nanoseconds, up to where they no
\* longer fit in the word.
LEMMA ConversionGrows ==
  ASSUME ClockInv, NEW a \in Nat, NEW b \in Nat, a <= b, FitsInNs(b)
  PROVE  TicksToNs(a) <= TicksToNs(b)
<1>1. CASE hz = 0
  BY <1>1, QuotientGrows DEF TicksToNs
<1>2. CASE hz # 0
  <2>1. /\ hz \in Nat /\ hz > 0
        /\ a * Giga \in Nat /\ b * Giga \in Nat /\ a * Giga <= b * Giga
    BY <1>2, Word, ProductType, Multiply DEF ClockInv, TypeOK, U64
  <2>2. /\ (a * Giga) \div hz \in Nat /\ (b * Giga) \div hz \in Nat
        /\ (a * Giga) \div hz <= (b * Giga) \div hz
    BY <2>1, Quotient, QuotientGrows
  <2>3. FitsInNs(a)
    BY <1>2, <2>2, Word DEF FitsInNs
  <2> QED
    BY <1>2, <2>2, <2>3, Uncut
<1> QED
  BY <1>1, <1>2

------------------------------------------------------------------------------
(***************************************************************************)
(* The theorems.                                                           *)
(***************************************************************************)

\* calibrate() and ticks_to_ns() are each other's inverse, but for the rounding
\* of the frequency and never to less, for any reading of the two clocks and any
\* width of the word, unless the product in calibrate() saturates.
THEOREM CalibrationRight == Spec => []CalibrationAgrees
<1>1. ClockInv => CalibrationAgrees
  BY Agrees
<1> QED
  BY <1>1, ClockHolds, PTL

\* If the product saturates, the clock is believed to be slower than it is, and
\* ticks_to_ns() never understates a latency.
THEOREM SaturationIsSafe == Spec => []SaturationOverstates
<1>1. ClockInv => SaturationOverstates
  BY Overstates
<1> QED
  BY <1>1, ClockHolds, PTL

\* On a clock of a gigahertz or more ticks_to_ns() has no more nanoseconds than
\* ticks, so the cast at its end never cuts the quotient off.
THEOREM FastClockFits ==
  Spec => [](hz >= Giga => \A t \in U64 : FitsInNs(t) /\ TicksToNs(t) <= t)
<1>1. ClockInv => (hz >= Giga => \A t \in U64 : FitsInNs(t) /\ TicksToNs(t) <= t)
  <2> SUFFICES ASSUME ClockInv, hz >= Giga, NEW t \in U64
               PROVE  FitsInNs(t) /\ TicksToNs(t) <= t
    OBVIOUS
  <2> DEFINE q == (t * Giga) \div hz
  <2>1. /\ t \in Nat /\ t <= MaxU64 /\ hz \in Nat /\ hz > 0
        /\ t * Giga \in Nat
    BY Word, ProductType DEF ClockInv, TypeOK, U64
  <2>2. q \in Nat /\ hz * q <= t * Giga
    BY <2>1, Quotient
  <2> HIDE DEF q
  <2>3. q <= t
    <3>1. Giga * q <= hz * q
      BY <2>1, <2>2, Word
    <3>2. Giga * q <= Giga * t
      BY <2>1, <2>2, <3>1, Word, ProductType
    <3> QED
      BY <2>1, <2>2, <3>2, Word, Cancel
  <2>4. FitsInNs(t)
    BY <2>1, <2>2, <2>3, Word DEF FitsInNs, q
  <2> QED
    BY <2>1, <2>3, <2>4, Uncut DEF q
<1> QED
  BY <1>1, ClockHolds, PTL

\* Nothing but calibrate() changes the clock while the histogram is in use, so
\* both hold there.
THEOREM HistogramKeepsClock ==
  HistogramSpec => Spec /\ []CalibrationAgrees /\ []SaturationOverstates
<1>1. HistogramInit => Init
  BY DEF HistogramInit
<1>2. [HistogramNext]_allVars => [Next]_vars
  BY DEF HistogramNext, Startup, Record, allVars
<1> QED
  BY <1>1, <1>2, CalibrationRight, SaturationIsSafe, PTL DEF HistogramSpec, Spec

\* record() indexes its array within bounds, for every latency and any number
\* of buckets, one included, or more than a word has bits.
THEOREM HistogramTypeCorrect == HistogramSpec => []HistogramTypeOK
<1>1. HistogramInv => HistogramTypeOK
  <2> SUFFICES ASSUME HistogramInv PROVE HistogramTypeOK
    OBVIOUS
  <2>1. TypeOK /\ HistogramTypes
    BY DEF HistogramInv, ClockInv
  <2>2. BucketOf(max) \in Indexes
    BY <2>1, BucketIsOctave DEF HistogramTypes
  <2>3. \A b \in Indexes : buckets[b] \in 0 .. MaxSamples
    BY <2>1, Shape DEF HistogramInv, HistogramTypes
  <2> QED
    BY <2>1, <2>2, <2>3 DEF HistogramTypes, HistogramTypeOK
<1> QED
  BY <1>1, HistogramHolds, PTL

\* "log2-bucketed": each bucket of record() counts the samples of its octave, the
\* last all from its octave up, and none is missed or counted twice.
THEOREM SamplesInOctaves == HistogramSpec => []BucketsAreOctaves
<1>1. HistogramInv => BucketsAreOctaves
  <2> SUFFICES ASSUME HistogramInv, NEW b \in Indexes
               PROVE  buckets[b] = Recorded(Octave(b))
    BY DEF BucketsAreOctaves, Octave
  <2>1. Recorded(Octave(b)) = SumOver(samples, Octave(b))
    BY DEF Recorded, SumOver
  <2> QED
    BY <2>1 DEF HistogramInv
<1> QED
  BY <1>1, HistogramHolds, PTL

\* The maximum in the first line of print_summary is not below the start of any
\* interval that the table gives a count for, in nanoseconds.
THEOREM SummaryConsistent == HistogramSpec => []PrintedMaxIsAboveIntervals
<1>1. HistogramInv => PrintedMaxIsAboveIntervals
  <2> SUFFICES ASSUME HistogramInv, NEW b \in Indexes, buckets[b] > 0, FitsInNs(max)
               PROVE  TicksToNs(PrintedFrom(b)) <= TicksToNs(max)
    BY DEF PrintedMaxIsAboveIntervals
  <2>1. ClockInv /\ max \in Nat /\ b \in Nat
    BY Word, Shape DEF HistogramInv, HistogramTypes, Latencies, U64, Indexes
  <2>2. PrintedFrom(b) \in Nat /\ PrintedFrom(b) <= max
    <3>1. CASE b = 0
      BY <2>1, <3>1 DEF PrintedFrom
    <3>2. CASE b > 0
      <4>1. PowerOfTwo[b] <= max
        BY <3>2 DEF HistogramInv
      <4>2. /\ b - 1 \in Nat /\ PowerOfTwo[b - 1] \in Nat /\ PowerOfTwo[b] \in Nat
            /\ PowerOfTwo[b - 1] <= PowerOfTwo[b]
        BY <2>1, <3>2, PowerType, PowerGrows
      <4> QED
        BY <2>1, <3>2, <4>1, <4>2 DEF PrintedFrom
    <3> QED
      BY <2>1, <3>1, <3>2
  <2> QED
    BY <2>1, <2>2, ConversionGrows
<1> QED
  BY <1>1, HistogramHolds, PTL

=============================================================================
