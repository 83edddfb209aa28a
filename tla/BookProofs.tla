------------------------------ MODULE BookProofs ------------------------------
(***************************************************************************)
(* For every depth of the book and every sorted side: what the binary      *)
(* search finds, what the two memmoves make of the array, what apply_delta *)
(* does to the levels a reader sees, and what apply does to a book.        *)
(***************************************************************************)
EXTENDS OrderBook, LiveSide, FiniteSets, TLAPS, WellFoundedInduction, FiniteSetTheorems,
        FunctionTheorems

\* A side as BookSide keeps it between two calls.
Good(side, descending) == IsSide(side) /\ IsSorted(side, descending)

\* Every non-empty set of numbers has a least one.
LEMMA LeastNumber ==
  ASSUME NEW T \in SUBSET Nat, T # {}
  PROVE  \E m \in T : \A n \in T : m <= n
<1>1. IsWellFoundedOn(OpToRel(<, Nat), Nat)
  BY NatLessThanWellFounded
<1>2. PICK m \in T : \A y \in T : ~ (<<y, m>> \in OpToRel(<, Nat))
  BY <1>1, WFMin
<1>3. ASSUME NEW y \in T PROVE m <= y
  <2>1. <<y, m>> \in Nat \X Nat
    OBVIOUS
  <2>2. ~ (y < m)
    BY <1>2, <2>1 DEF OpToRel
  <2> QED
    BY <2>2
<1> QED
  BY <1>3

------------------------------------------------------------------------------
(***************************************************************************)
(* The search.                                                             *)
(***************************************************************************)

\* Ranking is a strict total order of the prices.
LEMMA Ranking ==
  ASSUME NEW p \in Prices, NEW q \in Prices, NEW r \in Prices,
         NEW descending \in BOOLEAN
  PROVE  /\ ~ Before(p, p, descending)
         /\ Before(p, q, descending) \/ Before(q, p, descending) \/ p = q
         /\ ~ (Before(p, q, descending) /\ Before(q, p, descending))
         /\ Before(p, q, descending) /\ Before(q, r, descending)
              => Before(p, r, descending)
  BY SideAssumption DEF Before

\* The types of the parts of a side.
LEMMA SideParts ==
  ASSUME NEW side, IsSide(side)
  PROVE  /\ side.count \in Nat /\ side.count <= MaxLevels
         /\ side.levels \in [Indices -> AnyLevels]
         /\ \A i \in 0 .. side.count - 1 : i \in Indices
         /\ side = [count |-> side.count, levels |-> side.levels]
  BY SideAssumption DEF IsSide, AnySide, Indices

\* A binary search of the live levels finds a place, sorted or not: the first
\* live level that does not rank before the price, or the end.
LEMMA SearchFinds ==
  ASSUME NEW side, IsSide(side), NEW price, NEW descending \in BOOLEAN
  PROVE  LET k == SearchIndex(side, price, descending)
         IN  /\ k \in 0 .. side.count
             /\ \A i \in 0 .. k - 1 : Before(side.levels[i].price, price, descending)
             /\ k < side.count => ~ Before(side.levels[k].price, price, descending)
<1> DEFINE T == {k \in 0 .. side.count :
                   k < side.count => ~ Before(side.levels[k].price, price, descending)}
<1>1. side.count \in Nat
  BY SideParts
<1>2. T \in SUBSET Nat /\ side.count \in T
  BY <1>1
<1>3. PICK k \in T : \A n \in T : k <= n
  BY <1>2, LeastNumber
<1>4. ASSUME NEW i \in 0 .. k - 1
      PROVE  Before(side.levels[i].price, price, descending)
  <2>1. i \in 0 .. side.count /\ i < side.count /\ i \notin T
    BY <1>1, <1>3
  <2> QED
    BY <2>1
<1>5. \E j \in 0 .. side.count :
        /\ \A i \in 0 .. j - 1 : Before(side.levels[i].price, price, descending)
        /\ j < side.count => ~ Before(side.levels[j].price, price, descending)
  BY <1>3, <1>4
<1> QED
  BY <1>5 DEF SearchIndex

\* In a sorted side everything from the place on ranks after the price, the
\* level at the place apart, which may carry the price itself.
LEMMA SearchSplits ==
  ASSUME NEW side, NEW descending \in BOOLEAN, Good(side, descending),
         NEW price \in Prices
  PROVE  LET k == SearchIndex(side, price, descending)
         IN  /\ k \in 0 .. side.count
             /\ \A i \in 0 .. side.count - 1 :
                  /\ i < k => Before(side.levels[i].price, price, descending)
                  /\ i > k => Before(price, side.levels[i].price, descending)
                  /\ i = k => \/ Before(price, side.levels[i].price, descending)
                              \/ price = side.levels[i].price
<1> DEFINE k == SearchIndex(side, price, descending)
           P(i) == side.levels[i].price
<1>1. /\ k \in 0 .. side.count
      /\ \A i \in 0 .. k - 1 : Before(P(i), price, descending)
      /\ k < side.count => ~ Before(P(k), price, descending)
  BY SearchFinds DEF Good
<1>2. \A i \in 0 .. side.count - 1 : P(i) \in Prices
  BY DEF Good, IsSorted
<1>3. \A i, j \in 0 .. side.count - 1 : i < j => Before(P(i), P(j), descending)
  BY DEF Good, IsSorted
<1>4. side.count \in Nat
  BY SideParts DEF Good
<1> HIDE DEF k
<1>5. ASSUME NEW i \in 0 .. side.count - 1
      PROVE  /\ i < k => Before(P(i), price, descending)
             /\ i > k => Before(price, P(i), descending)
             /\ i = k => Before(price, P(i), descending) \/ price = P(i)
  <2>1. CASE i < k
    BY <1>1, <1>4, <2>1
  <2>2. CASE i = k
    <3>1. P(i) \in Prices /\ ~ Before(P(i), price, descending)
      BY <1>1, <1>2, <1>4, <2>2
    <3> QED
      BY <2>2, <3>1, Ranking
  <2>3. CASE i > k
    <3>1. k \in 0 .. side.count - 1 /\ k < side.count
      BY <1>1, <1>4, <2>3
    <3>2. P(k) \in Prices /\ P(i) \in Prices /\ ~ Before(P(k), price, descending)
          /\ Before(P(k), P(i), descending)
      BY <1>1, <1>2, <1>3, <2>3, <3>1
    <3>3. Before(price, P(k), descending) \/ price = P(k)
      BY <3>2, Ranking
    <3>4. Before(price, P(i), descending)
      BY <3>2, <3>3, Ranking
    <3> QED
      BY <1>1, <1>4, <2>3, <3>4
  <2> QED
    BY <1>1, <1>4, <2>1, <2>2, <2>3
<1> QED
  BY <1>1, <1>5 DEF k

\* The search returns Ok exactly when some live level carries the price, and
\* then that level is the one at the place.
LEMMA TracksIsPresence ==
  ASSUME NEW side, NEW descending \in BOOLEAN, Good(side, descending),
         NEW price \in Prices
  PROVE  /\ Tracks(side, price, descending)
              <=> \E level \in Levels(side) : level.price = price
         /\ \A i \in 0 .. side.count - 1 :
              side.levels[i].price = price
                => i = SearchIndex(side, price, descending)
<1> DEFINE k == SearchIndex(side, price, descending)
<1>1. side.count \in Nat
  BY SideParts DEF Good
<1>2. /\ k \in 0 .. side.count
      /\ \A i \in 0 .. side.count - 1 :
           /\ i < k => Before(side.levels[i].price, price, descending)
           /\ i > k => Before(price, side.levels[i].price, descending)
  BY SearchSplits
<1> HIDE DEF k
<1>3. ASSUME NEW i \in 0 .. side.count - 1, side.levels[i].price = price PROVE i = k
  BY <1>1, <1>2, <1>3, Ranking
<1>4. Tracks(side, price, descending) <=> k < side.count /\ side.levels[k].price = price
  BY DEF Tracks, k
<1>5. k < side.count => k \in 0 .. side.count - 1
  BY <1>1, <1>2
<1>6. (\E level \in Levels(side) : level.price = price)
        <=> \E i \in 0 .. side.count - 1 : side.levels[i].price = price
  BY DEF Levels
<1>7. Tracks(side, price, descending)
        <=> \E i \in 0 .. side.count - 1 : side.levels[i].price = price
  BY <1>1, <1>3, <1>4, <1>5
<1> QED
  BY <1>3, <1>6, <1>7 DEF k

------------------------------------------------------------------------------
(***************************************************************************)
(* The memmoves.                                                           *)
(***************************************************************************)

\* Writes inside the array leave it an array.
LEMMA WritesInside ==
  ASSUME NEW levels, NEW idx \in Nat, NEW n \in Int, NEW level
  PROVE  /\ idx + n < MaxLevels =>
              MoveUp(levels, idx, n) =
                [i \in Indices |-> IF i \in idx + 1 .. idx + n THEN levels[i - 1]
                                                               ELSE levels[i]]
         /\ idx + n <= MaxLevels =>
              MoveDown(levels, idx, n) =
                [i \in Indices |-> IF i \in idx .. idx + n - 1 THEN levels[i + 1]
                                                               ELSE levels[i]]
         /\ idx < MaxLevels /\ DOMAIN levels = Indices =>
              Put(levels, idx, level) =
                [i \in Indices |-> IF i = idx THEN level ELSE levels[i]]
<1>1. MaxLevels \in Nat
  BY SideAssumption
<1>2. idx + n < MaxLevels => Indices \cup idx + 1 .. idx + n = Indices
  BY <1>1 DEF Indices
<1>3. idx + n <= MaxLevels => Indices \cup idx .. idx + n - 1 = Indices
  BY <1>1 DEF Indices
<1>4. idx < MaxLevels => Indices \cup {idx} = Indices
  BY <1>1 DEF Indices
<1> QED
  BY <1>2, <1>3, <1>4 DEF MoveUp, MoveDown, Put

\* No level stands twice in a sorted side.
LEMMA LevelsDiffer ==
  ASSUME NEW side, NEW descending \in BOOLEAN, Good(side, descending),
         NEW i \in 0 .. side.count - 1, NEW j \in 0 .. side.count - 1,
         side.levels[i].price = side.levels[j].price
  PROVE  i = j
<1>1. side.levels[i].price \in Prices
  BY DEF Good, IsSorted
<1>2. /\ i < j => Before(side.levels[i].price, side.levels[j].price, descending)
      /\ j < i => Before(side.levels[j].price, side.levels[i].price, descending)
  BY DEF Good, IsSorted
<1> QED
  BY <1>1, <1>2, Ranking, SideParts DEF Good

\* Removing the level at a live index closes the gap: that level is gone, the
\* others stay in their order.
LEMMA RemoveEffect ==
  ASSUME NEW side, NEW descending \in BOOLEAN, Good(side, descending),
         NEW idx \in 0 .. side.count - 1
  PROVE  LET new == Remove(side, idx)
         IN  /\ Good(new, descending)
             /\ new.count = side.count - 1
             /\ Levels(new) = Levels(side) \ {side.levels[idx]}
<1> DEFINE new == Remove(side, idx)
<1>1. /\ side.count \in Nat /\ side.count <= MaxLevels
      /\ side.levels \in [Indices -> AnyLevels]
  BY SideParts DEF Good
<1>2. /\ new.count = side.count - 1
      /\ new.levels = MoveDown(side.levels, idx, side.count - 1 - idx)
      /\ new = [count |-> new.count, levels |-> new.levels]
  BY DEF Remove
<1>3. new.levels = [i \in Indices |-> IF i \in idx .. side.count - 2
                                        THEN side.levels[i + 1] ELSE side.levels[i]]
  <2>1. /\ idx \in Nat /\ side.count - 1 - idx \in Int
        /\ idx + (side.count - 1 - idx) <= MaxLevels
        /\ idx + (side.count - 1 - idx) - 1 = side.count - 2
    BY <1>1, SideAssumption
  <2> QED
    BY <1>2, <2>1, WritesInside
<1>4. new.levels \in [Indices -> AnyLevels]
  <2>1. \A i \in Indices : i \in idx .. side.count - 2 => i + 1 \in Indices
    BY <1>1, SideAssumption DEF Indices
  <2>2. \A i \in Indices : new.levels[i] \in AnyLevels
    BY <1>1, <1>3, <2>1
  <2> QED
    BY <1>3, <2>2
<1>5. IsSide(new)
  BY <1>1, <1>2, <1>4, SideAssumption DEF IsSide, AnySide
<1> HIDE DEF new
<1>6. \A i \in 0 .. new.count - 1 :
        /\ i < idx => new.levels[i] = side.levels[i]
        /\ i >= idx => new.levels[i] = side.levels[i + 1]
  <2> SUFFICES ASSUME NEW i \in 0 .. new.count - 1
               PROVE  /\ i < idx => new.levels[i] = side.levels[i]
                      /\ i >= idx => new.levels[i] = side.levels[i + 1]
    OBVIOUS
  <2>1. i \in 0 .. side.count - 2 /\ idx \in Nat
    BY <1>1, <1>2
  <2>2. i \in Indices
    BY <1>1, <2>1, SideAssumption DEF Indices
  <2>3. i \in idx .. side.count - 2 <=> i >= idx
    BY <1>1, <2>1
  <2> QED
    BY <1>3, <2>1, <2>2, <2>3
<1>7. IsSorted(new, descending)
  <2>1. /\ \A i \in 0 .. side.count - 1 :
             side.levels[i].price \in Prices /\ side.levels[i].qty > 0
        /\ \A i, j \in 0 .. side.count - 1 : i < j =>
             Before(side.levels[i].price, side.levels[j].price, descending)
    BY DEF Good, IsSorted
  <2>2. ASSUME NEW i \in 0 .. new.count - 1
        PROVE  new.levels[i].price \in Prices /\ new.levels[i].qty > 0
    BY <1>1, <1>2, <1>6, <2>1
  <2>3. ASSUME NEW i \in 0 .. new.count - 1, NEW j \in 0 .. new.count - 1, i < j
        PROVE  Before(new.levels[i].price, new.levels[j].price, descending)
    <3>1. CASE j < idx
      BY <1>1, <1>2, <1>6, <2>1, <2>3, <3>1
    <3>2. CASE i < idx /\ j >= idx
      <4>1. /\ i \in 0 .. side.count - 1 /\ j + 1 \in 0 .. side.count - 1
            /\ i < j + 1
        BY <1>1, <1>2, <2>3
      <4>2. new.levels[i] = side.levels[i] /\ new.levels[j] = side.levels[j + 1]
        BY <1>6, <3>2
      <4> QED
        BY <2>1, <4>1, <4>2
    <3>3. CASE i >= idx
      <4>1. /\ i + 1 \in 0 .. side.count - 1 /\ j + 1 \in 0 .. side.count - 1
            /\ i + 1 < j + 1 /\ j >= idx
        BY <1>1, <1>2, <2>3, <3>3
      <4>2. new.levels[i] = side.levels[i + 1] /\ new.levels[j] = side.levels[j + 1]
        BY <1>6, <3>3, <4>1
      <4> QED
        BY <2>1, <4>1, <4>2
    <3> QED
      BY <1>1, <1>2, <3>1, <3>2, <3>3
  <2> QED
    BY <2>2, <2>3 DEF IsSorted
<1>8. Levels(new) \subseteq Levels(side) \ {side.levels[idx]}
  <2>1. ASSUME NEW i \in 0 .. new.count - 1
        PROVE  new.levels[i] \in Levels(side) /\ new.levels[i] # side.levels[idx]
    <3> DEFINE j == IF i < idx THEN i ELSE i + 1
    <3>1. j \in 0 .. side.count - 1 /\ j # idx /\ new.levels[i] = side.levels[j]
      BY <1>1, <1>2, <1>6
    <3> HIDE DEF j
    <3>2. side.levels[j] # side.levels[idx]
      BY <3>1, LevelsDiffer
    <3> QED
      BY <3>1, <3>2 DEF Levels
  <2> QED
    BY <2>1 DEF Levels
<1>9. Levels(side) \ {side.levels[idx]} \subseteq Levels(new)
  <2>1. ASSUME NEW j \in 0 .. side.count - 1, j # idx
        PROVE  side.levels[j] \in Levels(new)
    <3> DEFINE i == IF j < idx THEN j ELSE j - 1
    <3>1. i \in 0 .. new.count - 1 /\ new.levels[i] = side.levels[j]
      BY <1>1, <1>2, <1>6, <2>1
    <3> HIDE DEF i
    <3> QED
      BY <3>1 DEF Levels
  <2> QED
    BY <2>1 DEF Levels
<1> QED
  BY <1>2, <1>5, <1>7, <1>8, <1>9 DEF new, Good

\* A level placed where the search of its price ended, the ones from there on
\* one place up, and possibly the last one pushed off the end: the order is
\* kept, and the new level is in.
LEMMA PlaceEffect ==
  ASSUME NEW side, NEW descending \in BOOLEAN, Good(side, descending),
         NEW price \in Prices, NEW qty \in Qtys \ {0},
         ~ Tracks(side, price, descending),
         NEW idx, idx = SearchIndex(side, price, descending),
         NEW new, IsSide(new), idx < new.count, new.count <= side.count + 1,
         \A i \in 0 .. new.count - 1 :
           /\ i < idx => new.levels[i] = side.levels[i]
           /\ i = idx => new.levels[i] = Level(price, qty)
           /\ i > idx => new.levels[i] = side.levels[i - 1]
  PROVE  /\ Good(new, descending)
         /\ Levels(new) = {side.levels[i] : i \in 0 .. new.count - 2}
                            \cup {Level(price, qty)}
<1>1. /\ side.count \in Nat /\ new.count \in Nat /\ idx \in 0 .. side.count
      /\ idx \in Nat
  BY SideParts, SearchFinds DEF Good
<1>2. \A i \in 0 .. side.count - 1 :
        /\ side.levels[i].price \in Prices /\ side.levels[i].qty > 0
        /\ i < idx => Before(side.levels[i].price, price, descending)
        /\ i >= idx => Before(price, side.levels[i].price, descending)
  <2>1. ~ (idx < side.count /\ side.levels[idx].price = price)
    BY DEF Tracks
  <2> QED
    BY <1>1, <2>1, SearchSplits DEF Good, IsSorted
<1>3. \A i, j \in 0 .. side.count - 1 : i < j =>
        Before(side.levels[i].price, side.levels[j].price, descending)
  BY DEF Good, IsSorted
<1>4. Level(price, qty).price = price /\ Level(price, qty).qty > 0
  <2>1. qty \in Nat /\ qty # 0
    BY SideAssumption
  <2>2. Level(price, qty).price = price /\ Level(price, qty).qty = qty
    BY DEF Level
  <2> QED
    BY <2>1, <2>2
<1>5. ASSUME NEW i \in 0 .. new.count - 1
      PROVE  new.levels[i].price \in Prices /\ new.levels[i].qty > 0
  BY <1>1, <1>2, <1>4
<1>6. ASSUME NEW i \in 0 .. new.count - 1, NEW j \in 0 .. new.count - 1, i < j
      PROVE  Before(new.levels[i].price, new.levels[j].price, descending)
  <2>1. CASE j < idx
    <3>1. /\ new.levels[i] = side.levels[i] /\ new.levels[j] = side.levels[j]
          /\ i \in 0 .. side.count - 1 /\ j \in 0 .. side.count - 1
      BY <1>1, <1>6, <2>1
    <3> QED
      BY <1>3, <1>6, <3>1
  <2>2. CASE j = idx
    <3>1. /\ new.levels[i] = side.levels[i] /\ new.levels[j] = Level(price, qty)
          /\ i \in 0 .. side.count - 1 /\ i < idx
      BY <1>1, <1>6, <2>2
    <3> QED
      BY <1>2, <1>4, <3>1
  <2>3. CASE i < idx /\ j > idx
    <3>1. /\ new.levels[i] = side.levels[i] /\ new.levels[j] = side.levels[j - 1]
          /\ i \in 0 .. side.count - 1 /\ j - 1 \in 0 .. side.count - 1 /\ i < j - 1
      BY <1>1, <1>6, <2>3
    <3> QED
      BY <1>3, <3>1
  <2>4. CASE i = idx
    <3>1. /\ new.levels[i] = Level(price, qty) /\ new.levels[j] = side.levels[j - 1]
          /\ j - 1 \in 0 .. side.count - 1 /\ j - 1 >= idx
      BY <1>1, <1>6, <2>4
    <3> QED
      BY <1>2, <1>4, <3>1
  <2>5. CASE i > idx
    <3>1. /\ new.levels[i] = side.levels[i - 1] /\ new.levels[j] = side.levels[j - 1]
          /\ i - 1 \in 0 .. side.count - 1 /\ j - 1 \in 0 .. side.count - 1
          /\ i - 1 < j - 1
      BY <1>1, <1>6, <2>5
    <3> QED
      BY <1>3, <3>1
  <2> QED
    BY <1>1, <1>6, <2>1, <2>2, <2>3, <2>4, <2>5
<1>7. Good(new, descending)
  BY <1>5, <1>6 DEF Good, IsSorted
<1> DEFINE Kept == {side.levels[i] : i \in 0 .. new.count - 2}
<1>8. ASSUME NEW i \in 0 .. new.count - 1
      PROVE  new.levels[i] \in Kept \cup {Level(price, qty)}
  <2>1. CASE i = idx
    BY <2>1
  <2>2. CASE i < idx
    <3>1. i \in 0 .. new.count - 2 /\ new.levels[i] = side.levels[i]
      BY <1>1, <2>2
    <3> QED
      BY <3>1
  <2>3. CASE i > idx
    <3>1. i - 1 \in 0 .. new.count - 2 /\ new.levels[i] = side.levels[i - 1]
      BY <1>1, <2>3
    <3> QED
      BY <3>1
  <2> QED
    BY <1>1, <2>1, <2>2, <2>3
<1>9. ASSUME NEW i \in 0 .. new.count - 2
      PROVE  side.levels[i] \in Levels(new)
  <2>1. CASE i < idx
    <3>1. i \in 0 .. new.count - 1 /\ new.levels[i] = side.levels[i]
      BY <1>1, <2>1
    <3> QED
      BY <3>1 DEF Levels
  <2>2. CASE i >= idx
    <3>1. /\ i + 1 \in 0 .. new.count - 1 /\ i + 1 > idx
          /\ new.levels[i + 1] = side.levels[(i + 1) - 1] /\ (i + 1) - 1 = i
      BY <1>1, <2>2
    <3> QED
      BY <3>1 DEF Levels
  <2> QED
    BY <1>1, <2>1, <2>2
<1>10. Level(price, qty) \in Levels(new)
  <2>1. idx \in 0 .. new.count - 1 /\ new.levels[idx] = Level(price, qty)
    BY <1>1
  <2> QED
    BY <2>1 DEF Levels
<1>11. Levels(new) \subseteq Kept \cup {Level(price, qty)}
  BY <1>8 DEF Levels
<1>12. Kept \subseteq Levels(new)
  BY <1>9
<1> QED
  BY <1>7, <1>10, <1>11, <1>12

\* With room left, the new level joins the others.
LEMMA RoomEffect ==
  ASSUME NEW side, NEW descending \in BOOLEAN, Good(side, descending),
         NEW price \in Prices, NEW qty \in Qtys \ {0},
         ~ Tracks(side, price, descending),
         NEW idx, idx = SearchIndex(side, price, descending),
         side.count < MaxLevels
  PROVE  LET done == Insert(side, idx, Level(price, qty))
         IN  /\ done.result = "Inserted"
             /\ Good(done.side, descending)
             /\ done.side.count = side.count + 1
             /\ Levels(done.side) = Levels(side) \cup {Level(price, qty)}
<1> DEFINE new == Insert(side, idx, Level(price, qty)).side
<1>1. /\ side.count \in Nat /\ MaxLevels \in Nat /\ idx \in 0 .. side.count
      /\ idx \in Nat /\ side.levels \in [Indices -> AnyLevels]
  BY SideParts, SearchFinds, SideAssumption DEF Good
<1>2. /\ Insert(side, idx, Level(price, qty)).result = "Inserted"
      /\ new = [count |-> side.count + 1,
                levels |-> Put(MoveUp(side.levels, idx, side.count - idx),
                               idx, Level(price, qty))]
  BY DEF Insert
<1> HIDE DEF new
<1>3. new.levels = [i \in Indices |-> IF i = idx THEN Level(price, qty)
                                      ELSE IF i \in idx + 1 .. side.count
                                        THEN side.levels[i - 1] ELSE side.levels[i]]
  <2> DEFINE moved == MoveUp(side.levels, idx, side.count - idx)
  <2>1. /\ idx + (side.count - idx) = side.count /\ side.count - idx \in Int
        /\ side.count < MaxLevels /\ idx < MaxLevels
    BY <1>1
  <2>2. moved = [i \in Indices |-> IF i \in idx + 1 .. side.count
                                     THEN side.levels[i - 1] ELSE side.levels[i]]
    BY <1>1, <2>1, WritesInside
  <2> HIDE DEF moved
  <2>3. Put(moved, idx, Level(price, qty))
          = [i \in Indices |-> IF i = idx THEN Level(price, qty) ELSE moved[i]]
    BY <1>1, <2>1, <2>2, WritesInside
  <2> QED
    BY <1>2, <2>2, <2>3 DEF moved
<1>4. IsSide(new)
  <2>1. Level(price, qty) \in AnyLevels
    BY DEF Level, AnyLevels
  <2>2. \A i \in Indices : i \in idx + 1 .. side.count => i - 1 \in Indices
    BY <1>1 DEF Indices
  <2>3. \A i \in Indices : new.levels[i] \in AnyLevels
    BY <1>1, <1>3, <2>1, <2>2
  <2>4. new.levels \in [Indices -> AnyLevels]
    BY <1>3, <2>3
  <2> QED
    BY <1>1, <1>2, <2>4 DEF IsSide, AnySide
<1>5. new.count = side.count + 1
  BY <1>2
<1>6. ASSUME NEW i \in 0 .. new.count - 1
      PROVE  /\ i < idx => new.levels[i] = side.levels[i]
             /\ i = idx => new.levels[i] = Level(price, qty)
             /\ i > idx => new.levels[i] = side.levels[i - 1]
  <2>1. i \in Indices /\ i \in 0 .. side.count
    BY <1>1, <1>5 DEF Indices
  <2> QED
    BY <1>1, <1>3, <2>1
<1>7. /\ Good(new, descending)
      /\ Levels(new) = {side.levels[i] : i \in 0 .. new.count - 2}
                         \cup {Level(price, qty)}
  BY <1>1, <1>4, <1>5, <1>6, PlaceEffect
<1>8. new.count - 2 = side.count - 1
  BY <1>1, <1>5
<1> QED
  BY <1>2, <1>5, <1>7, <1>8 DEF new, Levels

\* A full side gives up its last level for one that ranks before it.
LEMMA EvictEffect ==
  ASSUME NEW side, NEW descending \in BOOLEAN, Good(side, descending),
         NEW price \in Prices, NEW qty \in Qtys \ {0},
         ~ Tracks(side, price, descending),
         NEW idx, idx = SearchIndex(side, price, descending),
         side.count = MaxLevels, idx < MaxLevels
  PROVE  LET done == Insert(side, idx, Level(price, qty))
             last == side.levels[MaxLevels - 1]
         IN  /\ done.result = "InsertedEvicted"
             /\ Good(done.side, descending)
             /\ done.side.count = side.count
             /\ last \in Levels(side) /\ Before(price, last.price, descending)
             /\ Levels(done.side)
                  = (Levels(side) \ {last}) \cup {Level(price, qty)}
<1> DEFINE new == Insert(side, idx, Level(price, qty)).side
           last == side.levels[MaxLevels - 1]
<1>1. /\ side.count \in Nat /\ MaxLevels \in Nat /\ MaxLevels > 0
      /\ idx \in 0 .. MaxLevels - 1 /\ idx \in Nat
      /\ side.levels \in [Indices -> AnyLevels]
  BY SideParts, SearchFinds, SideAssumption DEF Good
<1>2. /\ Insert(side, idx, Level(price, qty)).result = "InsertedEvicted"
      /\ new = [side EXCEPT !.levels =
                  Put(MoveUp(side.levels, idx, MaxLevels - idx - 1),
                      idx, Level(price, qty))]
  BY <1>1 DEF Insert
<1>3. /\ new.count = side.count
      /\ new.levels = Put(MoveUp(side.levels, idx, MaxLevels - idx - 1),
                          idx, Level(price, qty))
      /\ new = [count |-> new.count, levels |-> new.levels]
  BY <1>2, SideParts DEF Good
<1> HIDE DEF new
<1>4. new.levels = [i \in Indices |-> IF i = idx THEN Level(price, qty)
                                      ELSE IF i \in idx + 1 .. MaxLevels - 1
                                        THEN side.levels[i - 1] ELSE side.levels[i]]
  <2> DEFINE n == MaxLevels - idx - 1
             moved == MoveUp(side.levels, idx, n)
  <2>1. /\ idx + n = MaxLevels - 1 /\ n \in Int
        /\ MaxLevels - 1 < MaxLevels /\ idx < MaxLevels
    BY <1>1
  <2>2. moved = [i \in Indices |-> IF i \in idx + 1 .. MaxLevels - 1
                                     THEN side.levels[i - 1] ELSE side.levels[i]]
    <3> HIDE DEF n
    <3>1. idx + n < MaxLevels
      BY <2>1
    <3>2. moved = [i \in Indices |-> IF i \in idx + 1 .. idx + n
                                       THEN side.levels[i - 1] ELSE side.levels[i]]
      BY <1>1, <2>1, <3>1, WritesInside
    <3> QED
      BY <2>1, <3>2
  <2> HIDE DEF moved
  <2>3. Put(moved, idx, Level(price, qty))
          = [i \in Indices |-> IF i = idx THEN Level(price, qty) ELSE moved[i]]
    BY <1>1, <2>1, <2>2, WritesInside
  <2> QED
    BY <1>3, <2>2, <2>3 DEF moved
<1>5. IsSide(new)
  <2>1. Level(price, qty) \in AnyLevels
    BY DEF Level, AnyLevels
  <2>2. \A i \in Indices : i \in idx + 1 .. MaxLevels - 1 => i - 1 \in Indices
    BY <1>1 DEF Indices
  <2>3. \A i \in Indices : new.levels[i] \in AnyLevels
    BY <1>1, <1>4, <2>1, <2>2
  <2>4. new.levels \in [Indices -> AnyLevels]
    BY <1>4, <2>3
  <2> QED
    BY <1>1, <1>3, <2>4 DEF IsSide, AnySide
<1>6. ASSUME NEW i \in 0 .. new.count - 1
      PROVE  /\ i < idx => new.levels[i] = side.levels[i]
             /\ i = idx => new.levels[i] = Level(price, qty)
             /\ i > idx => new.levels[i] = side.levels[i - 1]
  <2>1. i \in Indices /\ i \in 0 .. MaxLevels - 1
    BY <1>1, <1>3 DEF Indices
  <2> QED
    BY <1>1, <1>4, <2>1
<1>7. /\ Good(new, descending)
      /\ Levels(new) = {side.levels[i] : i \in 0 .. new.count - 2}
                         \cup {Level(price, qty)}
  <2>1. idx < new.count /\ new.count <= side.count + 1
    BY <1>1, <1>3
  <2> QED
    BY <1>5, <1>6, <2>1, PlaceEffect
<1>8. MaxLevels - 1 \in 0 .. side.count - 1 /\ new.count - 2 = MaxLevels - 2
  BY <1>1, <1>3
<1>9. last \in Levels(side)
  BY <1>8 DEF Levels
<1>10. Before(price, last.price, descending)
  <2>1. ~ (idx < side.count /\ side.levels[idx].price = price)
    BY DEF Tracks
  <2> QED
    BY <1>1, <1>8, <2>1, SearchSplits
<1>11. {side.levels[i] : i \in 0 .. new.count - 2} = Levels(side) \ {last}
  <2>1. ASSUME NEW i \in 0 .. MaxLevels - 2
        PROVE  side.levels[i] \in Levels(side) /\ side.levels[i] # last
    <3>1. i \in 0 .. side.count - 1 /\ i # MaxLevels - 1
      BY <1>1
    <3> QED
      BY <1>8, <3>1, LevelsDiffer DEF Levels
  <2>2. ASSUME NEW i \in 0 .. side.count - 1, side.levels[i] # last
        PROVE  i \in 0 .. MaxLevels - 2
    BY <1>1, <2>2
  <2> QED
    BY <1>8, <2>1, <2>2 DEF Levels
<1> QED
  BY <1>2, <1>3, <1>7, <1>9, <1>10, <1>11 DEF new

\* A full side discards a level that ranks after all of its own.
LEMMA DiscardEffect ==
  ASSUME NEW side, NEW descending \in BOOLEAN, Good(side, descending),
         NEW price \in Prices, NEW qty,
         NEW idx, idx = SearchIndex(side, price, descending),
         side.count = MaxLevels, ~ (idx < MaxLevels)
  PROVE  /\ Insert(side, idx, Level(price, qty)) = [side |-> side, result |-> "Discarded"]
         /\ \A other \in Levels(side) : Before(other.price, price, descending)
<1>1. side.count \in Nat /\ MaxLevels \in Nat /\ idx = MaxLevels
  BY SideParts, SearchFinds, SideAssumption DEF Good
<1>2. \A i \in 0 .. side.count - 1 : Before(side.levels[i].price, price, descending)
  <2>1. \A i \in 0 .. side.count - 1 :
          i < idx => Before(side.levels[i].price, price, descending)
    BY SearchSplits
  <2> QED
    BY <1>1, <2>1
<1> QED
  BY <1>1, <1>2 DEF Insert, Levels

Updated(side, idx, qty) ==
  [side EXCEPT !.levels = Put(side.levels, idx, [side.levels[idx] EXCEPT !.qty = qty])]

\* The quantity of a tracked price is overwritten in place.
LEMMA UpdateEffect ==
  ASSUME NEW side, NEW descending \in BOOLEAN, Good(side, descending),
         NEW price \in Prices, NEW qty \in Qtys \ {0},
         NEW idx \in 0 .. side.count - 1, side.levels[idx].price = price
  PROVE  LET new == Updated(side, idx, qty)
         IN  /\ Good(new, descending)
             /\ new.count = side.count
             /\ Levels(new) = (Levels(side) \ {side.levels[idx]})
                                \cup {Level(price, qty)}
<1> DEFINE new == Updated(side, idx, qty)
<1>1. /\ side.count \in Nat /\ idx \in Indices
      /\ side.levels \in [Indices -> AnyLevels]
  BY SideParts DEF Good
<1>2. /\ new.count = side.count
      /\ new.levels = Put(side.levels, idx, [side.levels[idx] EXCEPT !.qty = qty])
      /\ new = [count |-> new.count, levels |-> new.levels]
  BY SideParts DEF Good, Updated
<1> HIDE DEF new
<1>3. [side.levels[idx] EXCEPT !.qty = qty] = Level(price, qty)
  <2>1. side.levels[idx] = [price |-> side.levels[idx].price, qty |-> side.levels[idx].qty]
    BY <1>1 DEF AnyLevels, EmptyLevel, Level
  <2> QED
    BY <2>1 DEF Level
<1>4. new.levels = [i \in Indices |-> IF i = idx THEN Level(price, qty)
                                                 ELSE side.levels[i]]
  <2>1. idx \in Nat /\ idx < MaxLevels /\ 0 \in Int
    BY <1>1, SideAssumption DEF Indices
  <2>2. DOMAIN side.levels = Indices
    BY <1>1
  <2> QED
    BY <1>2, <1>3, <2>1, <2>2, WritesInside
<1>5. IsSide(new)
  <2>1. Level(price, qty) \in AnyLevels
    BY DEF Level, AnyLevels
  <2>2. new.levels \in [Indices -> AnyLevels]
    BY <1>1, <1>2, <1>4, <2>1
  <2> QED
    BY <1>2, <2>2 DEF Good, IsSide, AnySide
<1>6. \A i \in 0 .. side.count - 1 :
        new.levels[i] = IF i = idx THEN Level(price, qty) ELSE side.levels[i]
  BY <1>4, SideParts DEF Good
<1>7. \A i \in 0 .. side.count - 1 :
        /\ new.levels[i].price = side.levels[i].price
        /\ side.levels[i].price \in Prices
        /\ new.levels[i].qty > 0
  <2>1. qty \in Nat /\ qty > 0
    BY SideAssumption
  <2>2. Level(price, qty).price = price /\ Level(price, qty).qty = qty
    BY DEF Level
  <2>3. \A i \in 0 .. side.count - 1 :
          side.levels[i].price \in Prices /\ side.levels[i].qty > 0
    BY DEF Good, IsSorted
  <2> QED
    BY <1>6, <2>1, <2>2, <2>3
<1>8. IsSorted(new, descending)
  <2>1. \A i, j \in 0 .. side.count - 1 : i < j =>
          Before(side.levels[i].price, side.levels[j].price, descending)
    BY DEF Good, IsSorted
  <2> QED
    BY <1>2, <1>7, <2>1 DEF IsSorted
<1>9. Levels(new) = {new.levels[i] : i \in 0 .. side.count - 1}
  BY <1>2 DEF Levels
<1>10. \A i \in 0 .. side.count - 1 : i # idx => side.levels[i] # side.levels[idx]
  BY LevelsDiffer
<1>11. Levels(new) = (Levels(side) \ {side.levels[idx]}) \cup {Level(price, qty)}
  BY <1>6, <1>9, <1>10 DEF Levels
<1> QED
  BY <1>2, <1>5, <1>8, <1>11 DEF Good, new

\* A side that is as long as its array is full, and a side counts its levels.
LEMMA CountIsCardinality ==
  ASSUME NEW side, NEW descending \in BOOLEAN, Good(side, descending)
  PROVE  IsFiniteSet(Levels(side)) /\ Cardinality(Levels(side)) = side.count
<1> DEFINE f == [i \in 0 .. side.count - 1 |-> side.levels[i]]
<1>1. side.count \in Nat
  BY SideParts DEF Good
<1>2. \A i, j \in 0 .. side.count - 1 : side.levels[i] = side.levels[j] => i = j
  BY LevelsDiffer
<1>3. f \in Bijection(0 .. side.count - 1, Levels(side))
  <2>1. f \in [0 .. side.count - 1 -> Levels(side)]
    BY DEF Levels
  <2>2. \A a, b \in 0 .. side.count - 1 : f[a] = f[b] => a = b
    BY <1>2
  <2>3. \A t \in Levels(side) : \E i \in 0 .. side.count - 1 : f[i] = t
    BY DEF Levels
  <2> QED
    BY <2>1, <2>2, <2>3, Fun_IsBij
<1>4. /\ IsFiniteSet(0 .. side.count - 1)
      /\ Cardinality(0 .. side.count - 1) = side.count
  <2>1. ASSUME NEW n \in Nat
        PROVE  IsFiniteSet(0 .. n - 1) /\ Cardinality(0 .. n - 1) = n
    <3>1. 0 \in Int /\ n - 1 \in Int
      OBVIOUS
    <3>2. /\ IsFiniteSet(0 .. n - 1)
          /\ Cardinality(0 .. n - 1) = IF 0 > n - 1 THEN 0 ELSE (n - 1) - 0 + 1
      BY <3>1, FS_Interval
    <3> QED
      BY <3>2
  <2> QED
    BY <1>1, <2>1
<1> HIDE DEF f
<1> QED
  BY <1>3, <1>4, FS_Bijection DEF ExistsBijection

------------------------------------------------------------------------------
(***************************************************************************)
(* apply_delta.                                                            *)
(***************************************************************************)

\* The levels of a set that carry another price.
Others(levels, price) == {level \in levels : level.price # price}

\* A price that is tracked is the price of one level.
LEMMA OthersOfTracked ==
  ASSUME NEW side, NEW descending \in BOOLEAN, Good(side, descending),
         NEW price \in Prices
  PROVE  LET idx == SearchIndex(side, price, descending)
         IN  IF Tracks(side, price, descending)
               THEN /\ idx \in 0 .. side.count - 1
                    /\ side.levels[idx].price = price
                    /\ Others(Levels(side), price) = Levels(side) \ {side.levels[idx]}
                    /\ Others(Levels(side), price) # Levels(side)
               ELSE Others(Levels(side), price) = Levels(side)
<1> DEFINE idx == SearchIndex(side, price, descending)
<1>1. side.count \in Nat /\ idx \in 0 .. side.count
  BY SideParts, SearchFinds DEF Good
<1>2. Tracks(side, price, descending)
        <=> \E level \in Levels(side) : level.price = price
  BY TracksIsPresence
<1>3. \A i \in 0 .. side.count - 1 : side.levels[i].price = price => i = idx
  BY TracksIsPresence
<1>4. Tracks(side, price, descending)
        <=> idx < side.count /\ side.levels[idx].price = price
  BY DEF Tracks
<1> HIDE DEF idx
<1>5. CASE Tracks(side, price, descending)
  <2>1. idx \in 0 .. side.count - 1 /\ side.levels[idx].price = price
    BY <1>1, <1>4, <1>5
  <2>2. side.levels[idx] \in Levels(side)
    BY <2>1 DEF Levels
  <2>3. \A level \in Levels(side) : level.price = price <=> level = side.levels[idx]
    BY <1>3, <2>1 DEF Levels
  <2>4. Others(Levels(side), price) = Levels(side) \ {side.levels[idx]}
    BY <2>3 DEF Others
  <2> QED
    BY <1>5, <2>1, <2>2, <2>4 DEF idx
<1>6. CASE ~ Tracks(side, price, descending)
  BY <1>2, <1>6 DEF Others
<1> QED
  BY <1>5, <1>6

\* A quantity of zero takes the price out of the side, if it is there.
LEMMA CancelEffect ==
  ASSUME NEW side, NEW descending \in BOOLEAN, Good(side, descending),
         NEW price \in Prices
  PROVE  LET done == ApplyDelta(side, price, 0, descending)
             others == Others(Levels(side), price)
         IN  /\ Good(done.side, descending)
             /\ Levels(done.side) = others
             /\ done.result = IF others = Levels(side) THEN "NoOp" ELSE "Removed"
<1> DEFINE idx == SearchIndex(side, price, descending)
           done == ApplyDelta(side, price, 0, descending)
<1>1. done = IF Tracks(side, price, descending)
               THEN [side |-> Remove(side, idx), result |-> "Removed"]
               ELSE [side |-> side, result |-> "NoOp"]
  BY DEF ApplyDelta
<1> HIDE DEF done
<1>2. CASE Tracks(side, price, descending)
  <2>1. /\ idx \in 0 .. side.count - 1
        /\ Others(Levels(side), price) = Levels(side) \ {side.levels[idx]}
        /\ Others(Levels(side), price) # Levels(side)
    BY <1>2, OthersOfTracked
  <2>2. done.side = Remove(side, idx) /\ done.result = "Removed"
    BY <1>1, <1>2
  <2> HIDE DEF idx
  <2>3. /\ Good(Remove(side, idx), descending)
        /\ Levels(Remove(side, idx)) = Levels(side) \ {side.levels[idx]}
    BY <2>1, RemoveEffect
  <2> QED
    BY <2>1, <2>2, <2>3 DEF done
<1>3. CASE ~ Tracks(side, price, descending)
  <2>1. Others(Levels(side), price) = Levels(side)
    BY <1>3, OthersOfTracked
  <2>2. done.side = side /\ done.result = "NoOp"
    BY <1>1, <1>3
  <2> QED
    BY <2>1, <2>2 DEF done
<1> QED
  BY <1>2, <1>3

\* What a side and its levels are once a delta has set a level: the level was
\* overwritten, joined the others, took the place of the last, or was worse than
\* a full side.
Sets(side, level, descending, done) ==
  LET levels == Levels(side)
      others == Others(levels, level.price)
      last == side.levels[MaxLevels - 1]
  IN  \/ /\ done.result = "Updated" /\ others # levels
         /\ Levels(done.side) = others \cup {level}
      \/ /\ done.result = "Inserted" /\ others = levels
         /\ side.count < MaxLevels
         /\ Levels(done.side) = levels \cup {level}
      \/ /\ done.result = "InsertedEvicted" /\ others = levels
         /\ side.count = MaxLevels
         /\ last \in levels /\ Before(level.price, last.price, descending)
         /\ Levels(done.side) = (levels \ {last}) \cup {level}
      \/ /\ done.result = "Discarded" /\ others = levels
         /\ side.count = MaxLevels
         /\ \A other \in levels : Before(other.price, level.price, descending)
         /\ done.side = side

\* Any quantity but zero sets the price.
LEMMA SetEffect ==
  ASSUME NEW side, NEW descending \in BOOLEAN, Good(side, descending),
         NEW price \in Prices, NEW qty \in Qtys \ {0}
  PROVE  LET done == ApplyDelta(side, price, qty, descending)
         IN  /\ Good(done.side, descending)
             /\ Sets(side, Level(price, qty), descending, done)
<1> USE DEF Sets
<1>0. Level(price, qty).price = price
  BY DEF Level
<1> DEFINE idx == SearchIndex(side, price, descending)
           done == ApplyDelta(side, price, qty, descending)
           updated == Updated(side, idx, qty)
<1>1. done = IF Tracks(side, price, descending)
               THEN [side |-> updated, result |-> "Updated"]
               ELSE Insert(side, idx, Level(price, qty))
  BY DEF ApplyDelta, Updated
<1>2. side.count \in Nat /\ side.count <= MaxLevels /\ MaxLevels \in Nat
  BY SideParts, SideAssumption DEF Good
<1> HIDE DEF done
<1>3. CASE Tracks(side, price, descending)
  <2>1. /\ idx \in 0 .. side.count - 1 /\ side.levels[idx].price = price
        /\ Others(Levels(side), price) = Levels(side) \ {side.levels[idx]}
        /\ Others(Levels(side), price) # Levels(side)
    BY <1>3, OthersOfTracked
  <2>2. done.side = updated /\ done.result = "Updated"
    BY <1>1, <1>3
  <2> HIDE DEF idx
  <2>3. /\ Good(updated, descending)
        /\ Levels(updated) = (Levels(side) \ {side.levels[idx]}) \cup {Level(price, qty)}
    BY <2>1, UpdateEffect
  <2> QED
    BY <2>1, <2>2, <2>3, <1>0 DEF done
<1>4. CASE ~ Tracks(side, price, descending)
  <2>1. Others(Levels(side), price) = Levels(side)
    BY <1>4, OthersOfTracked
  <2>2. done = Insert(side, idx, Level(price, qty))
    BY <1>1, <1>4
  <2>3. CASE side.count < MaxLevels
    <3>1. /\ done.result = "Inserted"
          /\ Good(done.side, descending)
          /\ Levels(done.side) = Levels(side) \cup {Level(price, qty)}
      BY <1>4, <2>2, <2>3, RoomEffect
    <3> QED
      BY <2>1, <2>3, <3>1, <1>0 DEF done
  <2>4. CASE side.count = MaxLevels /\ idx < MaxLevels
    <3> DEFINE last == side.levels[MaxLevels - 1]
    <3>1. /\ done.result = "InsertedEvicted"
          /\ Good(done.side, descending)
          /\ last \in Levels(side) /\ Before(price, last.price, descending)
          /\ Levels(done.side) = (Levels(side) \ {last}) \cup {Level(price, qty)}
      BY <1>4, <2>2, <2>4, EvictEffect
    <3> QED
      BY <2>1, <2>4, <3>1, <1>0 DEF done
  <2>5. CASE side.count = MaxLevels /\ ~ (idx < MaxLevels)
    <3>1. /\ done = [side |-> side, result |-> "Discarded"]
          /\ \A other \in Levels(side) : Before(other.price, price, descending)
      BY <2>2, <2>5, DiscardEffect
    <3>2. done.side = side /\ done.result = "Discarded"
      BY <3>1
    <3> QED
      BY <2>1, <2>5, <3>1, <3>2, <1>0 DEF done
  <2> QED
    BY <1>2, <2>3, <2>4, <2>5
<1> QED
  BY <1>3, <1>4

\* The last level of a full side ranks after every other.
LEMMA LastIsWorst ==
  ASSUME NEW side, NEW descending \in BOOLEAN, Good(side, descending),
         side.count = MaxLevels,
         NEW other \in Levels(side), other # side.levels[MaxLevels - 1]
  PROVE  Before(other.price, side.levels[MaxLevels - 1].price, descending)
<1>1. MaxLevels \in Nat /\ MaxLevels > 0
  BY SideAssumption
<1>2. PICK i \in 0 .. side.count - 1 : other = side.levels[i]
  BY DEF Levels
<1>3. i < MaxLevels - 1 /\ MaxLevels - 1 \in 0 .. side.count - 1
  BY <1>1, <1>2
<1> QED
  BY <1>2, <1>3 DEF Good, IsSorted

\* A new side and a cleared one are sorted, and have no levels.
LEMMA EmptyIsGood ==
  ASSUME NEW descending \in BOOLEAN
  PROVE  /\ Good(NewSide, descending) /\ Levels(NewSide) = {}
         /\ \A side : IsSide(side) => /\ Good(Clear(side), descending)
                                      /\ Levels(Clear(side)) = {}
<1>1. Good(NewSide, descending) /\ Levels(NewSide) = {}
  BY SideAssumption DEF NewSide, Good, IsSide, AnySide, IsSorted, Levels, AnyLevels
<1>2. ASSUME NEW side, IsSide(side)
      PROVE  Good(Clear(side), descending) /\ Levels(Clear(side)) = {}
  <2>1. Clear(side).count = 0 /\ IsSide(Clear(side))
    BY <1>2, SideAssumption DEF IsSide, AnySide, Clear
  <2> QED
    BY <2>1 DEF Good, IsSorted, Levels
<1> QED
  BY <1>1, <1>2

\* A delta keeps a side sorted and returns one of the six results.
LEMMA DeltaKeepsGood ==
  ASSUME NEW side, NEW descending \in BOOLEAN, Good(side, descending),
         NEW price \in Prices, NEW qty \in Qtys
  PROVE  LET done == ApplyDelta(side, price, qty, descending)
         IN  Good(done.side, descending) /\ done.result \in DeltaResults
<1>1. CASE qty = 0
  BY <1>1, CancelEffect DEF DeltaResults
<1>2. CASE qty # 0
  BY <1>2, SetEffect DEF DeltaResults, Sets
<1> QED
  BY <1>1, <1>2

------------------------------------------------------------------------------
(***************************************************************************)
(* A side in use.                                                          *)
(***************************************************************************)

\* The inductive invariant.  The order needs the types, for the array accesses,
\* and the refinement needs the order, without which the search of apply_delta
\* may miss a price that is there.
SideInv == SideTypeOK /\ Sorted

\* A new side is sorted.
LEMMA InitSide == SideInit => SideInv
BY EmptyIsGood DEF SideInit, SideInv, SideTypeOK, Sorted, Good, DeltaResults

\* One case per action.
LEMMA StepSide == SideInv /\ [SideNext]_sideVars => SideInv'
<1> SUFFICES ASSUME SideInv, [SideNext]_sideVars PROVE SideInv'
  OBVIOUS
<1>1. CASE UNCHANGED sideVars
  BY <1>1 DEF SideInv, SideTypeOK, Sorted, sideVars
<1>2. ASSUME NEW price \in Prices, NEW qty \in Qtys, Delta(price, qty) PROVE SideInv'
  <2>1. Good(live, asBids) /\ asBids \in BOOLEAN
    BY DEF SideInv, SideTypeOK, Sorted, Good
  <2>2. Good(live', asBids) /\ outcome' \in DeltaResults
    BY <1>2, <2>1, DeltaKeepsGood DEF Delta
  <2> QED
    BY <1>2, <2>1, <2>2 DEF Delta, SideInv, SideTypeOK, Sorted, Good
<1>3. ASSUME ClearSide PROVE SideInv'
  <2>1. IsSide(live) /\ asBids \in BOOLEAN
    BY DEF SideInv, SideTypeOK
  <2>2. Good(Clear(live), asBids)
    BY <2>1, EmptyIsGood
  <2> QED
    BY <1>3, <2>2 DEF SideInv, SideTypeOK, Sorted, ClearSide, Good
<1> QED
  BY <1>1, <1>2, <1>3 DEF SideNext

\* The inductive invariant holds throughout.
LEMMA SideHolds == SideSpec => []SideInv
<1> QED
  BY InitSide, StepSide, PTL DEF SideSpec

\* For every depth and every set of prices and quantities, the memmoves of remove
\* and insert, the insertion and the update write inside the array: a write beside
\* it would leave an array of other indices (MoveUp, MoveDown and Put of BookSide).
THEOREM SideTypeCorrect == SideSpec => []SideTypeOK
<1>1. SideInv => SideTypeOK
  BY DEF SideInv
<1> QED
  BY <1>1, SideHolds, PTL

\* "bids: sorted descending. asks: ascending", no price twice, no level with a
\* quantity of zero: after any deltas and clears.
THEOREM StaysSorted == SideSpec => []Sorted
<1>1. SideInv => Sorted
  BY DEF SideInv
<1> QED
  BY <1>1, SideHolds, PTL

------------------------------------------------------------------------------
(***************************************************************************)
(* The refinement of DepthMap.                                             *)
(***************************************************************************)

\* A cancellation of the side is one of the set of levels.
LEMMA CancelIsCancel ==
  ASSUME SideInv, NEW price \in Prices, Delta(price, 0)
  PROVE  Depth!Cancel(price)
<1>1. Good(live, asBids) /\ asBids \in BOOLEAN
  BY DEF SideInv, SideTypeOK, Sorted, Good
<1>2. Depth!Others(price) = Others(Levels(live), price)
  BY DEF Depth!Others, Others
<1>3. /\ Levels(live') = Others(Levels(live), price)
      /\ outcome' = IF Others(Levels(live), price) = Levels(live) THEN "NoOp"
                                                                 ELSE "Removed"
  BY <1>1, CancelEffect DEF Delta
<1> QED
  BY <1>2, <1>3 DEF Depth!Cancel, Depth!Tracked

\* Any other delta updates, extends or overflows the set of levels.
LEMMA SetIsSet ==
  ASSUME SideInv, NEW price \in Prices, NEW qty \in Qtys \ {0}, Delta(price, qty)
  PROVE  Depth!Update(price, qty) \/ Depth!Extend(price, qty) \/ Depth!Overflow(price, qty)
<1> DEFINE levels == Levels(live)
           level == Level(price, qty)
           last == live.levels[MaxLevels - 1]
<1>1. Good(live, asBids) /\ asBids \in BOOLEAN
  BY DEF SideInv, SideTypeOK, Sorted, Good
<1>2. Depth!Tracked(price) <=> Others(levels, price) # levels
  BY DEF Depth!Tracked, Depth!Others, Others
<1>3. Depth!Level(price, qty) = level
  BY DEF Depth!Level, Level
<1>4. Depth!Cardinality(levels) = live.count
  <2>1. Depth!Cardinality(levels) = Cardinality(levels)
    BY DEF Depth!Cardinality, Cardinality
  <2> QED
    BY <1>1, <2>1, CountIsCardinality
<1>5. \A p, q : Depth!Before(p, q) <=> Before(p, q, asBids)
  BY DEF Depth!Before, Before
<1>6. \/ /\ outcome' = "Updated" /\ Others(levels, price) # levels
         /\ Levels(live') = Others(levels, price) \cup {level}
      \/ /\ outcome' = "Inserted" /\ Others(levels, price) = levels
         /\ live.count < MaxLevels
         /\ Levels(live') = levels \cup {level}
      \/ /\ outcome' = "InsertedEvicted" /\ Others(levels, price) = levels
         /\ live.count = MaxLevels
         /\ last \in levels /\ Before(price, last.price, asBids)
         /\ Levels(live') = (levels \ {last}) \cup {level}
      \/ /\ outcome' = "Discarded" /\ Others(levels, price) = levels
         /\ live.count = MaxLevels
         /\ \A other \in levels : Before(other.price, price, asBids)
         /\ live' = live
  <2> DEFINE done == ApplyDelta(live, price, qty, asBids)
  <2>1. Sets(live, level, asBids, done) /\ level.price = price
    BY <1>1, SetEffect DEF Level
  <2>2. live' = done.side /\ outcome' = done.result
    BY DEF Delta
  <2> HIDE DEF done, level
  <2> QED
    BY <2>1, <2>2 DEF Sets
<1>7. Others(levels, price) = levels => level \notin levels
  BY DEF Others, Level
<1>8. level.price = price
  BY DEF Level
<1>9. CASE /\ outcome' = "Updated" /\ Others(levels, price) # levels
           /\ Levels(live') = Others(levels, price) \cup {level}
  BY <1>2, <1>3, <1>9 DEF Depth!Update, Depth!Others, Others
<1>10. CASE /\ outcome' = "Inserted" /\ Others(levels, price) = levels
            /\ live.count < MaxLevels
            /\ Levels(live') = levels \cup {level}
  BY <1>2, <1>3, <1>4, <1>10 DEF Depth!Extend
<1> DEFINE all == levels \cup {level}
<1>11. CASE /\ outcome' = "InsertedEvicted" /\ Others(levels, price) = levels
            /\ live.count = MaxLevels
            /\ last \in levels /\ Before(price, last.price, asBids)
            /\ Levels(live') = (levels \ {last}) \cup {level}
  <2>1. last \in all /\ last # level /\ Levels(live') = all \ {last}
    BY <1>7, <1>11
  <2>2. \A other \in levels \ {last} : Before(other.price, last.price, asBids)
    BY <1>1, <1>11, LastIsWorst
  <2>3. \A other \in all \ {last} : Depth!Before(other.price, last.price)
    BY <1>5, <1>8, <1>11, <2>2
  <2>4. Depth!IsWorst(last, all)
    BY <2>3 DEF Depth!IsWorst
  <2> QED
    BY <1>2, <1>3, <1>4, <1>11, <2>1, <2>4 DEF Depth!Overflow
<1>12. CASE /\ outcome' = "Discarded" /\ Others(levels, price) = levels
            /\ live.count = MaxLevels
            /\ \A other \in levels : Before(other.price, price, asBids)
            /\ live' = live
  <2>1. level \in all /\ Levels(live') = all \ {level}
    BY <1>7, <1>12
  <2>2. \A other \in all \ {level} : Depth!Before(other.price, level.price)
    BY <1>5, <1>8, <1>12
  <2>3. Depth!IsWorst(level, all)
    BY <2>2 DEF Depth!IsWorst
  <2> QED
    BY <1>2, <1>3, <1>4, <1>12, <2>1, <2>3 DEF Depth!Overflow
<1> QED
  BY <1>6, <1>9, <1>10, <1>11, <1>12

\* Every step of the side is a step of the set of levels, or leaves it alone.
LEMMA StepIsDepthStep == SideInv /\ [SideNext]_sideVars => [Depth!Next]_(Depth!vars)
<1> SUFFICES ASSUME SideInv, [SideNext]_sideVars PROVE [Depth!Next]_(Depth!vars)
  OBVIOUS
<1>1. CASE UNCHANGED sideVars
  BY <1>1 DEF sideVars, Depth!vars
<1>2. ASSUME NEW price \in Prices, NEW qty \in Qtys, Delta(price, qty)
      PROVE  Depth!Next
  <2>1. UNCHANGED asBids /\ args' = <<price, qty>> /\ turn' = 1 - turn
    BY <1>2 DEF Delta
  <2>2. Depth!Delta(price, qty)
    <3>1. CASE qty = 0
      BY <1>2, <2>1, <3>1, CancelIsCancel DEF Depth!Delta
    <3>2. CASE qty # 0
      BY <1>2, <2>1, <3>2, SetIsSet DEF Depth!Delta
    <3> QED
      BY <3>1, <3>2
  <2> QED
    BY <2>1, <2>2 DEF Depth!Next
<1>3. ASSUME ClearSide PROVE Depth!Next
  <2>1. IsSide(live) /\ asBids \in BOOLEAN
    BY DEF SideInv, SideTypeOK
  <2>2. Levels(live') = {}
    BY <1>3, <2>1, EmptyIsGood DEF ClearSide
  <2> QED
    BY <1>3, <2>2 DEF ClearSide, Depth!Next, Depth!Forget
<1> QED
  BY <1>1, <1>2, <1>3 DEF SideNext

\* Each call of apply_delta, with the binary search, the memmoves, the eviction
\* and the stale data beyond count, does to the levels that are read what the
\* reference model of tests/proptest_book_side.rs does to a set when it is called
\* with the same price and quantity, and clear empties both: for every depth, on
\* either side, and with the result it says.
THEOREM ImplementsDepthMap == SideSpec => IsDepthMap
<1>1. SideInit => Depth!Init
  BY EmptyIsGood DEF SideInit, Depth!Init
<1> QED
  BY <1>1, StepIsDepthStep, SideHolds, PTL DEF SideSpec, IsDepthMap, Depth!Spec

------------------------------------------------------------------------------
(***************************************************************************)
(* apply.                                                                  *)
(***************************************************************************)

\* The side that the delta of a tick meets: cleared, if the tick is the first
\* of a new snapshot.
Met(book, tick) ==
  IF tick.is_snapshot /\ tick.snapshot_id # book.snapshot_id[tick.side]
    THEN Clear(book.sides[tick.side])
    ELSE book.sides[tick.side]

Landed(book, tick) ==
  ApplyDelta(Met(book, tick), tick.price, tick.qty, tick.side = "Bid")

\* What is met is sorted, and so is what the delta makes of it.
LEMMA MetIsGood ==
  ASSUME NEW book, IsBook(book), NEW tick, IsTick(tick)
  PROVE  /\ Good(Met(book, tick), tick.side = "Bid")
         /\ Good(Landed(book, tick).side, tick.side = "Bid")
         /\ Landed(book, tick).result \in DeltaResults
<1>1. tick.side \in Sides /\ tick.price \in Prices /\ tick.qty \in Qtys
  BY DEF IsTick
<1>2. /\ IsSide(book.sides[tick.side])
      /\ IsSorted(book.sides[tick.side], tick.side = "Bid")
  BY <1>1 DEF IsBook, AnyBook, IsSide
<1>3. Good(Met(book, tick), tick.side = "Bid")
  BY <1>2, EmptyIsGood DEF Met, Good
<1>4. /\ Good(Landed(book, tick).side, tick.side = "Bid")
      /\ Landed(book, tick).result \in DeltaResults
  <2> DEFINE met == Met(book, tick)
  <2> HIDE DEF met
  <2>1. Good(met, tick.side = "Bid")
    BY <1>3 DEF met
  <2>2. LET done == ApplyDelta(met, tick.price, tick.qty, tick.side = "Bid")
        IN  Good(done.side, tick.side = "Bid") /\ done.result \in DeltaResults
    BY <1>1, <2>1, DeltaKeepsGood
  <2> QED
    BY <2>2 DEF Landed, met
<1> QED
  BY <1>3, <1>4

\* What track_sequence counts as a gap, and what as a reorder.
Skips(book, tick) ==
  /\ book.sequence_initialized
  /\ tick.sequence > book.sequence /\ tick.sequence # book.sequence + 1
GoesBack(book, tick) ==
  book.sequence_initialized /\ tick.sequence <= book.sequence

\* The tick changed the side it is for, and nothing of the other.
SidesChanged(book, tick, new) ==
  /\ new.sides = [book.sides EXCEPT ![tick.side] = Landed(book, tick).side]
  /\ new.snapshot_id = [book.snapshot_id EXCEPT ![tick.side] =
                          IF tick.is_snapshot THEN tick.snapshot_id ELSE @]

\* Its sequence number was kept, and counted, only if it changed a level.
CountsChanged(book, tick, new) ==
  /\ new.symbol_mismatches = book.symbol_mismatches
  /\ new.checksum_failures = book.checksum_failures
  /\ IF Effective(Landed(book, tick).result)
       THEN /\ new.sequence_initialized
            /\ new.sequence = tick.sequence
            /\ new.sequence_gaps = IF Skips(book, tick) THEN book.sequence_gaps + 1
                                                        ELSE book.sequence_gaps
            /\ new.sequence_reorders = IF GoesBack(book, tick)
                                         THEN book.sequence_reorders + 1
                                         ELSE book.sequence_reorders
       ELSE /\ new.sequence_initialized = book.sequence_initialized
            /\ new.sequence = book.sequence
            /\ new.sequence_gaps = book.sequence_gaps
            /\ new.sequence_reorders = book.sequence_reorders

\* What apply makes of a tick for the book.
LEMMA ApplyEffect ==
  ASSUME NEW book, IsBook(book), NEW tick, IsTick(tick), tick.symbol = Symbol
  PROVE  LET new == Apply(book, tick).book
         IN  /\ Apply(book, tick).result = Landed(book, tick).result
             /\ new \in AnyBook
             /\ SidesChanged(book, tick, new)
             /\ CountsChanged(book, tick, new)
<1> USE DEF SidesChanged, CountsChanged
<1> USE DEF AnyBook
<1> DEFINE s == tick.side
           cleared == IF tick.is_snapshot
                        THEN MaybeClearForSnapshot(book, s, tick.snapshot_id)
                        ELSE book
           applied == ApplyDelta(cleared.sides[s], tick.price, tick.qty, s = "Bid")
           stored == [cleared EXCEPT !.sides[s] = applied.side]
           Same(b) == /\ b.symbol_mismatches = book.symbol_mismatches
                      /\ b.checksum_failures = book.checksum_failures
                      /\ b.sequence_initialized = book.sequence_initialized
                      /\ b.sequence = book.sequence
                      /\ b.sequence_gaps = book.sequence_gaps
                      /\ b.sequence_reorders = book.sequence_reorders
<1>1. /\ s \in Sides /\ tick.is_snapshot \in BOOLEAN /\ tick.snapshot_id \in Nat
      /\ tick.sequence \in Nat /\ tick.ts_recv_ns \in Nat
      /\ book \in AnyBook
  BY DEF IsTick, IsBook
<1>2. \A side \in AnySide : Clear(side) \in AnySide
  BY SideAssumption DEF AnySide, Clear
<1>3. /\ cleared \in AnyBook
      /\ cleared.sides = [book.sides EXCEPT ![s] = Met(book, tick)]
      /\ cleared.snapshot_id = [book.snapshot_id EXCEPT ![s] =
                                  IF tick.is_snapshot THEN tick.snapshot_id ELSE @]
      /\ Same(cleared)
  <2>1. CASE tick.is_snapshot /\ tick.snapshot_id # book.snapshot_id[s]
    <3>1. cleared = [book EXCEPT !.sides[s] = Clear(@),
                                 !.snapshot_id[s] = tick.snapshot_id]
      BY <2>1 DEF MaybeClearForSnapshot
    <3>2. Met(book, tick) = Clear(book.sides[s])
      BY <2>1 DEF Met
    <3>3. Clear(book.sides[s]) \in AnySide
      BY <1>1, <1>2
    <3> HIDE DEF cleared, s
    <3>4. /\ cleared.sides = [book.sides EXCEPT ![s] = Clear(book.sides[s])]
          /\ cleared.snapshot_id = [book.snapshot_id EXCEPT ![s] = tick.snapshot_id]
          /\ Same(cleared) /\ cleared.last_update_ns = book.last_update_ns
      BY <1>1, <3>1
    <3>5. /\ [book.sides EXCEPT ![s] = Clear(book.sides[s])] \in [Sides -> AnySide]
          /\ [book.snapshot_id EXCEPT ![s] = tick.snapshot_id]
               \in [Sides -> Nat \cup {NoSnapshotId}]
      BY <1>1, <3>3
    <3>6. cleared \in AnyBook
      BY <1>1, <3>1, <3>5
    <3> QED
      BY <2>1, <3>2, <3>4, <3>6
  <2>2. CASE tick.is_snapshot /\ tick.snapshot_id = book.snapshot_id[s]
    <3>1. cleared = book /\ Met(book, tick) = book.sides[s]
      BY <2>2 DEF MaybeClearForSnapshot, Met
    <3> HIDE DEF cleared, s
    <3> QED
      BY <1>1, <2>2, <3>1
  <2>3. CASE ~ tick.is_snapshot
    <3>1. cleared = book /\ Met(book, tick) = book.sides[s]
      BY <2>3 DEF Met
    <3> HIDE DEF cleared, s
    <3> QED
      BY <1>1, <2>3, <3>1
  <2> QED
    BY <2>1, <2>2, <2>3
<1>4. applied = Landed(book, tick)
  <2>1. cleared.sides[s] = Met(book, tick)
    <3> HIDE DEF cleared, s
    <3> QED
      BY <1>1, <1>3
  <2> QED
    BY <2>1 DEF Landed
<1>5. applied.side \in AnySide
  BY <1>4, MetIsGood DEF Good, IsSide
<1>6. Apply(book, tick)
        = [book |-> IF Effective(applied.result)
                      THEN [TrackSequence(stored, tick.sequence)
                              EXCEPT !.last_update_ns = tick.ts_recv_ns]
                      ELSE stored,
           result |-> applied.result]
  BY DEF Apply
<1> HIDE DEF s, cleared, applied
<1>7. /\ stored \in AnyBook
      /\ stored.sides = [book.sides EXCEPT ![s] = applied.side]
      /\ stored.snapshot_id = cleared.snapshot_id
      /\ Same(stored)
  <2>1. /\ stored.sides = [cleared.sides EXCEPT ![s] = applied.side]
        /\ stored.snapshot_id = cleared.snapshot_id
        /\ Same(stored) /\ stored.last_update_ns = cleared.last_update_ns
    BY <1>3
  <2>2. [cleared.sides EXCEPT ![s] = applied.side] \in [Sides -> AnySide]
    BY <1>3, <1>5
  <2>3. stored \in AnyBook
    BY <1>3, <2>1, <2>2
  <2>4. [cleared.sides EXCEPT ![s] = applied.side]
          = [book.sides EXCEPT ![s] = applied.side]
    BY <1>1, <1>3
  <2> QED
    BY <2>1, <2>3, <2>4
<1> HIDE DEF stored
<1> DEFINE new == Apply(book, tick).book
           gap == /\ stored.sequence_initialized
                  /\ tick.sequence > stored.sequence
                  /\ tick.sequence # stored.sequence + 1
           reorder == stored.sequence_initialized /\ tick.sequence <= stored.sequence
<1>8. CASE Effective(applied.result)
  <2> DEFINE tracked == TrackSequence(stored, tick.sequence)
  <2>1. new = [tracked EXCEPT !.last_update_ns = tick.ts_recv_ns]
    BY <1>6, <1>8
  <2> HIDE DEF new
  <2>2. /\ tracked.sides = stored.sides
        /\ tracked.snapshot_id = stored.snapshot_id
        /\ tracked.symbol_mismatches = stored.symbol_mismatches
        /\ tracked.checksum_failures = stored.checksum_failures
        /\ tracked.sequence_initialized = TRUE
        /\ tracked.sequence = tick.sequence
        /\ tracked.sequence_gaps = IF gap THEN stored.sequence_gaps + 1
                                      ELSE stored.sequence_gaps
        /\ tracked.sequence_reorders = IF reorder THEN stored.sequence_reorders + 1
                                              ELSE stored.sequence_reorders
        /\ tracked \in AnyBook
    <3> DEFINE gaps == IF gap THEN stored.sequence_gaps + 1 ELSE stored.sequence_gaps
               reorders == IF reorder THEN stored.sequence_reorders + 1
                                      ELSE stored.sequence_reorders
    <3>1. tracked = [stored EXCEPT !.sequence_gaps = gaps,
                                   !.sequence_reorders = reorders,
                                   !.sequence_initialized = TRUE,
                                   !.sequence = tick.sequence]
      BY DEF TrackSequence
    <3>2. gaps \in Nat /\ reorders \in Nat
      BY <1>7
    <3> HIDE DEF gaps, reorders, tracked
    <3>3. tracked \in AnyBook
      BY <1>1, <1>7, <3>1, <3>2
    <3>4. /\ tracked.sides = stored.sides
          /\ tracked.snapshot_id = stored.snapshot_id
          /\ tracked.symbol_mismatches = stored.symbol_mismatches
          /\ tracked.checksum_failures = stored.checksum_failures
          /\ tracked.sequence_initialized = TRUE
          /\ tracked.sequence = tick.sequence
          /\ tracked.sequence_gaps = gaps
          /\ tracked.sequence_reorders = reorders
      BY <1>7, <3>1
    <3> QED
      BY <3>3, <3>4 DEF gaps, reorders
  <2> HIDE DEF tracked
  <2>3. /\ new.sides = tracked.sides
        /\ new.snapshot_id = tracked.snapshot_id
        /\ new.symbol_mismatches = tracked.symbol_mismatches
        /\ new.checksum_failures = tracked.checksum_failures
        /\ new.sequence_initialized = tracked.sequence_initialized
        /\ new.sequence = tracked.sequence
        /\ new.sequence_gaps = tracked.sequence_gaps
        /\ new.sequence_reorders = tracked.sequence_reorders
        /\ new \in AnyBook
    BY <1>1, <2>1, <2>2
  <2> QED
    BY <1>3, <1>4, <1>6, <1>7, <1>8, <2>2, <2>3
       DEF s, new, Skips, GoesBack
<1>9. CASE ~ Effective(applied.result)
  <2>1. new = stored
    BY <1>6, <1>9
  <2> HIDE DEF new
  <2> QED
    BY <1>3, <1>4, <1>6, <1>7, <1>9, <2>1 DEF s, new
<1> QED
  BY <1>8, <1>9

\* A tick keeps a book well-formed, and so does a tick for another book.
LEMMA ApplyKeepsBook ==
  ASSUME NEW book, IsBook(book), NEW tick, IsTick(tick)
  PROVE  IsBook(Apply(book, tick).book)
<1>1. CASE tick.symbol # Symbol
  <2>1. Apply(book, tick).book = [book EXCEPT !.symbol_mismatches = @ + 1]
    BY <1>1 DEF Apply
  <2> QED
    BY <2>1 DEF IsBook, AnyBook
<1>2. CASE tick.symbol = Symbol
  <2> DEFINE new == Apply(book, tick).book
  <2>1. new.sides = [book.sides EXCEPT ![tick.side] = Landed(book, tick).side]
    BY <1>2, ApplyEffect DEF SidesChanged
  <2>2. new \in AnyBook
    BY <1>2, ApplyEffect
  <2> HIDE DEF new
  <2>3. ASSUME NEW s \in Sides PROVE IsSorted(new.sides[s], s = "Bid")
    <3>1. CASE s = tick.side
      <4>1. new.sides[s] = Landed(book, tick).side
        BY <2>1, <3>1 DEF IsBook, AnyBook
      <4> QED
        BY <3>1, <4>1, MetIsGood DEF Good
    <3>2. CASE s # tick.side
      <4>1. new.sides[s] = book.sides[s]
        BY <2>1, <3>2 DEF IsBook, AnyBook
      <4> QED
        BY <4>1 DEF IsBook, AnyBook
    <3> QED
      BY <3>1, <3>2
  <2> QED
    BY <2>2, <2>3 DEF new, IsBook
<1> QED
  BY <1>1, <1>2

\* OrderBook::new is well-formed, and has no levels.
LEMMA NewBookIsBook ==
  IsBook(NewBook) /\ \A s \in Sides : Levels(NewBook.sides[s]) = {}
<1>1. NewSide \in AnySide
  BY EmptyIsGood DEF Good, IsSide
<1>2. \A s \in Sides : NewBook.sides[s] = NewSide
  BY DEF NewBook
<1>3. \A s \in Sides :
        /\ IsSorted(NewBook.sides[s], s = "Bid")
        /\ Levels(NewBook.sides[s]) = {}
  BY <1>2, EmptyIsGood DEF Good
<1> QED
  BY <1>1, <1>3 DEF IsBook, AnyBook, NewBook

------------------------------------------------------------------------------
(***************************************************************************)
(* Two sides that differ in their stale data alone.                        *)
(***************************************************************************)
Agree(a, b) ==
  a.count = b.count /\ \A i \in 0 .. a.count - 1 : a.levels[i] = b.levels[i]

\* Both searches end at the same place.
LEMMA SearchAgrees ==
  ASSUME NEW descending \in BOOLEAN,
         NEW a, Good(a, descending), NEW b, Good(b, descending), Agree(a, b),
         NEW price \in Prices
  PROVE  /\ SearchIndex(a, price, descending) = SearchIndex(b, price, descending)
         /\ Tracks(a, price, descending) <=> Tracks(b, price, descending)
<1> DEFINE ka == SearchIndex(a, price, descending)
           kb == SearchIndex(b, price, descending)
<1>1. /\ a.count \in Nat /\ a.count = b.count
      /\ \A i \in 0 .. a.count - 1 : a.levels[i] = b.levels[i]
  BY SideParts DEF Good, Agree
<1>2. \A i \in 0 .. a.count - 1 : a.levels[i].price \in Prices
  BY DEF Good, IsSorted
<1>3. /\ ka \in 0 .. a.count
      /\ \A i \in 0 .. a.count - 1 :
           /\ i < ka => Before(a.levels[i].price, price, descending)
           /\ i = ka => \/ Before(price, a.levels[i].price, descending)
                        \/ price = a.levels[i].price
  BY SearchSplits
<1>4. /\ kb \in 0 .. b.count
      /\ \A i \in 0 .. b.count - 1 :
           /\ i < kb => Before(b.levels[i].price, price, descending)
           /\ i = kb => \/ Before(price, b.levels[i].price, descending)
                        \/ price = b.levels[i].price
  BY SearchSplits
<1>5. /\ Tracks(a, price, descending) <=> ka < a.count /\ a.levels[ka].price = price
      /\ Tracks(b, price, descending) <=> kb < b.count /\ b.levels[kb].price = price
  BY DEF Tracks
<1> HIDE DEF ka, kb
<1>6. ~ (ka < kb)
  <2> SUFFICES ASSUME ka < kb PROVE FALSE
    OBVIOUS
  <2>1. ka \in 0 .. a.count - 1 /\ a.levels[ka].price = b.levels[ka].price
    BY <1>1, <1>3, <1>4
  <2>2. Before(a.levels[ka].price, price, descending)
    BY <1>1, <1>4, <2>1
  <2>3. Before(price, a.levels[ka].price, descending) \/ price = a.levels[ka].price
    BY <1>3, <2>1
  <2> QED
    BY <1>2, <2>1, <2>2, <2>3, Ranking
<1>7. ~ (kb < ka)
  <2> SUFFICES ASSUME kb < ka PROVE FALSE
    OBVIOUS
  <2>1. kb \in 0 .. a.count - 1 /\ a.levels[kb].price = b.levels[kb].price
    BY <1>1, <1>3, <1>4
  <2>2. Before(a.levels[kb].price, price, descending)
    BY <1>1, <1>3, <2>1
  <2>3. Before(price, a.levels[kb].price, descending) \/ price = a.levels[kb].price
    BY <1>1, <1>4, <2>1
  <2> QED
    BY <1>2, <2>1, <2>2, <2>3, Ranking
<1>8. ka = kb
  BY <1>1, <1>3, <1>4, <1>6, <1>7
<1>9. ka < a.count => a.levels[ka].price = b.levels[ka].price
  BY <1>1, <1>3
<1> QED
  BY <1>1, <1>5, <1>8, <1>9 DEF ka, kb

\* A delta reads and moves live levels alone: two sides that agree still agree
\* after it, whatever stale data they carry.
LEMMA DeltaAgrees ==
  ASSUME NEW descending \in BOOLEAN,
         NEW a, Good(a, descending), NEW b, Good(b, descending), Agree(a, b),
         NEW price \in Prices, NEW qty \in Qtys
  PROVE  Agree(ApplyDelta(a, price, qty, descending).side,
               ApplyDelta(b, price, qty, descending).side)
<1> DEFINE k == SearchIndex(a, price, descending)
           level == Level(price, qty)
           doneA == ApplyDelta(a, price, qty, descending)
           doneB == ApplyDelta(b, price, qty, descending)
<1>1. /\ SearchIndex(b, price, descending) = k
      /\ Tracks(a, price, descending) <=> Tracks(b, price, descending)
      /\ Tracks(a, price, descending) => k < a.count
  BY SearchAgrees DEF Tracks
<1>2. /\ a.count \in Nat /\ a.count = b.count /\ a.count <= MaxLevels
      /\ MaxLevels \in Nat /\ MaxLevels > 0
      /\ k \in 0 .. a.count /\ k \in Nat
      /\ a.levels \in [Indices -> AnyLevels] /\ b.levels \in [Indices -> AnyLevels]
      /\ a = [count |-> a.count, levels |-> a.levels]
      /\ b = [count |-> b.count, levels |-> b.levels]
      /\ \A i \in 0 .. a.count - 1 : i \in Indices /\ a.levels[i] = b.levels[i]
  BY SideParts, SearchFinds, SideAssumption DEF Good, Agree
<1>3. CASE qty = 0 /\ Tracks(a, price, descending)
  <2>1. doneA.side = Remove(a, k) /\ doneB.side = Remove(b, k)
    BY <1>1, <1>3 DEF ApplyDelta
  <2> HIDE DEF k
  <2>2. ASSUME NEW i \in 0 .. a.count - 2
        PROVE  Remove(a, k).levels[i] = Remove(b, k).levels[i]
    <3>1. i \in Indices /\ i + 1 \in Indices
          /\ a.levels[i] = b.levels[i] /\ a.levels[i + 1] = b.levels[i + 1]
      BY <1>2
    <3>2. /\ a.count - 1 - k \in Int /\ k + (a.count - 1 - k) <= MaxLevels
      BY <1>2
    <3>3. /\ Remove(a, k).levels = MoveDown(a.levels, k, a.count - 1 - k)
          /\ Remove(b, k).levels = MoveDown(b.levels, k, a.count - 1 - k)
      BY <1>2 DEF Remove
    <3> QED
      BY <1>2, <3>1, <3>2, <3>3, WritesInside
  <2>3. Remove(a, k).count = a.count - 1 /\ Remove(b, k).count = a.count - 1
    BY <1>2 DEF Remove
  <2> QED
    BY <1>2, <2>1, <2>2, <2>3 DEF Agree
<1>4. CASE qty = 0 /\ ~ Tracks(a, price, descending)
  BY <1>1, <1>4 DEF ApplyDelta
<1>5. CASE qty # 0 /\ Tracks(a, price, descending)
  <2> DEFINE newA == Updated(a, k, qty)
             newB == Updated(b, k, qty)
             put == [a.levels[k] EXCEPT !.qty = qty]
  <2>1. doneA.side = newA /\ doneB.side = newB
    BY <1>1, <1>5 DEF ApplyDelta, Updated
  <2>2. k \in 0 .. a.count - 1 /\ k < MaxLevels /\ 0 \in Int
    BY <1>1, <1>2, <1>5
  <2> HIDE DEF k
  <2>3. /\ newA.count = a.count /\ newB.count = a.count
        /\ newA.levels = Put(a.levels, k, put)
        /\ newB.levels = Put(b.levels, k, put)
    BY <1>2, <2>2 DEF Updated
  <2> HIDE DEF newA, newB, put
  <2>4. /\ newA.levels = [i \in Indices |-> IF i = k THEN put ELSE a.levels[i]]
        /\ newB.levels = [i \in Indices |-> IF i = k THEN put ELSE b.levels[i]]
    BY <1>2, <2>2, <2>3, WritesInside
  <2>5. \A i \in 0 .. a.count - 1 : newA.levels[i] = newB.levels[i]
    BY <1>2, <2>4
  <2> QED
    BY <2>1, <2>3, <2>5 DEF Agree
<1>6. CASE qty # 0 /\ ~ Tracks(a, price, descending)
  <2>1. doneA = Insert(a, k, level) /\ doneB = Insert(b, k, level)
    BY <1>1, <1>6 DEF ApplyDelta
  <2> HIDE DEF k
  <2>2. ASSUME NEW n \in Int, k < MaxLevels, k + n < MaxLevels, k + n <= a.count,
               NEW i \in 0 .. k + n
        PROVE  Put(MoveUp(a.levels, k, n), k, level)[i]
                 = Put(MoveUp(b.levels, k, n), k, level)[i]
    <3> DEFINE movedA == MoveUp(a.levels, k, n)
               movedB == MoveUp(b.levels, k, n)
    <3>1. i \in Indices
      BY <1>2, <2>2 DEF Indices
    <3>2. /\ movedA = [j \in Indices |-> IF j \in k + 1 .. k + n THEN a.levels[j - 1]
                                                               ELSE a.levels[j]]
          /\ movedB = [j \in Indices |-> IF j \in k + 1 .. k + n THEN b.levels[j - 1]
                                                               ELSE b.levels[j]]
      BY <1>2, <2>2, WritesInside
    <3> HIDE DEF movedA, movedB
    <3>3. /\ Put(movedA, k, level) = [j \in Indices |-> IF j = k THEN level ELSE movedA[j]]
          /\ Put(movedB, k, level) = [j \in Indices |-> IF j = k THEN level ELSE movedB[j]]
      <4> HIDE DEF level
      <4>1. DOMAIN movedA = Indices /\ DOMAIN movedB = Indices
        BY <3>2
      <4> QED
        BY <1>2, <2>2, <4>1, WritesInside
    <3>4. i # k => movedA[i] = movedB[i]
      <4>1. CASE i < k
        <5>1. i \notin k + 1 .. k + n /\ i \in 0 .. a.count - 1
          BY <1>2, <4>1
        <5> QED
          BY <1>2, <3>1, <3>2, <5>1
      <4>2. CASE i > k
        <5>1. i \in k + 1 .. k + n /\ i - 1 \in 0 .. a.count - 1
          BY <1>2, <2>2, <4>2
        <5> QED
          BY <1>2, <3>1, <3>2, <5>1
      <4> QED
        BY <1>2, <2>2, <4>1, <4>2
    <3> QED
      BY <3>1, <3>3, <3>4 DEF movedA, movedB
  <2>3. CASE a.count < MaxLevels
    <3> DEFINE n == a.count - k
               newA == Put(MoveUp(a.levels, k, n), k, level)
               newB == Put(MoveUp(b.levels, k, n), k, level)
    <3>1. /\ doneA.side = [count |-> a.count + 1, levels |-> newA]
          /\ doneB.side = [count |-> a.count + 1, levels |-> newB]
      BY <1>2, <2>1, <2>3 DEF Insert
    <3>2. n \in Int /\ k < MaxLevels /\ k + n = a.count
      BY <1>2, <2>3
    <3>3. \A i \in 0 .. a.count : newA[i] = newB[i]
      <4> HIDE DEF n
      <4> QED
        BY <1>2, <2>2, <2>3, <3>2
    <3> HIDE DEF newA, newB
    <3>4. (a.count + 1) - 1 = a.count
      BY <1>2
    <3> QED
      BY <3>1, <3>3, <3>4 DEF Agree
  <2>4. CASE a.count = MaxLevels /\ k < MaxLevels
    <3> DEFINE n == MaxLevels - k - 1
               newA == Put(MoveUp(a.levels, k, n), k, level)
               newB == Put(MoveUp(b.levels, k, n), k, level)
    <3>1. /\ doneA.side = [a EXCEPT !.levels = newA]
          /\ doneB.side = [b EXCEPT !.levels = newB]
      BY <1>2, <2>1, <2>4 DEF Insert
    <3>2. n \in Int /\ k + n = MaxLevels - 1 /\ MaxLevels - 1 < MaxLevels
          /\ MaxLevels - 1 <= a.count
      BY <1>2, <2>4
    <3>3. \A i \in 0 .. MaxLevels - 1 : newA[i] = newB[i]
      <4> HIDE DEF n
      <4> QED
        BY <1>2, <2>2, <2>4, <3>2
    <3> HIDE DEF newA, newB
    <3>4. /\ doneA.side.count = a.count /\ doneA.side.levels = newA
          /\ doneB.side.count = a.count /\ doneB.side.levels = newB
      BY <1>2, <3>1
    <3> QED
      BY <1>2, <2>4, <3>3, <3>4 DEF Agree
  <2>5. CASE a.count = MaxLevels /\ ~ (k < MaxLevels)
    <3>1. doneA.side = a /\ doneB.side = b
      BY <1>2, <2>1, <2>5 DEF Insert
    <3> QED
      BY <3>1
  <2> QED
    BY <1>2, <2>3, <2>4, <2>5
<1> QED
  BY <1>3, <1>4, <1>5, <1>6

===============================================================================
