------------------------------- MODULE BookSide -------------------------------
(***************************************************************************)
(* One side of the book (BookSide in src/types.rs): an array of MaxLevels  *)
(* levels of which the first `count' are live, best price first.  The      *)
(* operators are the methods, each from a side to a side; what lies beyond *)
(* `count' is kept as the code keeps it, as stale data.                    *)
(***************************************************************************)
EXTENDS Integers

CONSTANTS
  MaxLevels,  \* MAX_LEVELS, 64 in the code
  Prices,     \* the prices a tick may carry
  Qtys        \* the quantities a tick may carry, zero among them

ASSUME SideAssumption ==
  /\ MaxLevels \in Nat /\ MaxLevels > 0
  /\ Prices \subseteq Nat
  /\ Qtys \subseteq Nat /\ 0 \in Qtys

Indices == 0 .. MaxLevels - 1
Level(price, qty) == [price |-> price, qty |-> qty]
EmptyLevel == Level(0, 0)

NewSide == [count |-> 0, levels |-> [i \in Indices |-> EmptyLevel]]

\* "stale data past count is harmless, don't waste time zeroing"
Clear(side) == [side EXCEPT !.count = 0]

\* The price p ranks before the price q: bids descend, asks ascend.
Before(p, q, descending) == IF descending THEN p > q ELSE p < q

\* What the binary search of the standard library finds in a sorted slice:
\* the first live level that does not rank before the price.
SearchIndex(side, price, descending) ==
  CHOOSE k \in 0 .. side.count :
    /\ \A i \in 0 .. k - 1 : Before(side.levels[i].price, price, descending)
    /\ k < side.count => ~ Before(side.levels[k].price, price, descending)

\* Mutant: the slice is not cut at count.
TracksStale(side, price, descending) ==
  LET idx == SearchIndex(side, price, descending)
  IN  idx < MaxLevels /\ side.levels[idx].price = price

\* The search returned Ok.
Tracks(side, price, descending) ==
  LET idx == SearchIndex(side, price, descending)
  IN  idx < side.count /\ side.levels[idx].price = price

\* Nothing here keeps a write inside the array: the levels after it are those of
\* the array and of whatever was written beside it, which IsSide does not allow.
Put(levels, idx, level) ==
  [i \in DOMAIN levels \cup {idx} |-> IF i = idx THEN level ELSE levels[i]]

\* Mutant: one level too few is moved out of the way.
MoveUpOneShort(levels, idx, n) ==
  [i \in Indices |-> IF i \in idx + 1 .. idx + n - 1 THEN levels[i - 1] ELSE levels[i]]

\* Mutant: one level too many is moved, past the end of a side about to be full.
MoveUpOneLong(levels, idx, n) ==
  [i \in Indices \cup idx + 1 .. idx + n + 1 |->
     IF i \in idx + 1 .. idx + n + 1 THEN levels[i - 1] ELSE levels[i]]

\* The two memmoves: n levels from idx one place up, and n levels to idx one
\* place down.
MoveUp(levels, idx, n) ==
  [i \in Indices \cup idx + 1 .. idx + n |->
     IF i \in idx + 1 .. idx + n THEN levels[i - 1] ELSE levels[i]]
MoveDown(levels, idx, n) ==
  [i \in Indices \cup idx .. idx + n - 1 |->
     IF i \in idx .. idx + n - 1 THEN levels[i + 1] ELSE levels[i]]

\* Mutant: the gap is closed one level too far down.
RemoveNext(side, idx) ==
  [count |-> side.count - 1,
   levels |-> MoveDown(side.levels, idx + 1, side.count - 2 - idx)]

Remove(side, idx) ==
  [count |-> side.count - 1,
   levels |-> MoveDown(side.levels, idx, side.count - 1 - idx)]

\* Mutant: a full side takes the level in place of the one it beats.
InsertOverwriting(side, idx, level) ==
  IF side.count < MaxLevels
    THEN [side |-> [count |-> side.count + 1,
                    levels |-> Put(MoveUp(side.levels, idx, side.count - idx),
                                   idx, level)],
          result |-> "Inserted"]
  ELSE IF idx < MaxLevels
    THEN [side |-> [side EXCEPT !.levels = Put(side.levels, idx, level)],
          result |-> "InsertedEvicted"]
  ELSE [side |-> side, result |-> "Discarded"]

\* Room, a level to evict, or worse than everything tracked.
Insert(side, idx, level) ==
  IF side.count < MaxLevels
    THEN [side |-> [count |-> side.count + 1,
                    levels |-> Put(MoveUp(side.levels, idx, side.count - idx),
                                   idx, level)],
          result |-> "Inserted"]
  ELSE IF idx < MaxLevels
    THEN [side |-> [side EXCEPT !.levels =
                      Put(MoveUp(side.levels, idx, MaxLevels - idx - 1), idx, level)],
          result |-> "InsertedEvicted"]
  ELSE [side |-> side, result |-> "Discarded"]

\* apply_delta: a quantity of zero cancels, any other sets.
ApplyDelta(side, price, qty, descending) ==
  LET idx == SearchIndex(side, price, descending)
      tracked == Tracks(side, price, descending)
  IN  IF qty = 0
        THEN IF tracked
               THEN [side |-> Remove(side, idx), result |-> "Removed"]
               ELSE [side |-> side, result |-> "NoOp"]
        ELSE IF tracked
               THEN [side |-> [side EXCEPT !.levels =
                                 Put(side.levels, idx,
                                     [side.levels[idx] EXCEPT !.qty = qty])],
                     result |-> "Updated"]
               ELSE Insert(side, idx, Level(price, qty))

DeltaResults ==
  {"Updated", "Inserted", "Removed", "InsertedEvicted", "NoOp", "Discarded"}

------------------------------------------------------------------------------
(***************************************************************************)
(* What a well-formed side is, and the levels a reader of it sees.         *)
(***************************************************************************)
AnyLevels == [price : Prices, qty : Qtys] \cup {EmptyLevel}

AnySide == [count : 0 .. MaxLevels, levels : [Indices -> AnyLevels]]

IsSide(side) == side \in AnySide

\* Best price first, no price twice, and no level that should be gone.
IsSorted(side, descending) ==
  /\ \A i \in 0 .. side.count - 1 :
       side.levels[i].price \in Prices /\ side.levels[i].qty > 0
  /\ \A i, j \in 0 .. side.count - 1 :
       i < j => Before(side.levels[i].price, side.levels[j].price, descending)

Levels(side) == {side.levels[i] : i \in 0 .. side.count - 1}

=============================================================================
