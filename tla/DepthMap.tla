------------------------------- MODULE DepthMap -------------------------------
(***************************************************************************)
(* What one side of the book promises, with no array in sight: a set of    *)
(* levels, at most one per price and at most MaxLevels of them, that       *)
(* follows the deltas and keeps the best prices when there are too many.   *)
(* It is the reference model of tests/proptest_book_side.rs, fed with the  *)
(* same calls: the arguments of a call are part of the state, and so is a  *)
(* turn that alternates, so that no call can pass for a stuttering step.   *)
(***************************************************************************)
EXTENDS Integers, FiniteSets

CONSTANTS MaxLevels, Prices, Qtys

VARIABLES
  depth,      \* the levels
  descending, \* bids or asks, fixed for the life of the side
  args,       \* the price and the quantity of the last delta, none of a clear
  result,     \* what the last delta did
  turn        \* 0 or 1

vars == <<depth, descending, args, result, turn>>

Level(price, qty) == [price |-> price, qty |-> qty]
Before(p, q) == IF descending THEN p > q ELSE p < q

Init ==
  /\ depth = {}
  /\ descending \in BOOLEAN
  /\ args = << >>
  /\ result = "NoOp"
  /\ turn = 0

Others(price) == {level \in depth : level.price # price}
Tracked(price) == Others(price) # depth
IsWorst(level, levels) ==
  \A other \in levels \ {level} : Before(other.price, level.price)

Update(price, qty) ==
  /\ Tracked(price)
  /\ depth' = Others(price) \cup {Level(price, qty)}
  /\ result' = "Updated"

Extend(price, qty) ==
  /\ ~ Tracked(price)
  /\ Cardinality(depth) < MaxLevels
  /\ depth' = depth \cup {Level(price, qty)}
  /\ result' = "Inserted"

\* A full side gives up its worst level, which may be the new one.
Overflow(price, qty) ==
  /\ ~ Tracked(price)
  /\ Cardinality(depth) = MaxLevels
  /\ LET all == depth \cup {Level(price, qty)}
     IN  \E worst \in all :
           /\ IsWorst(worst, all)
           /\ depth' = all \ {worst}
           /\ result' = IF worst = Level(price, qty) THEN "Discarded"
                                                    ELSE "InsertedEvicted"

Cancel(price) ==
  /\ depth' = Others(price)
  /\ result' = IF Tracked(price) THEN "Removed" ELSE "NoOp"

\* One call with a price and a quantity acts on that price and that quantity.
Delta(price, qty) ==
  /\ args' = <<price, qty>>
  /\ \/ qty = 0 /\ Cancel(price)
     \/ qty # 0 /\ (Update(price, qty) \/ Extend(price, qty) \/ Overflow(price, qty))

Forget == args' = << >> /\ depth' = {} /\ UNCHANGED result

Next ==
  /\ turn' = 1 - turn
  /\ UNCHANGED descending
  /\ (\E price \in Prices, qty \in Qtys : Delta(price, qty)) \/ Forget

Spec == Init /\ [][Next]_vars

=============================================================================
