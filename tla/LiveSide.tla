------------------------------- MODULE LiveSide -------------------------------
(***************************************************************************)
(* A side of the book in use: any sequence of deltas and clears, as bids   *)
(* or as asks.  It implements DepthMap, call by call.                      *)
(***************************************************************************)
EXTENDS BookSide

VARIABLES
  live,       \* the side
  asBids,     \* descending: the flag its owner passes with every delta
  outcome,    \* what the last delta returned
  args,       \* history: the price and quantity of the last delta, none of a clear
  turn        \* history: alternates from call to call

sideVars == <<live, asBids, outcome, args, turn>>

SideInit ==
  /\ live = NewSide
  /\ asBids \in BOOLEAN
  /\ outcome = "NoOp"
  /\ args = << >>
  /\ turn = 0

Delta(price, qty) ==
  /\ LET applied == ApplyDelta(live, price, qty, asBids)
     IN  live' = applied.side /\ outcome' = applied.result
  /\ args' = <<price, qty>>
  /\ turn' = 1 - turn
  /\ UNCHANGED asBids

ClearSide ==
  /\ live' = Clear(live)
  /\ args' = << >>
  /\ turn' = 1 - turn
  /\ UNCHANGED <<asBids, outcome>>

SideNext == (\E price \in Prices, qty \in Qtys : Delta(price, qty)) \/ ClearSide

SideSpec == SideInit /\ [][SideNext]_sideVars

------------------------------------------------------------------------------
\* The two memmoves, the insertion and the update write inside the array, and
\* all that is in it, live or stale, is a level.
SideTypeOK ==
  /\ IsSide(live)
  /\ asBids \in BOOLEAN
  /\ outcome \in DeltaResults

\* "bids: sorted descending. asks: ascending", through every memmove, eviction
\* and clear, with no price twice and no cancelled level left behind.
Sorted == IsSorted(live, asBids)

\* Each call of apply_delta or clear, memmoves and stale data and all, does to
\* the levels a reader sees what the reference model does to a set of levels
\* when it is called with the same price and quantity, and returns what that
\* amounts to.  No call is a stutter, because of turn.
Depth == INSTANCE DepthMap WITH
           depth <- Levels(live), descending <- asBids, result <- outcome
IsDepthMap == Depth!Spec

===============================================================================
