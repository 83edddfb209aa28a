---------------------------- MODULE BoundedQueue ----------------------------
(***************************************************************************)
(* What the ring of src/ring_buffer.rs promises to the two threads that    *)
(* share it: a first-in first-out queue of at most Capacity ticks.  A      *)
(* publish is either accepted, at the tail, or refused, and it is refused  *)
(* only at a moment at which the queue is full.  A take yields the oldest  *)
(* accepted tick.  Nothing accepted is lost, duplicated or reordered.      *)
(*                                                                         *)
(* Every action is atomic here.  Module SpscDisruptor implements it with   *)
(* several memory accesses per call.                                       *)
(***************************************************************************)
EXTENDS Integers, Sequences

CONSTANTS
  Ticks,      \* the ticks a producer may publish
  NoTick,     \* "nothing delivered yet"
  Capacity,   \* the number of slots
  Wrap        \* counters are unsigned and wrap at this value

VARIABLES
  queue,      \* accepted and not yet taken, oldest first
  out,        \* the tick the consumer took last
  refusals    \* refused publishes, modulo Wrap

vars == <<queue, out, refusals>>

Init ==
  /\ queue = << >>
  /\ out = NoTick
  /\ refusals = 0

\* Mutant: a publish into a full ring is accepted.
PublishUnchecked(t) ==
  /\ queue' = Append(queue, t)
  /\ UNCHANGED <<out, refusals>>

Publish(t) ==
  /\ Len(queue) < Capacity
  /\ queue' = Append(queue, t)
  /\ UNCHANGED <<out, refusals>>

Refuse ==
  /\ Len(queue) = Capacity
  /\ refusals' = (refusals + 1) % Wrap
  /\ UNCHANGED <<queue, out>>

\* Mutant: the newest tick is taken first.
TakeNewest ==
  /\ queue # << >>
  /\ out' = queue[Len(queue)]
  /\ queue' = SubSeq(queue, 1, Len(queue) - 1)
  /\ UNCHANGED refusals

Take ==
  /\ queue # << >>
  /\ out' = Head(queue)
  /\ queue' = Tail(queue)
  /\ UNCHANGED refusals

Next ==
  \/ \E t \in Ticks : Publish(t)
  \/ Refuse
  \/ Take

Spec == Init /\ [][Next]_vars

\* The consumer keeps taking while there is something to take.
FairSpec == Spec /\ WF_vars(Take)

=============================================================================
