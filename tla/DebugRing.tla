------------------------------- MODULE DebugRing -------------------------------
(***************************************************************************)
(* The ring as a debug build runs it, with threads that keep no contract:  *)
(* any thread calls try_publish or try_consume at any time.  The canary    *)
(* of module ThreadCanary stands in front of the accesses of module        *)
(* SpscDisruptor, whose actions are taken here by whichever thread the     *)
(* canary let in, with that thread's own local variables.                  *)
(*                                                                         *)
(* The last access of a call and its return are one step.                  *)
(***************************************************************************)
EXTENDS ThreadCanary

CONSTANTS RingSize, Wrap, Ticks, NoTick   \* as in SpscDisruptor

\* As RingAssumption there.
ASSUME DebugRingAssumption ==
  /\ RingSize \in Nat /\ RingSize >= 2
  /\ Wrap \in Nat /\ Wrap > RingSize /\ Wrap % RingSize = 0
  /\ NoTick \notin Ticks

VARIABLES
  node, cell, producer, consumer, dropped, delivered,   \* as in SpscDisruptor
  local       \* the local variables of each thread: pcP and offer in
              \* try_publish, pcC and tick in try_consume

ringVars == <<node, cell, producer, consumer, dropped, delivered, local>>
vars == <<canaryVars, ringVars>>

\* The ring as thread t runs it ...
Ring(t) == INSTANCE SpscDisruptor WITH
  pcP <- local[t].pcP, offer <- local[t].offer,
  pcC <- local[t].pcC, tick <- local[t].tick

\* ... and the ring with one thread a role, the one that claimed it.
Owner(r) == claimed[r]
Spsc == INSTANCE SpscDisruptor WITH
  pcP <- IF Owner("producer") = NoThread THEN "idle" ELSE local[Owner("producer")].pcP,
  offer <- IF Owner("producer") = NoThread THEN NoTick ELSE local[Owner("producer")].offer,
  pcC <- IF Owner("consumer") = NoThread THEN "poll" ELSE local[Owner("consumer")].pcC,
  tick <- IF Owner("consumer") = NoThread THEN NoTick ELSE local[Owner("consumer")].tick

OutsideCalls == [pcP |-> "idle", offer |-> NoTick, pcC |-> "poll", tick |-> NoTick]

Init ==
  /\ CanaryInit
  /\ local = [t \in Threads |-> OutsideCalls]
  /\ Spsc!Init

\* Only thread t's own local variables change.
MovesProducer(t) ==
  \E pcP \in {"idle", "check", "count", "refused", "write", "commit", "advance"},
     offer \in Ticks \cup {NoTick} :
    local' = [local EXCEPT ![t] = [@ EXCEPT !.pcP = pcP, !.offer = offer]]

MovesConsumer(t) ==
  \E pcC \in {"poll", "read", "release", "advance"}, tick \in Ticks \cup {NoTick} :
    local' = [local EXCEPT ![t] = [@ EXCEPT !.pcC = pcC, !.tick = tick]]

Inside(t, r) == pc[t] = "inside" /\ role[t] = r

------------------------------------------------------------------------------
Enter(t) ==
  /\ \/ \E r \in Roles : Lock(t, r)
     \/ EndCheck(t)
  /\ UNCHANGED ringVars

\* try_publish past its canary: a tick offered for the first time or again, and
\* the accesses up to the last.
PublishStep(t) ==
  /\ Inside(t, "producer")
  /\ MovesProducer(t)
  /\ \/ \E x \in Ticks : Ring(t)!Offer(x)
     \/ Ring(t)!Retry
     \/ Ring(t)!CheckWritable
     \/ Ring(t)!WriteTick
     \/ Ring(t)!Commit
  /\ UNCHANGED canaryVars

EndPublish(t) ==
  /\ Inside(t, "producer")
  /\ MovesProducer(t)
  /\ Ring(t)!CountDrop \/ Ring(t)!AdvanceProducer
  /\ Return(t)

\* The caller drops the tick that was refused.
GiveUp(t) ==
  /\ pc[t] = "outside"
  /\ MovesProducer(t)
  /\ Ring(t)!GiveUp
  /\ UNCHANGED canaryVars

ConsumeStep(t) ==
  /\ Inside(t, "consumer")
  /\ MovesConsumer(t)
  /\ Ring(t)!CheckReadable \/ Ring(t)!ReadTick \/ Ring(t)!Release
  /\ UNCHANGED canaryVars

EndConsume(t) ==
  /\ Inside(t, "consumer")
  /\ MovesConsumer(t)
  /\ Ring(t)!AdvanceConsumer
  /\ Return(t)

\* try_consume finds nothing.
FindNone(t) ==
  /\ Inside(t, "consumer")
  /\ local[t].pcC = "poll"
  /\ ~ Ring(t)!Readable
  /\ Return(t)
  /\ UNCHANGED ringVars

Call(t) ==
  PublishStep(t) \/ EndPublish(t) \/ ConsumeStep(t) \/ EndConsume(t) \/ FindNone(t)

Next == \E t \in Threads : Enter(t) \/ Call(t) \/ GiveUp(t)

\* A thread inside the check goes on; none is obliged to call.
Spec == Init /\ [][Next]_vars /\ \A t \in Threads : WF_vars(EndCheck(t) /\ UNCHANGED ringVars)

------------------------------------------------------------------------------
TypeOK ==
  /\ CanaryTypeOK
  /\ Spsc!TypeOK
  /\ DOMAIN local = Threads

\* "Quietly corrupts the ring" is what the canary is there to prevent: however
\* many threads call, what they do to the ring is what one producer thread and
\* one consumer thread do, every other thread leaving it alone.  All that is
\* shown of SpscDisruptor is thereby shown of a debug build that breaks the
\* contract.
IsRing == Spsc!Spec

==============================================================================
