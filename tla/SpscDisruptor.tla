---------------------------- MODULE SpscDisruptor ----------------------------
(***************************************************************************)
(* The lock-free ring of src/ring_buffer.rs: one producer thread calls     *)
(* try_publish, one consumer thread calls try_consume, and each slot       *)
(* carries its own handshake counter.  Each action is one shared-memory    *)
(* access of a call, so TLC interleaves the two calls at every access.     *)
(*                                                                         *)
(* Shared memory is sequentially consistent here.  Counters and cursors    *)
(* are u64 in the code and wrap: they are numbers modulo Wrap.  A call     *)
(* reads its own cursor with a relaxed load of a location only it writes,  *)
(* which cannot miss a write of its own: that load is not a step.          *)
(***************************************************************************)
EXTENDS Integers, Sequences

CONSTANTS
  RingSize,   \* RING_SIZE: 4096, or 2 in the loom build
  Wrap,       \* 2^64 in the code
  Ticks,      \* the ticks the producer may offer
  NoTick      \* a slot that was never written, a result that is None

\* The code asserts that RING_SIZE is a power of two.  What the protocol needs
\* is weaker in one way (any divisor of the wrap-around will do) and stronger
\* in another: with one slot "readable" and "writable again" are the same
\* number, so the ring needs two.
ASSUME RingAssumption ==
  /\ RingSize \in Nat /\ RingSize >= 2
  /\ Wrap \in Nat /\ Wrap > RingSize /\ Wrap % RingSize = 0
  /\ NoTick \notin Ticks

VARIABLES
  node,       \* the handshake counter of each slot
  cell,       \* the tick stored in each slot
  producer,   \* the producer's cursor
  consumer,   \* the consumer's cursor
  dropped,    \* refused publishes
  pcP,        \* where the producer thread is inside try_publish
  offer,      \* the argument of try_publish
  pcC,        \* where the consumer thread is inside try_consume
  tick,       \* the local copy try_consume makes of the slot's tick
  delivered   \* what the last successful try_consume returned

producerVars == <<producer, dropped, pcP, offer>>
consumerVars == <<consumer, pcC, tick, delivered>>
vars == <<node, cell, producerVars, consumerVars>>

Slots == 0 .. RingSize - 1
Counters == 0 .. Wrap - 1

\* Mutant: + in place of wrapping_add.
PlainAdd(a, b) == a + b

WrappingAdd(a, b) == (a + b) % Wrap
Slot(cursor) == cursor % RingSize

Init ==
  /\ node = [s \in Slots |-> s]
  /\ cell = [s \in Slots |-> NoTick]
  /\ producer = 0
  /\ consumer = 0
  /\ dropped = 0
  /\ pcP = "idle"
  /\ offer = NoTick
  /\ pcC = "poll"
  /\ tick = NoTick
  /\ delivered = NoTick

------------------------------------------------------------------------------
(***************************************************************************)
(* try_publish, and what its caller does with a refusal.                   *)
(***************************************************************************)

Offer(t) ==
  /\ pcP = "idle"
  /\ offer' = t
  /\ pcP' = "check"
  /\ UNCHANGED <<node, cell, producer, dropped, consumerVars>>

Writable == node[Slot(producer)] = producer

\* Mutant: the handshake counter is not checked.
WriteUnchecked ==
  /\ pcP = "check"
  /\ pcP' = "write"
  /\ UNCHANGED <<node, cell, producer, dropped, offer, consumerVars>>

\* Mutant: the slot is published before its tick is written.
PublishEarly ==
  /\ pcP = "check"
  /\ pcP' = IF Writable THEN "write" ELSE "count"
  /\ node' = IF Writable
               THEN [node EXCEPT ![Slot(producer)] = WrappingAdd(producer, 1)]
               ELSE node
  /\ UNCHANGED <<cell, producer, dropped, offer, consumerVars>>

CheckWritable ==
  /\ pcP = "check"
  /\ pcP' = IF Writable THEN "write" ELSE "count"
  /\ UNCHANGED <<node, cell, producer, dropped, offer, consumerVars>>

CountDrop ==
  /\ pcP = "count"
  /\ dropped' = WrappingAdd(dropped, 1)
  /\ pcP' = "refused"
  /\ UNCHANGED <<node, cell, producer, offer, consumerVars>>

WriteTick ==
  /\ pcP = "write"
  /\ cell' = [cell EXCEPT ![Slot(producer)] = offer]
  /\ pcP' = "commit"
  /\ UNCHANGED <<node, producer, dropped, offer, consumerVars>>

Commit ==
  /\ pcP = "commit"
  /\ node' = [node EXCEPT ![Slot(producer)] = WrappingAdd(producer, 1)]
  /\ pcP' = "advance"
  /\ UNCHANGED <<cell, producer, dropped, offer, consumerVars>>

AdvanceProducer ==
  /\ pcP = "advance"
  /\ producer' = WrappingAdd(producer, 1)
  /\ pcP' = "idle"
  /\ offer' = NoTick
  /\ UNCHANGED <<node, cell, dropped, consumerVars>>

\* "Caller decides whether to spin, drop, or panic": spin ...
Retry ==
  /\ pcP = "refused"
  /\ pcP' = "check"
  /\ UNCHANGED <<node, cell, producer, dropped, offer, consumerVars>>

\* ... or drop.
GiveUp ==
  /\ pcP = "refused"
  /\ pcP' = "idle"
  /\ offer' = NoTick
  /\ UNCHANGED <<node, cell, producer, dropped, consumerVars>>

------------------------------------------------------------------------------
(***************************************************************************)
(* try_consume.  A poll that finds the slot unpublished returns None and   *)
(* changes nothing.                                                        *)
(***************************************************************************)

\* Mutant: one tick is always left in the ring.
ReadableWithMargin ==
  /\ node[Slot(consumer)] = WrappingAdd(consumer, 1)
  /\ (producer - consumer) % Wrap > 1

Readable == node[Slot(consumer)] = WrappingAdd(consumer, 1)

\* Mutant: the slot is released before its tick is copied out.
ReleaseEarly ==
  /\ pcC = "poll"
  /\ Readable
  /\ node' = [node EXCEPT ![Slot(consumer)] = WrappingAdd(consumer, RingSize)]
  /\ pcC' = "read"
  /\ UNCHANGED <<cell, producerVars, consumer, tick, delivered>>

CheckReadable ==
  /\ pcC = "poll"
  /\ Readable
  /\ pcC' = "read"
  /\ UNCHANGED <<node, cell, producerVars, consumer, tick, delivered>>

ReadTick ==
  /\ pcC = "read"
  /\ tick' = cell[Slot(consumer)]
  /\ pcC' = "release"
  /\ UNCHANGED <<node, cell, producerVars, consumer, delivered>>

\* Mutant: the slot is not handed to the next round of the producer.
ReleaseSameRound ==
  /\ pcC = "release"
  /\ node' = [node EXCEPT ![Slot(consumer)] = WrappingAdd(consumer, 1)]
  /\ pcC' = "advance"
  /\ UNCHANGED <<cell, producerVars, consumer, tick, delivered>>

Release ==
  /\ pcC = "release"
  /\ node' = [node EXCEPT ![Slot(consumer)] = WrappingAdd(consumer, RingSize)]
  /\ pcC' = "advance"
  /\ UNCHANGED <<cell, producerVars, consumer, tick, delivered>>

AdvanceConsumer ==
  /\ pcC = "advance"
  /\ consumer' = WrappingAdd(consumer, 1)
  /\ delivered' = tick
  /\ tick' = NoTick
  /\ pcC' = "poll"
  /\ UNCHANGED <<node, cell, producerVars>>

------------------------------------------------------------------------------
TryPublish == CheckWritable \/ CountDrop \/ WriteTick \/ Commit \/ AdvanceProducer
TryConsume == CheckReadable \/ ReadTick \/ Release \/ AdvanceConsumer

Next ==
  \/ \E t \in Ticks : Offer(t)
  \/ TryPublish
  \/ Retry
  \/ GiveUp
  \/ TryConsume

Spec == Init /\ [][Next]_vars

(***************************************************************************)
(* Both threads run.  Nothing forces the producer to offer a tick, or to   *)
(* retry rather than give up.                                              *)
(***************************************************************************)
Fairness == WF_vars(TryPublish) /\ WF_vars(TryConsume)
FairSpec == Spec /\ Fairness

------------------------------------------------------------------------------
(***************************************************************************)
(* The queue the two threads see.  A publish takes effect when it stores   *)
(* the handshake counter, a take when it releases the slot; both cursors   *)
(* lag behind by the one step that follows.                                *)
(***************************************************************************)
Filled == IF pcP = "advance" THEN WrappingAdd(producer, 1) ELSE producer
Freed == IF pcC = "advance" THEN WrappingAdd(consumer, 1) ELSE consumer
Occupancy == (Filled - Freed) % Wrap
Queue == [i \in 1 .. Occupancy |-> cell[Slot(Freed + i - 1)]]

Fifo == INSTANCE BoundedQueue WITH
  Capacity <- RingSize,
  queue <- Queue,
  out <- IF pcC = "advance" THEN tick ELSE delivered,
  refusals <- IF pcP = "count" THEN WrappingAdd(dropped, 1) ELSE dropped

------------------------------------------------------------------------------
TypeOK ==
  /\ node \in [Slots -> Counters]
  /\ cell \in [Slots -> Ticks \cup {NoTick}]
  /\ producer \in Counters
  /\ consumer \in Counters
  /\ dropped \in Counters
  /\ pcP \in {"idle", "check", "count", "refused", "write", "commit", "advance"}
  /\ offer \in Ticks \cup {NoTick}
  /\ pcC \in {"poll", "read", "release", "advance"}
  /\ tick \in Ticks \cup {NoTick}
  /\ delivered \in Ticks \cup {NoTick}

\* The tick of a slot is plain memory that both threads access through an
\* UnsafeCell ("never the same slot at once", the Sync impl promises): while
\* the producer writes a slot the consumer is not reading that slot.
NoSharedSlot ==
  ~ (pcP = "write" /\ pcC = "read" /\ Slot(producer) = Slot(consumer))

\* The slot lifecycle of the header comment, for every slot at every moment and
\* across the wrap of the counters: a slot that holds a queued tick is
\* readable, every other slot is writable, and no slot looks like both.
SlotLifecycle ==
  \A d \in Slots :
    node[Slot(Freed + d)] =
      IF d < Occupancy THEN WrappingAdd(Freed, d + 1) ELSE WrappingAdd(Freed, d)

(***************************************************************************)
(* The inductive invariant.  Beside the lifecycle of the slots it says     *)
(* what each thread has learnt where it is inside its call: a producer     *)
(* past its check has a free slot, a consumer past its check has a queued  *)
(* tick, and the tick each of them handles is the one in the slot.         *)
(***************************************************************************)
ProducerKnows ==
  /\ pcP \in {"write", "commit"} => Occupancy < RingSize
  /\ pcP \in {"check", "count", "refused", "write", "commit"} => offer \in Ticks
  /\ pcP = "commit" => cell[Slot(producer)] = offer

ConsumerKnows ==
  /\ pcC \in {"read", "release"} => Occupancy > 0
  /\ pcC = "release" => tick = cell[Slot(consumer)]

QueueHoldsTicks ==
  \A d \in Slots : d < Occupancy => cell[Slot(Freed + d)] \in Ticks

IInv ==
  /\ TypeOK
  /\ Occupancy \in 0 .. RingSize
  /\ SlotLifecycle
  /\ ProducerKnows
  /\ ConsumerKnows
  /\ QueueHoldsTicks

\* try_consume and try_publish between them implement the bounded queue: no
\* tick is lost, duplicated, reordered or overwritten, a publish is refused
\* only at a moment at which the ring is full, and dropped_count() counts
\* exactly the refusals.
IsBoundedQueue == Fifo!Spec

\* With a consumer that keeps polling, the queue keeps moving.
IsFairQueue == Fifo!FairSpec

\* A producer that from some moment on spins, as both loom tests do, and never
\* gives a tick up, gets every tick through: each of its calls ends, and it can
\* end no other way than with the tick in the ring.
SpinnerGetsThrough ==
  <>[][~ GiveUp]_vars /\ WF_vars(Retry) => []<>(pcP = "idle")

==============================================================================
