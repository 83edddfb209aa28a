------------------------- MODULE SpscDisruptorProofs -------------------------
(***************************************************************************)
(* For every ring size and every wrap-around: the inductive invariant of   *)
(* SpscDisruptor, the exclusion of the two threads from each other's slot, *)
(* the refinement of the bounded queue, and what pending() returns while   *)
(* the two threads run.                                                    *)
(***************************************************************************)
EXTENDS RingGauges, SequenceTheorems, TLAPS

(***************************************************************************)
(* Arithmetic modulo n for every n: the facts that wrapping cursors and    *)
(* slot indices rest on.                                                   *)
(***************************************************************************)

\* Division with remainder: the step from % and \div to plain arithmetic.
LEMMA DivisionWithRemainder ==
  ASSUME NEW a \in Int, NEW n \in Nat, n > 0
  PROVE  /\ a % n \in 0 .. n - 1
         /\ a \div n \in Int
         /\ a = n * (a \div n) + (a % n)
  OBVIOUS

\* A positive multiple of n is at least n.
LEMMA PositiveMultiple ==
  ASSUME NEW q \in Int, q > 0, NEW n \in Nat, n > 0
  PROVE  n * q >= n
  OBVIOUS

\* The remainder is the only number below n that differs from a by a
\* multiple of n.
LEMMA RemainderUnique ==
  ASSUME NEW n \in Nat, n > 0,
         NEW a \in Int, NEW q \in Int, NEW r \in 0 .. n - 1,
         a = n * q + r
  PROVE  a % n = r
<1> DEFINE d == (a \div n) - q
<1>1. d \in Int /\ n * d = r - (a % n)
  BY DivisionWithRemainder
<1> HIDE DEF d
<1>2. ~ (d > 0) /\ ~ (d < 0)
  <2>1. d > 0 => n * d >= n
    BY <1>1
  <2>2. d < 0 => n * d <= - n
    BY <1>1
  <2> QED
    BY <1>1, <2>1, <2>2, DivisionWithRemainder
<1> QED
  BY <1>1, <1>2, DivisionWithRemainder

\* A number below n is its own remainder.
LEMMA SmallRemainder ==
  ASSUME NEW n \in Nat, n > 0, NEW r \in 0 .. n - 1
  PROVE  r % n = r
  BY RemainderUnique, r = n * 0 + r

\* Adding multiples of n does not change the remainder.
LEMMA AddMultiple ==
  ASSUME NEW n \in Nat, n > 0, NEW a \in Int, NEW m \in Int
  PROVE  (a + n * m) % n = a % n
<1> DEFINE r == a % n
           q == a \div n
<1>1. r \in 0 .. n - 1 /\ q \in Int /\ a = n * q + r
  BY DivisionWithRemainder
<1> HIDE DEF r, q
<1>2. /\ a + n * m \in Int
      /\ q + m \in Int
      /\ a + n * m = n * (q + m) + r
  BY <1>1
<1>3. (a + n * m) % n = r
  BY <1>1, <1>2, RemainderUnique
<1> QED
  BY <1>3 DEF r

\* A remainder taken first does not matter for a later sum.
LEMMA RemainderOfSum ==
  ASSUME NEW n \in Nat, n > 0, NEW a \in Int, NEW b \in Int
  PROVE  ((a % n) + b) % n = (a + b) % n
<1>1. /\ a % n \in 0 .. n - 1
      /\ a \div n \in Int
      /\ a = n * (a \div n) + (a % n)
  BY DivisionWithRemainder
<1>2. (a % n) + b \in Int /\ a + b = ((a % n) + b) + n * (a \div n)
  BY <1>1
<1> QED
  BY <1>1, <1>2, AddMultiple

\* Nor does a remainder modulo a multiple of n.
LEMMA RemainderOfRemainder ==
  ASSUME NEW n \in Nat, n > 0, NEW w \in Nat, w > 0, w % n = 0,
         NEW a \in Int
  PROVE  (a % w) % n = a % n
<1> DEFINE r == a % w
           m == (w \div n) * (a \div w)
<1>1. r \in Int /\ a \div w \in Int /\ a = w * (a \div w) + r
  BY DivisionWithRemainder
<1>2. w \div n \in Int /\ w = n * (w \div n)
  BY DivisionWithRemainder
<1>3. m \in Int /\ w * (a \div w) = n * m
  BY <1>1, <1>2
<1> HIDE DEF r, m
<1>4. a = r + n * m
  BY <1>1, <1>3
<1>5. (r + n * m) % n = r % n
  BY <1>1, <1>3, AddMultiple
<1> QED
  BY <1>4, <1>5 DEF r

\* Two numbers less than n apart have different remainders.
LEMMA CloseNumbersDiffer ==
  ASSUME NEW n \in Nat, n > 0, NEW a \in Int,
         NEW i \in 0 .. n - 1, NEW j \in 0 .. n - 1,
         (a + i) % n = (a + j) % n
  PROVE  i = j
<1> DEFINE r == (a + i) % n
           p == (a + i) \div n
           q == (a + j) \div n
<1>1. /\ p \in Int /\ q \in Int /\ r \in 0 .. n - 1
      /\ a + i = n * p + r
      /\ a + j = n * q + r
  BY DivisionWithRemainder
<1> HIDE DEF r, p, q
<1>2. CASE p > q
  <2>1. n * (p - q) = i - j
    BY <1>1
  <2> QED
    BY <1>1, <1>2, <2>1, PositiveMultiple
<1>3. CASE p < q
  <2>1. n * (q - p) = j - i
    BY <1>1
  <2> QED
    BY <1>1, <1>3, <2>1, PositiveMultiple
<1>4. CASE p = q
  BY <1>1, <1>4
<1> QED
  BY <1>1, <1>2, <1>3, <1>4

------------------------------------------------------------------------------

\* What RingAssumption says of the two moduli.
LEMMA Moduli ==
  /\ RingSize \in Nat /\ RingSize > 1
  /\ Wrap \in Nat /\ Wrap > RingSize /\ Wrap % RingSize = 0
  /\ NoTick \notin Ticks
  BY RingAssumption

------------------------------------------------------------------------------
(***************************************************************************)
(* Cursors and slots.                                                      *)
(***************************************************************************)

\* & MASK selects an existing node.
LEMMA SlotType ==
  ASSUME NEW a \in Int
  PROVE  Slot(a) \in Slots
  BY Moduli, DivisionWithRemainder DEF Slot, Slots

\* wrapping_add returns a counter.
LEMMA WrapType ==
  ASSUME NEW a \in Int, NEW b \in Int
  PROVE  WrappingAdd(a, b) \in Counters
  BY Moduli, a + b \in Int, DivisionWithRemainder DEF WrappingAdd, Counters

\* A wrapped cursor selects the slot the unwrapped one would.
LEMMA SlotOfWrapped ==
  ASSUME NEW a \in Int, NEW b \in Int, NEW c \in Int
  PROVE  Slot(WrappingAdd(a, b) + c) = Slot(a + b + c)
<1> DEFINE s == a + b
           w == s % Wrap
<1>1. /\ s \in Int /\ w \in Int
      /\ RingSize \in Nat /\ RingSize > 0
      /\ Wrap \in Nat /\ Wrap > 0 /\ Wrap % RingSize = 0
  BY Moduli, DivisionWithRemainder
<1> HIDE DEF s
<1>2. w % RingSize = s % RingSize
  BY <1>1, RemainderOfRemainder, Zenon
<1> HIDE DEF w
<1>3. ((w % RingSize) + c) % RingSize = (w + c) % RingSize
  BY <1>1, RemainderOfSum, Zenon
<1>4. ((s % RingSize) + c) % RingSize = (s + c) % RingSize
  BY <1>1, RemainderOfSum, Zenon
<1>5. (w + c) % RingSize = (s + c) % RingSize
  BY <1>2, <1>3, <1>4, Zenon
<1> QED
  BY <1>5, Zenon DEF Slot, WrappingAdd, s, w

\* Additions to a cursor may be wrapped one by one or all at once.
LEMMA WrapOfWrapped ==
  ASSUME NEW a \in Int, NEW b \in Int, NEW c \in Int
  PROVE  WrappingAdd(WrappingAdd(a, b), c) = WrappingAdd(a, b + c)
<1>1. a + b \in Int /\ Wrap \in Nat /\ Wrap > 0 /\ (a + b) + c = a + (b + c)
  BY Moduli
<1>2. (((a + b) % Wrap) + c) % Wrap = ((a + b) + c) % Wrap
  BY <1>1, RemainderOfSum, Zenon
<1> QED
  BY <1>1, <1>2, Zenon DEF WrappingAdd

\* Adding nothing to a counter leaves it as it is.
LEMMA WrapZero ==
  ASSUME NEW a \in Counters
  PROVE  WrappingAdd(a, 0) = a
<1>1. Wrap \in Nat /\ Wrap > 0 /\ a \in 0 .. Wrap - 1 /\ a + 0 = a
  BY Moduli DEF Counters
<1>2. a % Wrap = a
  BY <1>1, SmallRemainder, Zenon
<1> QED
  BY <1>1, <1>2, Zenon DEF WrappingAdd

\* The slots ahead of a cursor are different slots.
LEMMA SlotsDiffer ==
  ASSUME NEW a \in Int, NEW i \in Slots, NEW j \in Slots,
         Slot(a + i) = Slot(a + j)
  PROVE  i = j
<1>1. RingSize \in Nat /\ RingSize > 0
  BY Moduli
<1> QED
  BY <1>1, CloseNumbersDiffer, Zenon DEF Slot, Slots

\* The counter values ahead of a cursor are different values.
LEMMA CountersDiffer ==
  ASSUME NEW a \in Int, NEW i \in Counters, NEW j \in Counters,
         WrappingAdd(a, i) = WrappingAdd(a, j)
  PROVE  i = j
<1>1. Wrap \in Nat /\ Wrap > 0
  BY Moduli
<1> QED
  BY <1>1, CloseNumbersDiffer, Zenon DEF WrappingAdd, Counters

\* One round of the ring leads back to the same slot.
LEMMA SlotPeriod ==
  ASSUME NEW a \in Int
  PROVE  Slot(a + RingSize) = Slot(a)
<1>1. RingSize \in Nat /\ RingSize > 0 /\ 1 \in Int /\ RingSize * 1 = RingSize
  BY Moduli
<1>2. (a + RingSize * 1) % RingSize = a % RingSize
  BY <1>1, AddMultiple, Zenon
<1> QED
  BY <1>1, <1>2, Zenon DEF Slot

------------------------------------------------------------------------------
(***************************************************************************)
(* The two ends of the queue.                                              *)
(***************************************************************************)

\* Both ends of the queue, and the distance between them, are counters.
LEMMA PositionTypes ==
  ASSUME TypeOK
  PROVE  /\ Filled \in Counters
         /\ Freed \in Counters
         /\ Occupancy \in Counters
<1>1. /\ producer \in Counters /\ consumer \in Counters
      /\ producer \in Int /\ consumer \in Int
      /\ 0 \in Int /\ 1 \in Int
  BY Moduli DEF TypeOK, Counters
<1>2. Filled \in Counters /\ Freed \in Counters
  BY <1>1, WrapType, Zenon DEF Filled, Freed
<1>3. /\ Wrap \in Nat /\ Wrap > 0 /\ Filled - Freed \in Int
  BY <1>2, Moduli DEF Counters
<1>4. Occupancy \in Counters
  BY <1>3, DivisionWithRemainder, Zenon DEF Occupancy, Counters
<1> QED
  BY <1>2, <1>4

\* The producer's end is as far ahead of the consumer's as there are ticks.
LEMMA FilledFromFreed ==
  ASSUME TypeOK
  PROVE  Filled = WrappingAdd(Freed, Occupancy)
<1>1. /\ Filled \in Counters /\ Freed \in Counters
      /\ Filled \in Int /\ Freed \in Int /\ Occupancy \in Int
      /\ Wrap \in Nat /\ Wrap > 0
  BY PositionTypes, Moduli DEF Counters
<1>2. /\ Filled - Freed \in Int
      /\ (Filled - Freed) + Freed = Filled
      /\ Freed + Occupancy = Occupancy + Freed
  BY <1>1
<1>3. (((Filled - Freed) % Wrap) + Freed) % Wrap = ((Filled - Freed) + Freed) % Wrap
  BY <1>1, <1>2, RemainderOfSum, Zenon
<1>4. Filled % Wrap = Filled
  BY <1>1, SmallRemainder, Zenon DEF Counters
<1> QED
  BY <1>2, <1>3, <1>4, Zenon DEF WrappingAdd, Occupancy

\* The distance between a cursor and that cursor plus k is k.
LEMMA DistanceOf ==
  ASSUME NEW a \in Counters, NEW k \in Counters
  PROVE  (WrappingAdd(a, k) - a) % Wrap = k
<1> DEFINE s == a + k
           w == s % Wrap
<1>1. /\ s \in Int /\ w \in Int /\ -a \in Int
      /\ Wrap \in Nat /\ Wrap > 0 /\ k \in 0 .. Wrap - 1
      /\ s + (-a) = k /\ w - a = w + (-a)
  BY Moduli, DivisionWithRemainder DEF Counters
<1> HIDE DEF s
<1>2. (w + (-a)) % Wrap = (s + (-a)) % Wrap
  BY <1>1, RemainderOfSum, Zenon
<1>3. k % Wrap = k
  BY <1>1, SmallRemainder, Zenon
<1>4. (w - a) % Wrap = k
  BY <1>1, <1>2, <1>3, Zenon
<1> QED
  BY <1>4, Zenon DEF s, WrappingAdd

\* Outside the last step of try_publish the producer's cursor is the end of the
\* queue, and its slot the first free one.
LEMMA ProducerAtEnd ==
  ASSUME TypeOK, pcP # "advance"
  PROVE  /\ producer = WrappingAdd(Freed, Occupancy)
         /\ Slot(producer) = Slot(Freed + Occupancy)
<1>1. Freed \in Int /\ Occupancy \in Int /\ 0 \in Int
      /\ Freed + Occupancy + 0 = Freed + Occupancy
  BY PositionTypes DEF Counters
<1>2. producer = WrappingAdd(Freed, Occupancy) /\ producer + 0 = producer
  BY FilledFromFreed DEF Filled, TypeOK, Counters
<1>3. Slot(WrappingAdd(Freed, Occupancy) + 0) = Slot(Freed + Occupancy + 0)
  BY <1>1, SlotOfWrapped, Zenon
<1> QED
  BY <1>1, <1>2, <1>3

\* Outside the last step of try_consume the consumer's cursor is the front.
LEMMA ConsumerAtFront ==
  ASSUME TypeOK, pcC # "advance"
  PROVE  consumer = Freed
  BY DEF Freed

\* A slot that looks writable to the producer is free.
LEMMA WritableIsFree ==
  ASSUME IInv, pcP # "advance", Writable
  PROVE  Occupancy < RingSize
<1> SUFFICES ASSUME Occupancy = RingSize PROVE FALSE
  BY Moduli DEF IInv
<1>1. /\ Freed \in Counters /\ Freed \in Int
      /\ 0 \in Slots /\ 0 < Occupancy /\ 0 + 1 = 1
      /\ 1 \in Counters /\ RingSize \in Counters /\ RingSize # 1
      /\ Freed + 0 = Freed
  BY Moduli, PositionTypes DEF IInv, Counters, Slots
<1>2. node[Slot(Freed)] = WrappingAdd(Freed, 1)
  BY <1>1, Zenon DEF IInv, SlotLifecycle
<1>3. Slot(producer) = Slot(Freed)
  BY <1>1, ProducerAtEnd, SlotPeriod DEF IInv
<1>4. producer = WrappingAdd(Freed, RingSize)
  BY ProducerAtEnd DEF IInv
<1>5. WrappingAdd(Freed, 1) = WrappingAdd(Freed, RingSize)
  BY <1>2, <1>3, <1>4 DEF Writable
<1> QED
  BY <1>1, <1>5, CountersDiffer, Zenon

\* A slot that looks readable to the consumer holds a queued tick.
LEMMA ReadableIsQueued ==
  ASSUME IInv, pcC # "advance", Readable
  PROVE  Occupancy > 0
<1> SUFFICES ASSUME Occupancy = 0 PROVE FALSE
  BY Moduli DEF IInv
<1>1. /\ Freed \in Counters /\ Freed \in Int
      /\ 0 \in Slots /\ ~ (0 < Occupancy)
      /\ 0 \in Counters /\ 1 \in Counters /\ 0 # 1
      /\ Freed + 0 = Freed
  BY Moduli, PositionTypes DEF IInv, Counters, Slots
<1>2. node[Slot(Freed)] = WrappingAdd(Freed, 0)
  BY <1>1, Zenon DEF IInv, SlotLifecycle
<1>3. node[Slot(Freed)] = WrappingAdd(Freed, 1)
  BY ConsumerAtFront DEF Readable, IInv
<1> QED
  BY <1>1, <1>2, <1>3, CountersDiffer, Zenon

------------------------------------------------------------------------------
(***************************************************************************)
(* Type correctness.                                                       *)
(***************************************************************************)

\* DisruptorRing::new makes well-typed cursors, counters and slots.
LEMMA InitTypeOK == Init => TypeOK
<1>1. 0 \in Counters /\ \A s \in Slots : s \in Counters
  BY Moduli DEF Counters, Slots
<1> QED
  BY <1>1 DEF Init, TypeOK

\* Every line of try_publish and try_consume keeps the types.
LEMMA StepTypeOK ==
  ASSUME TypeOK, [Next]_vars
  PROVE  TypeOK'
<1>1. /\ \A a \in Counters : WrappingAdd(a, 1) \in Counters
      /\ \A a \in Counters : WrappingAdd(a, RingSize) \in Counters
  <2>1. 1 \in Int /\ RingSize \in Int /\ Counters \subseteq Int
    BY Moduli DEF Counters
  <2> QED
    BY <2>1, WrapType, Zenon
<1>2. Slot(producer) \in Slots /\ Slot(consumer) \in Slots
  BY SlotType DEF TypeOK, Counters
<1> USE DEF TypeOK, producerVars, consumerVars
<1>3. ASSUME NEW t \in Ticks, Offer(t) PROVE TypeOK'
  BY <1>3 DEF Offer
<1>4. CASE CheckWritable
  BY <1>4 DEF CheckWritable
<1>5. CASE CountDrop
  BY <1>1, <1>5 DEF CountDrop
<1>6. CASE WriteTick
  BY <1>2, <1>6 DEF WriteTick
<1>7. CASE Commit
  BY <1>1, <1>2, <1>7 DEF Commit
<1>8. CASE AdvanceProducer
  BY <1>1, <1>8 DEF AdvanceProducer
<1>9. CASE Retry
  BY <1>9 DEF Retry
<1>10. CASE GiveUp
  BY <1>10 DEF GiveUp
<1>11. CASE CheckReadable
  BY <1>11 DEF CheckReadable
<1>12. CASE ReadTick
  BY <1>2, <1>12 DEF ReadTick
<1>13. CASE Release
  BY <1>1, <1>2, <1>13 DEF Release
<1>14. CASE AdvanceConsumer
  BY <1>1, <1>14 DEF AdvanceConsumer
<1>15. CASE UNCHANGED vars
  BY <1>15 DEF vars
<1> QED
  BY <1>3, <1>4, <1>5, <1>6, <1>7, <1>8, <1>9, <1>10, <1>11, <1>12, <1>13,
     <1>14, <1>15 DEF Next, TryPublish, TryConsume

\* Every variable of the ring keeps its type: cursors, handshake counters and
\* dropped_count() stay within the width of u64.
THEOREM TypeCorrect == Spec => []TypeOK
<1>1. Init => TypeOK
  BY InitTypeOK
<1>2. TypeOK /\ [Next]_vars => TypeOK'
  BY StepTypeOK
<1> QED
  BY <1>1, <1>2, PTL DEF Spec

------------------------------------------------------------------------------
(***************************************************************************)
(* How the two steps that move an end of the queue move it, and that no    *)
(* other step does.                                                        *)
(***************************************************************************)

\* try_publish storing a handshake counter lengthens the queue at its back.
LEMMA CommitMovesEnd ==
  ASSUME IInv, Commit
  PROVE  /\ Freed' = Freed
         /\ Filled' = WrappingAdd(Freed, Occupancy + 1)
         /\ Occupancy' = Occupancy + 1
<1>1. /\ Freed \in Counters /\ Freed \in Int /\ Occupancy \in Int /\ 1 \in Int
      /\ Occupancy + 1 \in Counters
  BY PositionTypes, Moduli DEF IInv, Counters, ProducerKnows, Commit
<1>2. Freed' = Freed
  BY DEF Freed, Commit, consumerVars
<1>3. producer = WrappingAdd(Freed, Occupancy)
  BY ProducerAtEnd DEF IInv, Commit
<1>4. Filled' = WrappingAdd(producer, 1)
  BY DEF Filled, Commit, WrappingAdd
<1>5. Filled' = WrappingAdd(Freed, Occupancy + 1)
  BY <1>1, <1>3, <1>4, WrapOfWrapped, Zenon
<1>6. (WrappingAdd(Freed, Occupancy + 1) - Freed) % Wrap = Occupancy + 1
  BY <1>1, DistanceOf, Zenon
<1>7. Occupancy' = (Filled' - Freed') % Wrap
  BY DEF Occupancy
<1> QED
  BY <1>2, <1>5, <1>6, <1>7, Zenon

\* try_consume storing a handshake counter shortens the queue at its front.
LEMMA ReleaseMovesFront ==
  ASSUME IInv, Release
  PROVE  /\ Freed' = WrappingAdd(Freed, 1)
         /\ Filled' = Filled
         /\ Occupancy' = Occupancy - 1
<1>1. /\ Freed \in Counters /\ Freed \in Int /\ Occupancy \in Int /\ 1 \in Int
      /\ Occupancy - 1 \in Int /\ 1 + (Occupancy - 1) = Occupancy
      /\ Occupancy - 1 \in Counters
  BY PositionTypes, Moduli DEF IInv, Counters, ConsumerKnows, Release
<1>2. Freed' = WrappingAdd(Freed, 1)
  BY DEF Freed, Release, WrappingAdd
<1>3. Filled' = Filled
  BY DEF Filled, Release, producerVars, WrappingAdd
<1>4. WrappingAdd(Freed, 1) \in Counters
  BY <1>1, WrapType, Zenon
<1>5. Filled = WrappingAdd(WrappingAdd(Freed, 1), Occupancy - 1)
  <2>1. Filled = WrappingAdd(Freed, Occupancy)
    BY FilledFromFreed DEF IInv
  <2>2. WrappingAdd(WrappingAdd(Freed, 1), Occupancy - 1)
          = WrappingAdd(Freed, 1 + (Occupancy - 1))
    BY <1>1, WrapOfWrapped, Zenon
  <2> QED
    BY <1>1, <2>1, <2>2, Zenon
<1>6. (WrappingAdd(WrappingAdd(Freed, 1), Occupancy - 1) - WrappingAdd(Freed, 1)) % Wrap
        = Occupancy - 1
  BY <1>1, <1>4, DistanceOf, Zenon
<1>7. Occupancy' = (Filled' - Freed') % Wrap
  BY DEF Occupancy
<1> QED
  BY <1>2, <1>3, <1>5, <1>6, <1>7, Zenon

\* No other line of either call moves an end: a cursor store only catches up.
LEMMA OtherStepsMoveNothing ==
  ASSUME TypeOK, [Next]_vars, ~ Commit, ~ Release
  PROVE  Filled' = Filled /\ Freed' = Freed /\ Occupancy' = Occupancy
<1> USE DEF Filled, Freed, producerVars, consumerVars
<1>1. Filled' = Filled
  BY DEF vars, Next, TryPublish, TryConsume, Offer, CheckWritable, CountDrop,
         WriteTick, AdvanceProducer, Retry, GiveUp, CheckReadable, ReadTick,
         AdvanceConsumer
<1>2. Freed' = Freed
  BY DEF vars, Next, TryPublish, TryConsume, Offer, CheckWritable, CountDrop,
         WriteTick, AdvanceProducer, Retry, GiveUp, CheckReadable, ReadTick,
         AdvanceConsumer
<1> QED
  BY <1>1, <1>2 DEF Occupancy

------------------------------------------------------------------------------
(***************************************************************************)
(* The inductive invariant.                                                *)
(***************************************************************************)

\* An empty ring, with every slot writable for the first round.
LEMMA InitIInv == Init => IInv
<1> SUFFICES ASSUME Init PROVE IInv
  OBVIOUS
<1>1. TypeOK
  BY InitTypeOK
<1>2. Freed = 0 /\ Filled = 0 /\ 0 \in Counters
  BY Moduli DEF Init, Freed, Filled, Counters
<1>3. Occupancy = 0
  <2>1. (WrappingAdd(0, 0) - 0) % Wrap = 0
    BY <1>2, DistanceOf, Zenon
  <2>2. WrappingAdd(0, 0) = 0
    BY <1>2, WrapZero, Zenon
  <2> QED
    BY <1>2, <2>1, <2>2 DEF Occupancy
<1>4. SlotLifecycle
  <2> SUFFICES ASSUME NEW d \in Slots
               PROVE  node[Slot(Freed + d)] = WrappingAdd(Freed, d)
    BY <1>3 DEF SlotLifecycle, Slots
  <2>1. /\ 0 + d = d
        /\ RingSize \in Nat /\ RingSize > 0 /\ d \in 0 .. RingSize - 1
        /\ Wrap \in Nat /\ Wrap > 0 /\ d \in 0 .. Wrap - 1
    BY Moduli DEF Slots
  <2>2. d % RingSize = d /\ d % Wrap = d
    BY <2>1, SmallRemainder, Zenon
  <2> QED
    BY <1>2, <2>1, <2>2 DEF Slot, WrappingAdd, Init
<1> QED
  BY <1>1, <1>3, <1>4, Moduli
     DEF Init, IInv, ProducerKnows, ConsumerKnows, QueueHoldsTicks, Slots

\* The producer publishes a slot: the free slot at the end becomes readable.
LEMMA CommitLifecycle ==
  ASSUME IInv, Commit
  PROVE  SlotLifecycle'
<1>1. /\ Freed \in Int /\ Occupancy \in Slots /\ Occupancy \in Int /\ 1 \in Int
  BY PositionTypes, Moduli DEF IInv, Slots, Counters, ProducerKnows, Commit
<1>2. /\ producer = WrappingAdd(Freed, Occupancy)
      /\ Slot(producer) = Slot(Freed + Occupancy)
  BY ProducerAtEnd DEF IInv, Commit
<1>3. WrappingAdd(producer, 1) = WrappingAdd(Freed, Occupancy + 1)
  BY <1>1, <1>2, WrapOfWrapped, Zenon
<1>4. node' = [node EXCEPT ![Slot(Freed + Occupancy)] = WrappingAdd(Freed, Occupancy + 1)]
  BY <1>2, <1>3 DEF Commit
<1> SUFFICES ASSUME NEW d \in Slots
             PROVE  node'[Slot(Freed + d)] =
                      IF d < Occupancy + 1 THEN WrappingAdd(Freed, d + 1)
                                           ELSE WrappingAdd(Freed, d)
  BY CommitMovesEnd DEF SlotLifecycle
<1>5. /\ Freed + d \in Int
      /\ node[Slot(Freed + d)] =
           IF d < Occupancy THEN WrappingAdd(Freed, d + 1) ELSE WrappingAdd(Freed, d)
  BY <1>1 DEF IInv, SlotLifecycle, Slots
<1>6. Slot(Freed + d) \in DOMAIN node
  BY <1>5, SlotType DEF IInv, TypeOK
<1>7. CASE d = Occupancy
  BY <1>1, <1>4, <1>6, <1>7
<1>8. CASE d # Occupancy
  <2>1. Slot(Freed + d) # Slot(Freed + Occupancy)
    BY <1>1, <1>8, SlotsDiffer, Zenon
  <2>2. node'[Slot(Freed + d)] = node[Slot(Freed + d)]
    BY <1>4, <1>6, <2>1
  <2>3. d < Occupancy <=> d < Occupancy + 1
    BY <1>1, <1>8 DEF Slots
  <2>4. CASE d < Occupancy
    BY <1>5, <2>2, <2>3, <2>4
  <2>5. CASE ~ (d < Occupancy)
    BY <1>5, <2>2, <2>3, <2>5
  <2> QED
    BY <2>4, <2>5
<1> QED
  BY <1>7, <1>8

\* The consumer releases a slot: the readable slot at the front becomes the
\* last of the writable ones, one round later.
LEMMA ReleaseLifecycle ==
  ASSUME IInv, Release
  PROVE  SlotLifecycle'
<1>1. /\ Freed \in Int /\ Occupancy \in Int /\ Occupancy > 0
      /\ Occupancy <= RingSize /\ RingSize \in Int /\ 1 \in Int /\ 0 \in Slots
      /\ Freed + 0 = Freed
  BY PositionTypes, Moduli DEF IInv, Slots, Counters, ConsumerKnows, Release
<1>2. node' = [node EXCEPT ![Slot(Freed)] = WrappingAdd(Freed, RingSize)]
  BY ConsumerAtFront DEF Release, IInv
<1> SUFFICES ASSUME NEW d \in Slots
             PROVE  node'[Slot(WrappingAdd(Freed, 1) + d)] =
                      IF d < Occupancy - 1
                        THEN WrappingAdd(WrappingAdd(Freed, 1), d + 1)
                        ELSE WrappingAdd(WrappingAdd(Freed, 1), d)
  BY ReleaseMovesFront DEF SlotLifecycle
<1>3. /\ d \in Int /\ d + 1 \in Int
      /\ Freed + 1 + d = Freed + (d + 1)
      /\ 1 + d = d + 1 /\ 1 + (d + 1) = (d + 1) + 1
      /\ Freed + (d + 1) \in Int
  BY <1>1 DEF Slots
<1>4. /\ Slot(WrappingAdd(Freed, 1) + d) = Slot(Freed + (d + 1))
      /\ WrappingAdd(WrappingAdd(Freed, 1), d + 1) = WrappingAdd(Freed, (d + 1) + 1)
      /\ WrappingAdd(WrappingAdd(Freed, 1), d) = WrappingAdd(Freed, d + 1)
  <2>1. Slot(WrappingAdd(Freed, 1) + d) = Slot(Freed + 1 + d)
    BY <1>1, <1>3, SlotOfWrapped, Zenon
  <2>2. WrappingAdd(WrappingAdd(Freed, 1), d + 1) = WrappingAdd(Freed, 1 + (d + 1))
    BY <1>1, <1>3, WrapOfWrapped, Zenon
  <2>3. WrappingAdd(WrappingAdd(Freed, 1), d) = WrappingAdd(Freed, 1 + d)
    BY <1>1, <1>3, WrapOfWrapped, Zenon
  <2> QED
    BY <1>3, <2>1, <2>2, <2>3, Zenon
<1>5. Slot(Freed + (d + 1)) \in DOMAIN node
  BY <1>3, SlotType DEF IInv, TypeOK
<1>6. CASE d = RingSize - 1
  <2>1. d + 1 = RingSize /\ ~ (d < Occupancy - 1)
    BY <1>1, <1>6
  <2>2. Slot(Freed + (d + 1)) = Slot(Freed)
    BY <1>1, <2>1, SlotPeriod, Zenon
  <2> QED
    BY <1>2, <1>4, <1>5, <2>1, <2>2, Zenon
<1>7. CASE d # RingSize - 1
  <2>1. /\ d + 1 \in Slots /\ d + 1 # 0
        /\ (d + 1 < Occupancy) <=> (d < Occupancy - 1)
    BY <1>1, <1>7, Moduli DEF Slots
  <2>2. Slot(Freed + (d + 1)) # Slot(Freed + 0)
    BY <1>1, <2>1, SlotsDiffer, Zenon
  <2>3. node[Slot(Freed + (d + 1))] =
          IF d + 1 < Occupancy THEN WrappingAdd(Freed, (d + 1) + 1)
                               ELSE WrappingAdd(Freed, d + 1)
    BY <2>1, Zenon DEF IInv, SlotLifecycle
  <2>4. node'[Slot(Freed + (d + 1))] = node[Slot(Freed + (d + 1))]
    BY <1>1, <1>2, <1>5, <2>2
  <2>5. CASE d < Occupancy - 1
    BY <1>4, <2>1, <2>3, <2>4, <2>5
  <2>6. CASE ~ (d < Occupancy - 1)
    BY <1>4, <2>1, <2>3, <2>4, <2>6
  <2> QED
    BY <2>5, <2>6
<1> QED
  BY <1>6, <1>7

\* The tick the producer has written, and the ticks of the queue, stay where
\* they are until they are taken.
LEMMA StepIInv ==
  ASSUME IInv, [Next]_vars
  PROVE  IInv'
<1>1. TypeOK'
  BY StepTypeOK DEF IInv
<1>2. CASE Commit
  <2>1. /\ Freed' = Freed /\ Occupancy' = Occupancy + 1 /\ Occupancy < RingSize
        /\ Occupancy \in Nat /\ cell' = cell
        /\ Slot(producer) = Slot(Freed + Occupancy)
    BY <1>2, CommitMovesEnd, ProducerAtEnd, Moduli DEF IInv, ProducerKnows, Commit
  <2>2. Occupancy' \in 0 .. RingSize
    BY <2>1, Moduli
  <2>3. SlotLifecycle'
    BY <1>2, CommitLifecycle
  <2>4. ProducerKnows'
    BY <1>2 DEF Commit, ProducerKnows
  <2>5. ConsumerKnows'
    BY <1>2, <2>1 DEF Commit, ConsumerKnows, consumerVars, IInv
  <2>6. QueueHoldsTicks'
    <3> SUFFICES ASSUME NEW d \in Slots, d < Occupancy + 1
                 PROVE  cell[Slot(Freed + d)] \in Ticks
      BY <2>1 DEF QueueHoldsTicks
    <3>1. CASE d < Occupancy
      BY <3>1 DEF IInv, QueueHoldsTicks
    <3>2. CASE d = Occupancy
      BY <1>2, <2>1, <3>2 DEF IInv, ProducerKnows, Commit
    <3> QED
      BY <2>1, <3>1, <3>2 DEF Slots
  <2> QED
    BY <1>1, <2>2, <2>3, <2>4, <2>5, <2>6 DEF IInv
<1>3. CASE Release
  <2>1. /\ Freed' = WrappingAdd(Freed, 1) /\ Occupancy' = Occupancy - 1
        /\ Occupancy > 0 /\ Occupancy \in 0 .. RingSize /\ cell' = cell
        /\ Freed \in Int
    BY <1>3, ReleaseMovesFront, PositionTypes DEF IInv, ConsumerKnows, Release, Counters
  <2>2. Occupancy' \in 0 .. RingSize
    BY <2>1, Moduli
  <2>3. SlotLifecycle'
    BY <1>3, ReleaseLifecycle
  <2>4. ProducerKnows'
    BY <1>3, <2>1, Moduli DEF Release, ProducerKnows, producerVars, IInv
  <2>5. ConsumerKnows'
    BY <1>3 DEF Release, ConsumerKnows
  <2>6. QueueHoldsTicks'
    <3> SUFFICES ASSUME NEW d \in Slots, d < Occupancy - 1
                 PROVE  cell[Slot(WrappingAdd(Freed, 1) + d)] \in Ticks
      BY <2>1 DEF QueueHoldsTicks
    <3>1. /\ d + 1 \in Slots /\ d + 1 < Occupancy
          /\ Freed + 1 + d = Freed + (d + 1) /\ d \in Int /\ 1 \in Int
      BY <2>1, Moduli DEF Slots
    <3>2. Slot(WrappingAdd(Freed, 1) + d) = Slot(Freed + 1 + d)
      BY <2>1, <3>1, SlotOfWrapped, Zenon
    <3> QED
      BY <3>1, <3>2 DEF IInv, QueueHoldsTicks
  <2> QED
    BY <1>1, <2>2, <2>3, <2>4, <2>5, <2>6 DEF IInv
<1>4. CASE WriteTick
  <2>1. /\ Freed' = Freed /\ Occupancy' = Occupancy
    BY <1>4, OtherStepsMoveNothing DEF IInv, WriteTick, Commit, Release,
          consumerVars, producerVars
  <2>2. /\ cell' = [cell EXCEPT ![Slot(producer)] = offer] /\ node' = node
        /\ Slot(producer) = Slot(Freed + Occupancy) /\ Slot(producer) \in DOMAIN cell
        /\ Freed \in Int /\ Freed + 0 = Freed
        /\ Occupancy \in Slots /\ Occupancy < RingSize /\ 0 \in Slots
    <3>1. cell' = [cell EXCEPT ![Slot(producer)] = offer] /\ node' = node
      BY <1>4 DEF WriteTick
    <3>2. Slot(producer) = Slot(Freed + Occupancy)
      BY <1>4, ProducerAtEnd DEF IInv, WriteTick
    <3>3. Slot(producer) \in DOMAIN cell
      BY SlotType DEF IInv, TypeOK, Counters
    <3>4. /\ Freed \in Int /\ Freed + 0 = Freed
          /\ Occupancy \in Slots /\ Occupancy < RingSize /\ 0 \in Slots
      BY <1>4, PositionTypes, Moduli
         DEF IInv, ProducerKnows, WriteTick, Slots, Counters
    <3> QED
      BY <3>1, <3>2, <3>3, <3>4
  \* Writing the free slot at the end leaves the queued ones alone.
  <2>3. ASSUME NEW d \in Slots, d < Occupancy
        PROVE  cell'[Slot(Freed + d)] = cell[Slot(Freed + d)]
    <3>1. d # Occupancy
      BY <2>3, <2>2 DEF Slots
    <3>2. Slot(Freed + d) # Slot(Freed + Occupancy)
      BY <2>2, <3>1, SlotsDiffer, Zenon
    <3> QED
      BY <2>2, <3>2, <1>1 DEF IInv, TypeOK
  <2>4. ProducerKnows'
    BY <1>4, <2>1, <2>2 DEF WriteTick, ProducerKnows, IInv
  <2>5. ConsumerKnows'
    BY <1>4, <2>1, <2>2, <2>3, ConsumerAtFront
       DEF WriteTick, ConsumerKnows, IInv, consumerVars
  <2>6. QueueHoldsTicks'
    BY <2>1, <2>3 DEF QueueHoldsTicks, IInv
  <2>7. SlotLifecycle'
    BY <2>1, <2>2 DEF SlotLifecycle, IInv
  <2> QED
    BY <1>1, <2>1, <2>4, <2>5, <2>6, <2>7 DEF IInv
<1>5. CASE ~ Commit /\ ~ Release /\ ~ WriteTick
  <2>1. Freed' = Freed /\ Occupancy' = Occupancy
    BY <1>5, OtherStepsMoveNothing DEF IInv
  <2>2. node' = node /\ cell' = cell
    BY <1>5 DEF vars, Next, TryPublish, TryConsume, Offer, CheckWritable, CountDrop,
         AdvanceProducer, Retry, GiveUp, CheckReadable, ReadTick,
         AdvanceConsumer, producerVars, consumerVars
  <2>3. ProducerKnows'
    <3>1. pcP # "advance" /\ Writable => Occupancy < RingSize
      BY WritableIsFree
    <3> QED
      BY <1>5, <2>1, <2>2, <3>1
         DEF vars, Next, TryPublish, TryConsume, Offer, CheckWritable, CountDrop,
             AdvanceProducer, Retry, GiveUp, CheckReadable, ReadTick,
             AdvanceConsumer, producerVars, consumerVars, IInv, ProducerKnows
  <2>4. ConsumerKnows'
    <3>1. pcC # "advance" /\ Readable => Occupancy > 0
      BY ReadableIsQueued
    <3> QED
      BY <1>5, <2>1, <2>2, <3>1
         DEF vars, Next, TryPublish, TryConsume, Offer, CheckWritable, CountDrop,
             AdvanceProducer, Retry, GiveUp, CheckReadable, ReadTick,
             AdvanceConsumer, producerVars, consumerVars, IInv, ConsumerKnows
  <2>5. SlotLifecycle' /\ QueueHoldsTicks'
    BY <2>1, <2>2 DEF SlotLifecycle, QueueHoldsTicks, IInv
  <2> QED
    BY <1>1, <2>1, <2>3, <2>4, <2>5 DEF IInv
<1> QED
  BY <1>2, <1>3, <1>4, <1>5

\* The inductive invariant holds for every ring size and every wrap-around.
THEOREM Inductive == Spec => []IInv
<1>1. Init => IInv
  BY InitIInv
<1>2. IInv /\ [Next]_vars => IInv'
  BY StepIInv
<1> QED
  BY <1>1, <1>2, PTL DEF Spec

\* Every slot is at every moment in exactly the phase of its life that the
\* header comment of ring_buffer.rs gives it.
THEOREM Lifecycle == Spec => []SlotLifecycle
<1>1. IInv => SlotLifecycle
  BY DEF IInv
<1> QED
  BY <1>1, Inductive, PTL

\* The promise behind "unsafe impl Sync": the two threads are never inside the
\* same slot.
THEOREM Exclusion == Spec => []NoSharedSlot
<1>1. IInv => NoSharedSlot
  <2> SUFFICES ASSUME IInv, pcP = "write", pcC = "read",
                      Slot(producer) = Slot(consumer)
               PROVE  FALSE
    BY DEF NoSharedSlot
  <2>1. /\ Freed \in Int /\ Freed + 0 = Freed
        /\ Occupancy \in Slots /\ 0 \in Slots /\ Occupancy # 0
    BY PositionTypes, Moduli DEF IInv, ProducerKnows, ConsumerKnows, Slots, Counters
  <2>2. Slot(Freed + Occupancy) = Slot(Freed + 0)
    BY <2>1, ProducerAtEnd, ConsumerAtFront DEF IInv
  <2> QED
    BY <2>1, <2>2, SlotsDiffer, Zenon
<1> QED
  BY <1>1, Inductive, PTL

------------------------------------------------------------------------------
(***************************************************************************)
(* SpscDisruptor implements BoundedQueue.  The linearization points are    *)
(* Commit and Release; every other memory access, the refused publish      *)
(* apart, is a stuttering step of the queue.                               *)
(***************************************************************************)

\* The queue of the refinement mapping is a sequence of ticks as long as the
\* two ends are apart.
QueueContents ==
  /\ Queue \in Seq(Ticks)
  /\ Len(Queue) = Occupancy
  /\ \A i \in 1 .. Occupancy : Queue[i] = cell[Slot(Freed + i - 1)]

\* The slots from one end to the other are a sequence of ticks, one for each
\* position.
LEMMA QueueIsSequence == IInv => QueueContents
<1> SUFFICES ASSUME IInv PROVE QueueContents
  OBVIOUS
<1>1. /\ Occupancy \in Nat /\ Occupancy <= RingSize /\ Freed \in Int
      /\ RingSize \in Nat
  BY PositionTypes, Moduli DEF IInv, Counters
<1>2. ASSUME NEW i \in 1 .. Occupancy
      PROVE  cell[Slot(Freed + i - 1)] \in Ticks
  <2>1. /\ i - 1 \in Slots /\ i - 1 < Occupancy
        /\ Freed + (i - 1) = Freed + i - 1
    BY <1>1 DEF Slots
  <2> QED
    BY <2>1 DEF IInv, QueueHoldsTicks
<1>3. Queue \in [1 .. Occupancy -> Ticks]
  BY <1>2 DEF Queue
<1>4. Queue \in Seq(Ticks)
  BY <1>1, <1>3, SeqDef
<1>5. Len(Queue) = Occupancy
  BY <1>1, <1>3
<1> QED
  BY <1>4, <1>5 DEF Queue, QueueContents

\* The same after a step.
LEMMA QueueStaysSequence == IInv' => QueueContents'
  BY QueueIsSequence, PTL

\* Storing the handshake counter appends the offered tick.
LEMMA CommitPublishes ==
  ASSUME IInv, IInv', Commit
  PROVE  Fifo!Publish(offer)
<1>1. /\ Occupancy \in Nat /\ Occupancy < RingSize /\ offer \in Ticks
      /\ cell' = cell /\ cell[Slot(Freed + Occupancy)] = offer
      /\ Freed' = Freed /\ Occupancy' = Occupancy + 1 /\ Freed \in Int
  BY CommitMovesEnd, ProducerAtEnd, PositionTypes, Moduli
     DEF IInv, ProducerKnows, Commit, Counters
<1>2. /\ Queue \in Seq(Ticks) /\ Len(Queue) = Occupancy
      /\ \A i \in 1 .. Occupancy : Queue[i] = cell[Slot(Freed + i - 1)]
  BY QueueIsSequence DEF QueueContents
<1>3. /\ Queue' \in Seq(Ticks) /\ Len(Queue') = Occupancy + 1
      /\ \A i \in 1 .. Occupancy + 1 : Queue'[i] = cell[Slot(Freed + i - 1)]
  <2>1. /\ Queue' \in Seq(Ticks)
        /\ Len(Queue') = Occupancy'
        /\ \A i \in 1 .. Occupancy' : Queue'[i] = cell'[Slot(Freed' + i - 1)]
    BY QueueStaysSequence DEF QueueContents
  <2> QED
    BY <1>1, <2>1
<1>4. /\ Append(Queue, offer) \in Seq(Ticks)
      /\ Len(Append(Queue, offer)) = Occupancy + 1
      /\ \A i \in 1 .. Occupancy : Append(Queue, offer)[i] = Queue[i]
      /\ Append(Queue, offer)[Occupancy + 1] = offer
  BY <1>1, <1>2, AppendProperties
<1>5. ASSUME NEW i \in 1 .. Occupancy + 1
      PROVE  Queue'[i] = Append(Queue, offer)[i]
  <2>1. CASE i \in 1 .. Occupancy
    BY <1>2, <1>3, <1>4, <2>1
  <2>2. CASE i = Occupancy + 1
    <3>1. /\ Freed + (Occupancy + 1) - 1 = Freed + Occupancy
          /\ Occupancy + 1 \in 1 .. Occupancy + 1
      BY <1>1
    <3>2. Queue'[Occupancy + 1] = cell[Slot(Freed + (Occupancy + 1) - 1)]
      BY <1>3, <3>1
    <3> QED
      BY <1>1, <1>4, <2>2, <3>1, <3>2
  <2>3. i \in 1 .. Occupancy \/ i = Occupancy + 1
    <3>1. Occupancy \in Nat
      BY <1>1
    <3> HIDE DEF Occupancy
    <3> QED
      BY <3>1
  <2> QED
    BY <2>1, <2>2, <2>3
<1>6. Queue' = Append(Queue, offer)
  BY <1>3, <1>4, <1>5, SeqEqual
<1> QED
  BY <1>1, <1>2, <1>6 DEF Fifo!Publish, Commit, consumerVars

\* Releasing the slot takes the oldest tick.
LEMMA ReleaseTakes ==
  ASSUME IInv, IInv', Release
  PROVE  Fifo!Take
<1>1. /\ Occupancy \in Nat /\ Occupancy > 0
      /\ cell' = cell /\ tick = cell[Slot(Freed)] /\ Freed + 1 - 1 = Freed
      /\ Freed' = WrappingAdd(Freed, 1) /\ Occupancy' = Occupancy - 1
      /\ Freed \in Int
  BY ReleaseMovesFront, ConsumerAtFront, PositionTypes, Moduli
     DEF IInv, ConsumerKnows, Release, Counters
<1>2. /\ Queue \in Seq(Ticks) /\ Len(Queue) = Occupancy
      /\ \A i \in 1 .. Occupancy : Queue[i] = cell[Slot(Freed + i - 1)]
  BY QueueIsSequence DEF QueueContents
<1>3. /\ Queue' \in Seq(Ticks) /\ Len(Queue') = Occupancy - 1
      /\ \A i \in 1 .. Occupancy - 1 :
           Queue'[i] = cell[Slot(WrappingAdd(Freed, 1) + i - 1)]
  <2>1. /\ Queue' \in Seq(Ticks)
        /\ Len(Queue') = Occupancy'
        /\ \A i \in 1 .. Occupancy' : Queue'[i] = cell'[Slot(Freed' + i - 1)]
    BY QueueStaysSequence DEF QueueContents
  <2> QED
    BY <1>1, <2>1
<1>4. Queue # << >>
  BY <1>1, <1>2
<1>5. /\ Tail(Queue) \in Seq(Ticks)
      /\ Len(Tail(Queue)) = Occupancy - 1
      /\ \A i \in 1 .. Occupancy - 1 : Tail(Queue)[i] = Queue[i + 1]
  BY <1>2, <1>4, HeadTailProperties
<1>6. ASSUME NEW i \in 1 .. Occupancy - 1
      PROVE  Queue'[i] = Tail(Queue)[i]
  <2>1. /\ i - 1 \in Int /\ 1 \in Int /\ i + 1 \in 1 .. Occupancy
        /\ WrappingAdd(Freed, 1) + i - 1 = WrappingAdd(Freed, 1) + (i - 1)
        /\ Freed + 1 + (i - 1) = Freed + (i + 1) - 1
    <3>1. WrappingAdd(Freed, 1) \in Int
      BY <1>1, WrapType, Moduli DEF Counters
    <3> QED
      BY <1>1, <3>1
  <2>2. Slot(WrappingAdd(Freed, 1) + (i - 1)) = Slot(Freed + 1 + (i - 1))
    BY <1>1, <2>1, SlotOfWrapped, Zenon
  <2>3. Queue'[i] = cell[Slot(WrappingAdd(Freed, 1) + (i - 1))]
    BY <1>3, <2>1
  <2>4. Tail(Queue)[i] = cell[Slot(Freed + (i + 1) - 1)]
    BY <1>2, <1>5, <2>1
  <2> QED
    BY <2>1, <2>2, <2>3, <2>4
<1>7. Queue' = Tail(Queue)
  BY <1>3, <1>5, <1>6, SeqEqual
<1>8. Head(Queue) = tick
  BY <1>1, <1>2, <1>4
<1> QED
  BY <1>4, <1>7, <1>8 DEF Fifo!Take, Release, producerVars

\* A slot that is not writable means that the ring is full.
LEMMA UnwritableIsFull ==
  ASSUME IInv, pcP # "advance", ~ Writable
  PROVE  Occupancy = RingSize
<1> SUFFICES ASSUME Occupancy \in Slots PROVE FALSE
  BY Moduli DEF IInv, Slots
<1>1. node[Slot(Freed + Occupancy)] = WrappingAdd(Freed, Occupancy)
  BY PositionTypes DEF IInv, SlotLifecycle, Counters
<1> QED
  BY <1>1, ProducerAtEnd DEF Writable, IInv

\* Every step of the ring is a step of the queue or leaves it as it is.
LEMMA StepRefines ==
  ASSUME IInv, IInv', [Next]_vars
  PROVE  [Fifo!Next]_(Fifo!vars)
<1> USE DEF Fifo!vars, Fifo!Next
<1>1. CASE Commit
  BY <1>1, CommitPublishes DEF IInv, ProducerKnows, Commit
<1>2. CASE Release
  BY <1>2, ReleaseTakes
<1>3. CASE ~ Commit /\ ~ Release
  <2>1. Freed' = Freed /\ Occupancy' = Occupancy
    BY <1>3, OtherStepsMoveNothing DEF IInv
  <2>2. CASE WriteTick
    <3>1. Queue' = Queue
      <4>1. /\ cell' = [cell EXCEPT ![Slot(Freed + Occupancy)] = offer]
            /\ Freed \in Int /\ Occupancy \in Slots /\ RingSize \in Nat
        BY <2>2, ProducerAtEnd, PositionTypes, Moduli
           DEF WriteTick, IInv, ProducerKnows, Slots, Counters
      <4>2. ASSUME NEW i \in 1 .. Occupancy
            PROVE  cell'[Slot(Freed + i - 1)] = cell[Slot(Freed + i - 1)]
        <5>1. /\ i - 1 \in Slots /\ i - 1 # Occupancy
              /\ Freed + (i - 1) = Freed + i - 1 /\ Freed + (i - 1) \in Int
          BY <4>1 DEF Slots
        <5>2. Slot(Freed + (i - 1)) # Slot(Freed + Occupancy)
          BY <4>1, <5>1, SlotsDiffer, Zenon
        <5>3. Slot(Freed + (i - 1)) \in DOMAIN cell
          BY <5>1, SlotType DEF IInv, TypeOK
        <5> QED
          BY <4>1, <5>1, <5>2, <5>3
      <4> QED
        BY <2>1, <4>2 DEF Queue
    <3> QED
      BY <2>2, <3>1 DEF WriteTick, consumerVars
  <2>3. CASE CheckWritable
    <3>1. Queue' = Queue
      BY <2>1, <2>3 DEF CheckWritable, Queue
    <3>2. CASE Writable
      BY <2>3, <3>1, <3>2 DEF CheckWritable, consumerVars
    <3>3. CASE ~ Writable
      <4>1. Len(Queue) = RingSize
        BY <2>3, <3>3, UnwritableIsFull, QueueIsSequence
           DEF CheckWritable, QueueContents
      <4> QED
        BY <2>3, <3>1, <3>3, <4>1
           DEF CheckWritable, consumerVars, Fifo!Refuse, WrappingAdd
    <3> QED
      BY <3>2, <3>3
  <2>4. CASE ~ WriteTick /\ ~ CheckWritable
    <3>1. cell' = cell
      BY <1>3, <2>4 DEF vars, Next, TryPublish, TryConsume, Offer, CountDrop,
         AdvanceProducer, Retry, GiveUp, CheckReadable, ReadTick,
         AdvanceConsumer, producerVars, consumerVars
    <3>2. Queue' = Queue
      BY <2>1, <3>1 DEF Queue
    <3> QED
      BY <1>3, <2>4, <3>2 DEF vars, Next, TryPublish, TryConsume, Offer, CountDrop,
         AdvanceProducer, Retry, GiveUp, CheckReadable, ReadTick,
         AdvanceConsumer, producerVars, consumerVars, TypeOK, IInv
  <2> QED
    BY <2>2, <2>3, <2>4
<1> QED
  BY <1>1, <1>2, <1>3

\* try_publish and try_consume together are a bounded first-in first-out queue
\* whose refusals dropped_count() counts: the four orderings of the memory
\* accesses in the code are enough for every size and across the wrap.
THEOREM Refinement == Spec => IsBoundedQueue
<1>1. Init => Fifo!Init
  <2> SUFFICES ASSUME Init PROVE Fifo!Init
    OBVIOUS
  <2>1. IInv
    BY InitIInv
  <2>2. Occupancy = 0
    <3>1. Freed = 0 /\ Filled = 0 /\ Occupancy = (0 - 0) % Wrap
      BY DEF Init, Freed, Filled, Occupancy
    <3>2. 0 \in 0 .. Wrap - 1 /\ Wrap \in Nat /\ Wrap > 0 /\ 0 - 0 = 0
      BY Moduli
    <3> QED
      BY <3>1, <3>2, SmallRemainder
  <2>3. Queue = << >>
    BY <2>1, <2>2, QueueIsSequence, EmptySeq DEF QueueContents
  <2> QED
    BY <2>3 DEF Init, Fifo!Init
<1>2. IInv /\ IInv' /\ [Next]_vars => [Fifo!Next]_(Fifo!vars)
  BY StepRefines
<1> QED
  BY <1>1, <1>2, Inductive, PTL DEF Spec, IsBoundedQueue, Fifo!Spec

------------------------------------------------------------------------------
(***************************************************************************)
(* pending() read in the middle of it all.                                 *)
(***************************************************************************)

\* What the metrics thread holds between its two loads: the cursor it has seen
\* and the ticks published since then make up the cursor as it is now.
GaugesInv ==
  /\ IInv
  /\ pcM \in {"idle", "half"}
  /\ seenProducer \in Counters
  /\ published \in Counters
  /\ pcM = "idle" => published = 0
  /\ pcM = "half" => WrappingAdd(seenProducer, published) = producer

\* A monitor that has not looked yet.
LEMMA InitGaugesInv == GaugesInit => GaugesInv
<1>1. 0 \in Counters
  BY Moduli DEF Counters
<1> QED
  BY <1>1, InitIInv DEF GaugesInit, GaugesInv

\* try_publish moves the producer's cursor by one, and nothing else moves it.
LEMMA ProducerMovesByOne ==
  ASSUME Next
  PROVE  producer' = producer \/ producer' = WrappingAdd(producer, 1)
BY DEF Next, TryPublish, TryConsume, Offer, CheckWritable, CountDrop, WriteTick,
       Commit, AdvanceProducer, Retry, GiveUp, CheckReadable, ReadTick, Release,
       AdvanceConsumer, producerVars, consumerVars

\* One case per load of pending(), and one for whatever the ring does meanwhile.
LEMMA StepGaugesInv ==
  ASSUME GaugesInv, [GaugesNext]_allVars
  PROVE  GaugesInv'
<1>1. CASE UNCHANGED allVars
  <2>1. IInv'
    BY <1>1, StepIInv DEF allVars, GaugesInv
  <2> QED
    BY <1>1, <2>1
       DEF GaugesInv, allVars, gaugeVars, vars, producerVars, Counters, WrappingAdd
<1>2. CASE LoadProducer
  <2>1. IInv'
    BY <1>2, StepIInv DEF LoadProducer, GaugesInv
  <2>2. producer \in Counters /\ WrappingAdd(producer, 0) = producer
    BY WrapZero DEF GaugesInv, IInv, TypeOK
  <2>3. producer' = producer /\ Counters' = Counters
    BY <1>2 DEF LoadProducer, vars, producerVars, Counters
  <2> QED
    BY <1>2, <2>1, <2>2, <2>3 DEF GaugesInv, LoadProducer, WrappingAdd
<1>3. CASE LoadConsumer
  <2>1. IInv'
    BY <1>3, StepIInv DEF LoadConsumer, GaugesInv
  <2>2. 0 \in Counters
    BY Moduli DEF Counters
  <2> QED
    BY <1>3, <2>1, <2>2 DEF GaugesInv, LoadConsumer, Counters
<1>4. CASE RingStep
  <2>1. IInv' /\ UNCHANGED <<pcM, seenProducer>>
    BY <1>4, StepIInv DEF RingStep, GaugesInv
  <2>2. /\ published \in Int /\ seenProducer \in Int /\ 1 \in Int
        /\ published + (1 + seenProducer) = seenProducer + (published + 1)
    BY DEF GaugesInv, Counters
  <2>3. CASE pcM = "half" /\ producer' # producer
    <3>1. published' = WrappingAdd(published, 1)
      BY <1>4, <2>3 DEF RingStep
    <3>2. producer' = WrappingAdd(producer, 1)
      BY <1>4, <2>3, ProducerMovesByOne DEF RingStep
    <3>3. published' \in Counters
      BY <2>2, <3>1, WrapType
    <3>4. WrappingAdd(WrappingAdd(published, 1), seenProducer)
            = WrappingAdd(published, 1 + seenProducer)
      BY <2>2, WrapOfWrapped, Zenon
    <3>5. WrappingAdd(WrappingAdd(seenProducer, published), 1)
            = WrappingAdd(seenProducer, published + 1)
      BY <2>2, WrapOfWrapped, Zenon
    <3>6. WrappingAdd(published, 1 + seenProducer)
            = WrappingAdd(seenProducer, published + 1)
      BY <2>2, Zenon DEF WrappingAdd
    <3>7. WrappingAdd(seenProducer, published')
            = WrappingAdd(published', seenProducer)
      <4>1. published' \in Int
        BY <3>3 DEF Counters
      <4>2. seenProducer + published' = published' + seenProducer
        BY <2>2, <4>1
      <4> QED
        BY <4>2, Zenon DEF WrappingAdd
    <3>8. WrappingAdd(seenProducer, published') = producer'
      <4>1. WrappingAdd(seenProducer, published) = producer
        BY <2>3 DEF GaugesInv
      <4> QED
        BY <3>1, <3>2, <3>4, <3>5, <3>6, <3>7, <4>1, Zenon
    <3>9. WrappingAdd(seenProducer', published') = producer'
      BY <2>1, <3>8, Zenon
    <3> QED
      BY <2>1, <2>3, <3>3, <3>9 DEF GaugesInv, Counters, WrappingAdd
  <2>4. CASE ~ (pcM = "half" /\ producer' # producer)
    <3>1. published' = published
      BY <1>4, <2>4 DEF RingStep
    <3> QED
      BY <2>1, <2>4, <3>1 DEF GaugesInv, Counters, WrappingAdd
  <2> QED
    BY <2>3, <2>4
<1> QED
  BY <1>1, <1>2, <1>3, <1>4 DEF GaugesNext

\* The step each cursor lags behind its handshake counter.
ProducerLag == IF pcP = "advance" THEN 1 ELSE 0
ConsumerLag == IF pcC = "advance" THEN 1 ELSE 0

\* The ends of the queue are the cursors and their lag.
LEMMA LagOfEnds ==
  ASSUME TypeOK
  PROVE  /\ Filled = WrappingAdd(producer, ProducerLag)
         /\ Freed = WrappingAdd(consumer, ConsumerLag)
<1>1. WrappingAdd(producer, 0) = producer /\ WrappingAdd(consumer, 0) = consumer
  BY WrapZero DEF TypeOK
<1> QED
  BY <1>1 DEF Filled, Freed, ProducerLag, ConsumerLag

\* What all the remainders leave, once their quotients are put together.
LEMMA Quotients ==
  ASSUME NEW n \in Nat,
         NEW k1 \in Int, NEW k2 \in Int, NEW k3 \in Int, NEW k4 \in Int, NEW k5 \in Int,
         NEW was \in Int, NEW since \in Int, NEW prod \in Int, NEW cons \in Int,
         NEW ep \in Int, NEW ec \in Int,
         NEW filled \in Int, NEW freed \in Int, NEW len \in Int, NEW pending \in Int,
         was - cons = n * k1 + pending,
         was + since = n * k2 + prod,
         prod + ep = n * k3 + filled,
         cons + ec = n * k4 + freed,
         filled - freed = n * k5 + len
  PROVE  pending + since - len = (ec - ep) + n * (k2 + k3 + k5 - k1 - k4)
<1> DEFINE m1 == n * k1
           m2 == n * k2
           m3 == n * k3
           m4 == n * k4
           m5 == n * k5
<1>1. n * (k2 + k3 + k5 - k1 - k4) = m2 + m3 + m5 - m1 - m4
  OBVIOUS
<1>2. m1 \in Int /\ m2 \in Int /\ m3 \in Int /\ m4 \in Int /\ m5 \in Int
  OBVIOUS
<1>3. /\ was - cons = m1 + pending
      /\ was + since = m2 + prod
      /\ prod + ep = m3 + filled
      /\ cons + ec = m4 + freed
      /\ filled - freed = m5 + len
  OBVIOUS
<1> HIDE DEF m1, m2, m3, m4, m5
<1>4. pending + since - len = (ec - ep) + (m2 + m3 + m5 - m1 - m4)
  BY <1>2, <1>3
<1> QED
  BY <1>1, <1>4, Zenon

\* The error of pending() beside what came in between is that of the two lags.
LEMMA GaugeError ==
  ASSUME GaugesInv, pcM = "half"
  PROVE  (Pending + published - Occupancy) % Wrap = (ConsumerLag - ProducerLag) % Wrap
<1> DEFINE k1 == (seenProducer - consumer) \div Wrap
           k2 == (seenProducer + published) \div Wrap
           k3 == (producer + ProducerLag) \div Wrap
           k4 == (consumer + ConsumerLag) \div Wrap
           k5 == (Filled - Freed) \div Wrap
           k == k2 + k3 + k5 - k1 - k4
<1>1. /\ seenProducer \in Int /\ published \in Int /\ producer \in Int
      /\ consumer \in Int /\ ProducerLag \in Int /\ ConsumerLag \in Int
      /\ Filled \in Int /\ Freed \in Int /\ Occupancy \in Int
      /\ Wrap \in Nat /\ Wrap > 0
  BY PositionTypes, Moduli
     DEF GaugesInv, IInv, TypeOK, Counters, ProducerLag, ConsumerLag
<1>2. /\ k1 \in Int /\ Pending \in Int /\ seenProducer - consumer = Wrap * k1 + Pending
  <2>1. seenProducer - consumer \in Int
    BY <1>1
  <2> QED
    BY <1>1, <2>1, DivisionWithRemainder DEF Pending, WrappingSub
<1>3. k2 \in Int /\ seenProducer + published = Wrap * k2 + producer
  <2>1. seenProducer + published \in Int
    BY <1>1
  <2>2. producer = (seenProducer + published) % Wrap
    BY DEF GaugesInv, WrappingAdd
  <2> QED
    BY <1>1, <2>1, <2>2, DivisionWithRemainder
<1>4. k3 \in Int /\ producer + ProducerLag = Wrap * k3 + Filled
  <2>1. producer + ProducerLag \in Int
    BY <1>1
  <2>2. Filled = (producer + ProducerLag) % Wrap
    BY LagOfEnds DEF GaugesInv, IInv, WrappingAdd
  <2> QED
    BY <1>1, <2>1, <2>2, DivisionWithRemainder
<1>5. k4 \in Int /\ consumer + ConsumerLag = Wrap * k4 + Freed
  <2>1. consumer + ConsumerLag \in Int
    BY <1>1
  <2>2. Freed = (consumer + ConsumerLag) % Wrap
    BY LagOfEnds DEF GaugesInv, IInv, WrappingAdd
  <2> QED
    BY <1>1, <2>1, <2>2, DivisionWithRemainder
<1>6. k5 \in Int /\ Filled - Freed = Wrap * k5 + Occupancy
  <2>1. Filled - Freed \in Int
    BY <1>1
  <2> QED
    BY <1>1, <2>1, DivisionWithRemainder DEF Occupancy
<1> HIDE DEF k1, k2, k3, k4, k5
<1>7. Pending + published - Occupancy = (ConsumerLag - ProducerLag) + Wrap * k
  BY <1>1, <1>2, <1>3, <1>4, <1>5, <1>6, Quotients
<1>8. ConsumerLag - ProducerLag \in Int /\ k \in Int
  BY <1>1, <1>2, <1>3, <1>4, <1>5, <1>6
<1> HIDE DEF k
<1>9. ((ConsumerLag - ProducerLag) + Wrap * k) % Wrap = (ConsumerLag - ProducerLag) % Wrap
  BY <1>1, <1>8, AddMultiple, Zenon
<1> QED
  BY <1>7, <1>9, Zenon

\* "Approximate": for every ring size, pending() is what is queued less what was
\* published between its two loads, one off either way, whatever the two other
\* threads do meanwhile and across the wrap of the cursors.
THEOREM GaugeIsApproximate == GaugesSpec => []GaugeMissesWhatCameBetween
<1>1. GaugesInv => GaugeMissesWhatCameBetween
  <2> SUFFICES ASSUME GaugesInv, pcM = "half"
               PROVE  (Pending + published - Occupancy) % Wrap \in {0, 1, Wrap - 1}
    BY DEF GaugeMissesWhatCameBetween
  <2>1. Wrap \in Nat /\ Wrap > 1
    BY Moduli
  <2>2. 0 % Wrap = 0 /\ 1 % Wrap = 1
    BY <2>1, SmallRemainder
  <2>3. (-1) % Wrap = Wrap - 1
    <3>1. -1 \in Int /\ Wrap - 1 \in 0 .. Wrap - 1 /\ -1 = Wrap * (-1) + (Wrap - 1)
      BY <2>1
    <3> QED
      BY <2>1, <3>1, RemainderUnique
  <2>4. ConsumerLag - ProducerLag \in {0, 1, -1}
    BY DEF ConsumerLag, ProducerLag
  <2>5. (ConsumerLag - ProducerLag) % Wrap \in {0, 1, Wrap - 1}
    BY <2>2, <2>3, <2>4
  <2> QED
    BY <2>5, GaugeError
<1>2. GaugesInit => GaugesInv
  BY InitGaugesInv
<1>3. GaugesInv /\ [GaugesNext]_allVars => GaugesInv'
  BY StepGaugesInv
<1> QED
  BY <1>1, <1>2, <1>3, PTL DEF GaugesSpec

==============================================================================
