---------------------------- MODULE DebugRingProofs ----------------------------
(***************************************************************************)
(* For any number of threads that call a debug build's ring at any time:   *)
(* the canary admits at most one of them to each role, the same one for    *)
(* ever; so what reaches the ring is what one producer and one consumer    *)
(* do, and all that is proved of them holds.                               *)
(***************************************************************************)
EXTENDS DebugRing, TLAPS

\* What makes OneThreadPerRole inductive: the copy of the claim that a thread
\* tests while it holds the mutex is up to date.
SeenIsClaimed ==
  \A t \in Threads : pc[t] = "locked" => seen[t] = claimed[role[t]]

Inv == CanaryTypeOK /\ SeenIsClaimed /\ OneThreadPerRole

\* No thread is inside or in the check, and nobody holds the mutex.
LEMMA InitInv == CanaryInit => Inv
BY CanaryAssumption DEF CanaryInit, Inv, CanaryTypeOK, SeenIsClaimed, OneThreadPerRole

\* One case per step of check_single_thread, for the thread that takes it.
LEMMA StepInv == Inv /\ [CanaryNext]_canaryVars => Inv'
<1> SUFFICES ASSUME Inv, [CanaryNext]_canaryVars PROVE Inv'
  OBVIOUS
<1> USE CanaryAssumption DEF Inv, CanaryTypeOK, SeenIsClaimed, OneThreadPerRole
<1>1. CASE UNCHANGED canaryVars
  BY <1>1 DEF canaryVars
<1>2. ASSUME NEW t \in Threads, NEW r \in Roles, Lock(t, r) PROVE Inv'
  BY <1>2 DEF Lock
<1>3. ASSUME NEW t \in Threads, Claim(t) PROVE Inv'
  BY <1>3 DEF Claim
<1>4. ASSUME NEW t \in Threads, Recognise(t) PROVE Inv'
  BY <1>4 DEF Recognise
<1>5. ASSUME NEW t \in Threads, Panic(t) PROVE Inv'
  BY <1>5 DEF Panic
<1>6. ASSUME NEW t \in Threads, Return(t) PROVE Inv'
  BY <1>6 DEF Return
<1> QED
  BY <1>1, <1>2, <1>3, <1>4, <1>5, <1>6 DEF CanaryNext, EndCheck

KeepsClaims ==
  \A r \in Roles : claimed[r] # NoThread => claimed'[r] = claimed[r]

\* A claim is written only by a thread that saw none, under the mutex.
LEMMA StepKeepsClaim == Inv /\ [CanaryNext]_canaryVars => KeepsClaims
<1> SUFFICES ASSUME Inv, [CanaryNext]_canaryVars PROVE KeepsClaims
  OBVIOUS
<1>1. CASE UNCHANGED claimed
  BY <1>1 DEF KeepsClaims
<1>2. ASSUME NEW t \in Threads, Claim(t) PROVE KeepsClaims
  <2>1. role[t] \in Roles /\ claimed[role[t]] = NoThread
    BY <1>2 DEF Claim, Inv, CanaryTypeOK, SeenIsClaimed
  <2> QED
    BY <1>2, <2>1 DEF Claim, KeepsClaims, Inv, CanaryTypeOK
<1> QED
  BY <1>1, <1>2
     DEF CanaryNext, EndCheck, canaryVars, Lock, Recognise, Panic, Return

\* What a thread does to the ring, inside its call or after it, either leaves
\* the canary alone or is the return of the call.
LEMMA StepIsCanary == [Next]_vars => [CanaryNext]_canaryVars
<1> SUFFICES ASSUME [Next]_vars PROVE [CanaryNext]_canaryVars
  OBVIOUS
<1>1. CASE UNCHANGED vars
  BY <1>1 DEF vars
<1>2. ASSUME NEW t \in Threads, Enter(t) PROVE CanaryNext
  BY <1>2 DEF Enter, CanaryNext
<1>3. ASSUME NEW t \in Threads, Call(t) PROVE [CanaryNext]_canaryVars
  BY <1>3 DEF Call, PublishStep, EndPublish, ConsumeStep, EndConsume, FindNone, CanaryNext
<1>4. ASSUME NEW t \in Threads, GiveUp(t) PROVE UNCHANGED canaryVars
  BY <1>4 DEF GiveUp
<1> QED
  BY <1>1, <1>2, <1>3, <1>4 DEF Next

\* The inductive invariant holds throughout.
LEMMA InvHolds == Spec => []Inv
<1>1. Init => Inv
  BY InitInv DEF Init
<1>2. Inv /\ [Next]_vars => Inv'
  BY StepIsCanary, StepInv
<1> QED
  BY <1>1, <1>2, PTL DEF Spec

\* "Exactly one producer thread, exactly one consumer thread": however many
\* threads call, whoever is past check_single_thread holds the claim.
THEOREM OneThread == Spec => []OneThreadPerRole
<1>1. Inv => OneThreadPerRole
  BY DEF Inv
<1> QED
  BY <1>1, InvHolds, PTL

\* "... forever": the first caller's claim is never taken from it.
THEOREM Forever == Spec => ClaimIsForever
<1>1. Inv /\ [Next]_vars => [KeepsClaims]_canaryVars
  BY StepIsCanary, StepKeepsClaim
<1> QED
  BY <1>1, InvHolds, PTL DEF Spec, ClaimIsForever, KeepsClaims

------------------------------------------------------------------------------
(***************************************************************************)
(* What reaches the ring.                                                  *)
(***************************************************************************)

\* The four variables of SpscDisruptor that belong to a role, as DebugRing has
\* them: the local variables of the thread that claimed the role.
PublisherPc == IF Owner("producer") = NoThread THEN "idle" ELSE local[Owner("producer")].pcP
PublisherOffer == IF Owner("producer") = NoThread THEN NoTick ELSE local[Owner("producer")].offer
ConsumerPc == IF Owner("consumer") = NoThread THEN "poll" ELSE local[Owner("consumer")].pcC
ConsumerTick == IF Owner("consumer") = NoThread THEN NoTick ELSE local[Owner("consumer")].tick

Locals ==
  [pcP : {"idle", "check", "count", "refused", "write", "commit", "advance"},
   offer : Ticks \cup {NoTick},
   pcC : {"poll", "read", "release", "advance"},
   tick : Ticks \cup {NoTick}]

\* A thread that has not claimed a role is not in the middle of its calls.
StrangersOutside ==
  \A t \in Threads :
    /\ claimed["producer"] # t => local[t].pcP = "idle" /\ local[t].offer = NoTick
    /\ claimed["consumer"] # t => local[t].pcC = "poll" /\ local[t].tick = NoTick

RingInv == Inv /\ local \in [Threads -> Locals] /\ StrangersOutside

\* Every thread starts outside both calls.
LEMMA InitRingInv == Init => RingInv
<1>1. OutsideCalls \in Locals
  BY DEF OutsideCalls, Locals
<1>2. Init => local \in [Threads -> Locals]
  BY <1>1 DEF Init
<1>3. Init => StrangersOutside
  <2> SUFFICES ASSUME Init, NEW t \in Threads
               PROVE  /\ local[t].pcP = "idle" /\ local[t].offer = NoTick
                      /\ local[t].pcC = "poll" /\ local[t].tick = NoTick
    BY Zenon DEF StrangersOutside
  <2>1. local[t] = OutsideCalls
    BY DEF Init
  <2> QED
    BY <2>1 DEF OutsideCalls
<1> QED
  BY <1>2, <1>3, InitInv DEF Init, RingInv

\* A step of the producer's thread moves the producer's variables and no others.
LEMMA ProducerView ==
  ASSUME RingInv, NEW t \in Threads, claimed["producer"] = t,
         MovesProducer(t), UNCHANGED claimed
  PROVE  /\ local' \in [Threads -> Locals]
         /\ StrangersOutside'
         /\ PublisherPc = local[t].pcP /\ PublisherPc' = local'[t].pcP
         /\ PublisherOffer = local[t].offer /\ PublisherOffer' = local'[t].offer
         /\ ConsumerPc' = ConsumerPc /\ ConsumerTick' = ConsumerTick
<1>1. t # NoThread
  BY CanaryAssumption
<1>2. PICK p \in {"idle", "check", "count", "refused", "write", "commit", "advance"},
           x \in Ticks \cup {NoTick} :
        local' = [local EXCEPT ![t] = [@ EXCEPT !.pcP = p, !.offer = x]]
  BY DEF MovesProducer
<1>3. /\ local \in [Threads -> Locals]
      /\ claimed \in [Roles -> Threads \cup {NoThread}]
  BY DEF RingInv, Inv, CanaryTypeOK
<1>4. /\ local' \in [Threads -> Locals]
      /\ local'[t].pcP = p /\ local'[t].offer = x
      /\ local'[t].pcC = local[t].pcC /\ local'[t].tick = local[t].tick
      /\ \A u \in Threads : u # t => local'[u] = local[u]
  <2> DEFINE moved == local'[t]
  <2>1. local[t] \in Locals
    BY <1>3
  <2>2. local' = [local EXCEPT ![t] = moved] /\ \A u \in Threads : u # t => local'[u] = local[u]
    BY <1>2, <1>3
  <2>3. moved = [local[t] EXCEPT !.pcP = p, !.offer = x]
    BY <1>2, <1>3
  <2> HIDE DEF moved
  <2>4. /\ moved \in Locals /\ moved.pcP = p /\ moved.offer = x
        /\ moved.pcC = local[t].pcC /\ moved.tick = local[t].tick
    BY <2>1, <2>3 DEF Locals
  <2>5. local' \in [Threads -> Locals]
    BY <1>3, <2>2, <2>4
  <2> QED
    BY <2>2, <2>4, <2>5 DEF moved
<1>5. StrangersOutside'
  BY <1>4 DEF RingInv, StrangersOutside
<1>6. /\ PublisherPc = local[t].pcP /\ PublisherPc' = local'[t].pcP
      /\ PublisherOffer = local[t].offer /\ PublisherOffer' = local'[t].offer
  BY <1>1 DEF PublisherPc, PublisherOffer, Owner
<1>7. ConsumerPc' = ConsumerPc /\ ConsumerTick' = ConsumerTick
  <2>1. claimed["consumer"] = NoThread \/ claimed["consumer"] \in Threads
    BY <1>3 DEF Roles
  <2> QED
    BY <1>4, <2>1 DEF ConsumerPc, ConsumerTick, Owner
<1> QED
  BY <1>4, <1>5, <1>6, <1>7

\* A step of the consumer's thread moves the consumer's variables and no others.
LEMMA ConsumerView ==
  ASSUME RingInv, NEW t \in Threads, claimed["consumer"] = t,
         MovesConsumer(t), UNCHANGED claimed
  PROVE  /\ local' \in [Threads -> Locals]
         /\ StrangersOutside'
         /\ ConsumerPc = local[t].pcC /\ ConsumerPc' = local'[t].pcC
         /\ ConsumerTick = local[t].tick /\ ConsumerTick' = local'[t].tick
         /\ PublisherPc' = PublisherPc /\ PublisherOffer' = PublisherOffer
<1>1. t # NoThread
  BY CanaryAssumption
<1>2. PICK p \in {"poll", "read", "release", "advance"}, x \in Ticks \cup {NoTick} :
        local' = [local EXCEPT ![t] = [@ EXCEPT !.pcC = p, !.tick = x]]
  BY DEF MovesConsumer
<1>3. /\ local \in [Threads -> Locals]
      /\ claimed \in [Roles -> Threads \cup {NoThread}]
  BY DEF RingInv, Inv, CanaryTypeOK
<1>4. /\ local' \in [Threads -> Locals]
      /\ local'[t].pcC = p /\ local'[t].tick = x
      /\ local'[t].pcP = local[t].pcP /\ local'[t].offer = local[t].offer
      /\ \A u \in Threads : u # t => local'[u] = local[u]
  <2> DEFINE moved == local'[t]
  <2>1. local[t] \in Locals
    BY <1>3
  <2>2. local' = [local EXCEPT ![t] = moved] /\ \A u \in Threads : u # t => local'[u] = local[u]
    BY <1>2, <1>3
  <2>3. moved = [local[t] EXCEPT !.pcC = p, !.tick = x]
    BY <1>2, <1>3
  <2> HIDE DEF moved
  <2>4. /\ moved \in Locals /\ moved.pcC = p /\ moved.tick = x
        /\ moved.pcP = local[t].pcP /\ moved.offer = local[t].offer
    BY <2>1, <2>3 DEF Locals
  <2>5. local' \in [Threads -> Locals]
    BY <1>3, <2>2, <2>4
  <2> QED
    BY <2>2, <2>4, <2>5 DEF moved
<1>5. StrangersOutside'
  BY <1>4 DEF RingInv, StrangersOutside
<1>6. /\ ConsumerPc = local[t].pcC /\ ConsumerPc' = local'[t].pcC
      /\ ConsumerTick = local[t].tick /\ ConsumerTick' = local'[t].tick
  BY <1>1 DEF ConsumerPc, ConsumerTick, Owner
<1>7. PublisherPc' = PublisherPc /\ PublisherOffer' = PublisherOffer
  <2>1. claimed["producer"] = NoThread \/ claimed["producer"] \in Threads
    BY <1>3 DEF Roles
  <2> QED
    BY <1>4, <2>1 DEF PublisherPc, PublisherOffer, Owner
<1> QED
  BY <1>4, <1>5, <1>6, <1>7

\* A line of try_publish, run by the thread that claimed the role, is that line
\* of the ring's one producer.
LEMMA PublisherStepIsRing ==
  ASSUME RingInv, NEW t \in Threads, claimed["producer"] = t,
         MovesProducer(t), UNCHANGED claimed,
         \/ \E x \in Ticks : Ring(t)!Offer(x)
         \/ Ring(t)!Retry
         \/ Ring(t)!CheckWritable
         \/ Ring(t)!WriteTick
         \/ Ring(t)!Commit
         \/ Ring(t)!CountDrop
         \/ Ring(t)!AdvanceProducer
         \/ Ring(t)!GiveUp
  PROVE  Spsc!Next
<1>1. /\ PublisherPc = local[t].pcP /\ PublisherPc' = local'[t].pcP
      /\ PublisherOffer = local[t].offer /\ PublisherOffer' = local'[t].offer
      /\ ConsumerPc' = ConsumerPc /\ ConsumerTick' = ConsumerTick
  BY ProducerView
<1> USE DEF PublisherPc, PublisherOffer, ConsumerPc, ConsumerTick
<1>2. ASSUME NEW x \in Ticks, Ring(t)!Offer(x) PROVE Spsc!Next
  <2>1. Spsc!Offer(x)
    BY <1>1, <1>2 DEF Ring!Offer, Spsc!Offer, Ring!consumerVars, Spsc!consumerVars
  <2> QED
    BY <2>1 DEF Spsc!Next
<1>3. CASE Ring(t)!Retry
  <2>1. Spsc!Retry
    BY <1>1, <1>3 DEF Ring!Retry, Ring!consumerVars, Spsc!Retry, Spsc!consumerVars
  <2> QED
    BY <2>1 DEF Spsc!Next
<1>4. CASE Ring(t)!CheckWritable
  <2>1. Spsc!CheckWritable
    BY <1>1, <1>4 DEF Ring!CheckWritable, Ring!Writable, Ring!Slot,
           Ring!consumerVars, Spsc!CheckWritable, Spsc!Writable, Spsc!Slot,
           Spsc!consumerVars
  <2> QED
    BY <2>1 DEF Spsc!Next, Spsc!TryPublish
<1>5. CASE Ring(t)!WriteTick
  <2>1. Spsc!WriteTick
    BY <1>1, <1>5 DEF Ring!WriteTick, Ring!Slot, Ring!consumerVars, Spsc!WriteTick,
           Spsc!Slot, Spsc!consumerVars
  <2> QED
    BY <2>1 DEF Spsc!Next, Spsc!TryPublish
<1>6. CASE Ring(t)!Commit
  <2>1. Spsc!Commit
    BY <1>1, <1>6 DEF Ring!Commit, Ring!Slot, Ring!WrappingAdd, Ring!consumerVars,
           Spsc!Commit, Spsc!Slot, Spsc!WrappingAdd, Spsc!consumerVars
  <2> QED
    BY <2>1 DEF Spsc!Next, Spsc!TryPublish
<1>7. CASE Ring(t)!CountDrop
  <2>1. Spsc!CountDrop
    BY <1>1, <1>7 DEF Ring!CountDrop, Ring!WrappingAdd, Ring!consumerVars,
           Spsc!CountDrop, Spsc!WrappingAdd, Spsc!consumerVars
  <2> QED
    BY <2>1 DEF Spsc!Next, Spsc!TryPublish
<1>8. CASE Ring(t)!AdvanceProducer
  <2>1. Spsc!AdvanceProducer
    BY <1>1, <1>8 DEF Ring!AdvanceProducer, Ring!WrappingAdd, Ring!consumerVars,
           Spsc!AdvanceProducer, Spsc!WrappingAdd, Spsc!consumerVars
  <2> QED
    BY <2>1 DEF Spsc!Next, Spsc!TryPublish
<1>9. CASE Ring(t)!GiveUp
  <2>1. Spsc!GiveUp
    BY <1>1, <1>9 DEF Ring!GiveUp, Ring!consumerVars, Spsc!GiveUp, Spsc!consumerVars
  <2> QED
    BY <2>1 DEF Spsc!Next
<1> QED
  BY <1>2, <1>3, <1>4, <1>5, <1>6, <1>7, <1>8, <1>9

\* A line of try_consume, run by the thread that claimed the role, is that line
\* of the ring's one consumer.
LEMMA ConsumerStepIsRing ==
  ASSUME RingInv, NEW t \in Threads, claimed["consumer"] = t,
         MovesConsumer(t), UNCHANGED claimed,
         \/ Ring(t)!CheckReadable
         \/ Ring(t)!ReadTick
         \/ Ring(t)!Release
         \/ Ring(t)!AdvanceConsumer
  PROVE  Spsc!Next
<1>1. /\ ConsumerPc = local[t].pcC /\ ConsumerPc' = local'[t].pcC
      /\ ConsumerTick = local[t].tick /\ ConsumerTick' = local'[t].tick
      /\ PublisherPc' = PublisherPc /\ PublisherOffer' = PublisherOffer
  BY ConsumerView
<1> USE DEF PublisherPc, PublisherOffer, ConsumerPc, ConsumerTick
<1>2. CASE Ring(t)!CheckReadable
  <2>1. Spsc!CheckReadable
    BY <1>1, <1>2 DEF Ring!CheckReadable, Ring!Readable, Ring!Slot,
           Ring!WrappingAdd, Ring!producerVars, Spsc!CheckReadable, Spsc!Readable,
           Spsc!Slot, Spsc!WrappingAdd, Spsc!producerVars
  <2> QED
    BY <2>1 DEF Spsc!Next, Spsc!TryConsume
<1>3. CASE Ring(t)!ReadTick
  <2>1. Spsc!ReadTick
    BY <1>1, <1>3 DEF Ring!ReadTick, Ring!Slot, Ring!producerVars, Spsc!ReadTick,
           Spsc!Slot, Spsc!producerVars
  <2> QED
    BY <2>1 DEF Spsc!Next, Spsc!TryConsume
<1>4. CASE Ring(t)!Release
  <2>1. Spsc!Release
    BY <1>1, <1>4 DEF Ring!Release, Ring!Slot, Ring!WrappingAdd, Ring!producerVars,
           Spsc!Release, Spsc!Slot, Spsc!WrappingAdd, Spsc!producerVars
  <2> QED
    BY <2>1 DEF Spsc!Next, Spsc!TryConsume
<1>5. CASE Ring(t)!AdvanceConsumer
  <2>1. Spsc!AdvanceConsumer
    BY <1>1, <1>5 DEF Ring!AdvanceConsumer, Ring!WrappingAdd, Ring!producerVars,
           Spsc!AdvanceConsumer, Spsc!WrappingAdd, Spsc!producerVars
  <2> QED
    BY <2>1 DEF Spsc!Next, Spsc!TryConsume
<1> QED
  BY <1>2, <1>3, <1>4, <1>5

\* A claim is made by a thread that is outside both calls, so that the ring does
\* not see it being made.
LEMMA EnterIsInvisible ==
  ASSUME RingInv, NEW t \in Threads, Enter(t)
  PROVE  /\ local' \in [Threads -> Locals] /\ StrangersOutside'
         /\ UNCHANGED Spsc!vars
<1>1. UNCHANGED ringVars
  BY DEF Enter
<1>2. local' = local /\ local \in [Threads -> Locals]
  BY <1>1 DEF ringVars, RingInv
<1>3. CASE UNCHANGED claimed
  <2>1. StrangersOutside'
    BY <1>2, <1>3 DEF StrangersOutside, RingInv
  <2>2. /\ PublisherPc' = PublisherPc /\ PublisherOffer' = PublisherOffer
        /\ ConsumerPc' = ConsumerPc /\ ConsumerTick' = ConsumerTick
    BY <1>2, <1>3 DEF PublisherPc, PublisherOffer, ConsumerPc, ConsumerTick, Owner
  <2> QED
    BY <1>1, <1>2, <2>1, <2>2
       DEF ringVars, Spsc!vars, Spsc!producerVars, Spsc!consumerVars,
           PublisherPc, PublisherOffer, ConsumerPc, ConsumerTick
<1>4. CASE Claim(t)
  <2>1. /\ role[t] \in Roles /\ claimed[role[t]] = NoThread
        /\ claimed' = [claimed EXCEPT ![role[t]] = t]
        /\ claimed \in [Roles -> Threads \cup {NoThread}]
    BY <1>4 DEF Claim, RingInv, Inv, CanaryTypeOK, SeenIsClaimed
  <2>2. t # NoThread
    BY CanaryAssumption
  <2>3. StrangersOutside'
    <3> SUFFICES ASSUME NEW u \in Threads
                 PROVE  /\ claimed'["producer"] # u => local[u].pcP = "idle" /\ local[u].offer = NoTick
                        /\ claimed'["consumer"] # u => local[u].pcC = "poll" /\ local[u].tick = NoTick
      BY <1>2 DEF StrangersOutside
    <3>1. u # NoThread
      BY CanaryAssumption
    <3>2. \A r \in Roles : claimed'[r] # u => claimed[r] # u
      BY <2>1, <3>1
    <3> QED
      BY <3>2 DEF RingInv, StrangersOutside, Roles
  <2>4. /\ PublisherPc' = PublisherPc /\ PublisherOffer' = PublisherOffer
        /\ ConsumerPc' = ConsumerPc /\ ConsumerTick' = ConsumerTick
    <3>1. CASE role[t] = "producer"
      <4>1. /\ claimed["producer"] = NoThread /\ claimed'["producer"] = t
            /\ claimed'["consumer"] = claimed["consumer"]
        BY <2>1, <3>1 DEF Roles
      <4>2. local[t].pcP = "idle" /\ local[t].offer = NoTick
        BY <2>2, <4>1 DEF RingInv, StrangersOutside
      <4> QED
        BY <1>2, <2>2, <4>1, <4>2
           DEF PublisherPc, PublisherOffer, ConsumerPc, ConsumerTick, Owner
    <3>2. CASE role[t] = "consumer"
      <4>1. /\ claimed["consumer"] = NoThread /\ claimed'["consumer"] = t
            /\ claimed'["producer"] = claimed["producer"]
        BY <2>1, <3>2 DEF Roles
      <4>2. local[t].pcC = "poll" /\ local[t].tick = NoTick
        BY <2>2, <4>1 DEF RingInv, StrangersOutside
      <4> QED
        BY <1>2, <2>2, <4>1, <4>2
           DEF PublisherPc, PublisherOffer, ConsumerPc, ConsumerTick, Owner
    <3> QED
      BY <2>1, <3>1, <3>2 DEF Roles
  <2> QED
    BY <1>1, <1>2, <2>3, <2>4
       DEF ringVars, Spsc!vars, Spsc!producerVars, Spsc!consumerVars,
           PublisherPc, PublisherOffer, ConsumerPc, ConsumerTick
<1> QED
  BY <1>3, <1>4 DEF Enter, EndCheck, Lock, Recognise, Panic

\* What every step of the debug ring is to the ring behind its canaries.
StepOfRing ==
  /\ local' \in [Threads -> Locals]
  /\ StrangersOutside'
  /\ [Spsc!Next]_(Spsc!vars)

\* Whichever thread takes it, a step is one of the ring or invisible to it.
LEMMA StepIsRing ==
  ASSUME RingInv, [Next]_vars
  PROVE  StepOfRing
<1>1. \A t \in Threads : \A r \in Roles : Inside(t, r) => claimed[r] = t
  BY DEF Inside, RingInv, Inv, OneThreadPerRole
<1>2. \A t \in Threads : Return(t) => UNCHANGED claimed
  BY DEF Return
<1>3. UNCHANGED canaryVars => UNCHANGED claimed
  BY DEF canaryVars
<1>4. "producer" \in Roles /\ "consumer" \in Roles
  BY DEF Roles
<1>5. CASE UNCHANGED vars
  BY <1>5
     DEF vars, canaryVars, ringVars, StepOfRing, RingInv, StrangersOutside, Owner, Locals,
         Spsc!vars, Spsc!producerVars, Spsc!consumerVars
<1>6. ASSUME NEW t \in Threads, Enter(t) PROVE StepOfRing
  BY <1>6, EnterIsInvisible DEF StepOfRing
<1>7. ASSUME NEW t \in Threads, PublishStep(t) PROVE StepOfRing
  <2>1. /\ claimed["producer"] = t /\ UNCHANGED claimed /\ MovesProducer(t)
        /\ \/ \E x \in Ticks : Ring(t)!Offer(x)
           \/ Ring(t)!Retry
           \/ Ring(t)!CheckWritable
           \/ Ring(t)!WriteTick
           \/ Ring(t)!Commit
    BY <1>1, <1>3, <1>4, <1>7 DEF PublishStep
  <2> QED
    BY <2>1, ProducerView, PublisherStepIsRing DEF StepOfRing
<1>8. ASSUME NEW t \in Threads, EndPublish(t) PROVE StepOfRing
  <2>1. /\ claimed["producer"] = t /\ UNCHANGED claimed /\ MovesProducer(t)
        /\ Ring(t)!CountDrop \/ Ring(t)!AdvanceProducer
    BY <1>1, <1>2, <1>4, <1>8 DEF EndPublish
  <2> QED
    BY <2>1, ProducerView, PublisherStepIsRing DEF StepOfRing
<1>9. ASSUME NEW t \in Threads, ConsumeStep(t) PROVE StepOfRing
  <2>1. /\ claimed["consumer"] = t /\ UNCHANGED claimed /\ MovesConsumer(t)
        /\ Ring(t)!CheckReadable \/ Ring(t)!ReadTick \/ Ring(t)!Release
    BY <1>1, <1>3, <1>4, <1>9 DEF ConsumeStep
  <2> QED
    BY <2>1, ConsumerView, ConsumerStepIsRing DEF StepOfRing
<1>10. ASSUME NEW t \in Threads, EndConsume(t) PROVE StepOfRing
  <2>1. /\ claimed["consumer"] = t /\ UNCHANGED claimed /\ MovesConsumer(t)
        /\ Ring(t)!AdvanceConsumer
    BY <1>1, <1>2, <1>4, <1>10 DEF EndConsume
  <2> QED
    BY <2>1, ConsumerView, ConsumerStepIsRing DEF StepOfRing
<1>11. ASSUME NEW t \in Threads, FindNone(t) PROVE StepOfRing
  <2>1. UNCHANGED ringVars /\ UNCHANGED claimed
    BY <1>2, <1>11 DEF FindNone
  <2> QED
    BY <2>1
       DEF ringVars, StepOfRing, RingInv, StrangersOutside, Owner, Locals,
           Spsc!vars, Spsc!producerVars, Spsc!consumerVars
<1>12. ASSUME NEW t \in Threads, GiveUp(t) PROVE StepOfRing
  <2>1. UNCHANGED claimed /\ MovesProducer(t) /\ Ring(t)!GiveUp
    BY <1>3, <1>12 DEF GiveUp
  <2>2. claimed["producer"] = t
    BY <2>1 DEF Ring!GiveUp, RingInv, StrangersOutside
  <2> QED
    BY <2>1, <2>2, ProducerView, PublisherStepIsRing DEF StepOfRing
<1> QED
  BY <1>5, <1>6, <1>7, <1>8, <1>9, <1>10, <1>11, <1>12 DEF Next, Call

\* The invariant of the canary and of the threads' local variables holds.
LEMMA RingInvHolds == Spec => []RingInv
<1>1. Init => RingInv
  BY InitRingInv
<1>2. RingInv /\ [Next]_vars => RingInv'
  BY StepIsRing, StepIsCanary, StepInv DEF RingInv, StepOfRing, Locals
<1> QED
  BY <1>1, <1>2, PTL DEF Spec

\* However many threads call a debug build's ring, in whatever role, and
\* whichever panic: what they do to it is what one producer thread and one
\* consumer thread do.
THEOREM CanaryGuardsRing == Spec => IsRing
<1>1. Init => Spsc!Init
  BY DEF Init
<1>2. RingInv /\ [Next]_vars => [Spsc!Next]_(Spsc!vars)
  BY StepIsRing DEF StepOfRing
<1> QED
  BY <1>1, <1>2, RingInvHolds, PTL DEF Spec, IsRing, Spsc!Spec

------------------------------------------------------------------------------
(***************************************************************************)
(* What is proved of the ring is thereby proved of the debug ring.  Nobody *)
(* is reading its gauges.                                                  *)
(***************************************************************************)
Proved == INSTANCE SpscDisruptorProofs WITH
  pcP <- PublisherPc, offer <- PublisherOffer,
  pcC <- ConsumerPc, tick <- ConsumerTick,
  pcM <- "idle", seenProducer <- 0, published <- 0

\* The ring that SpscDisruptorProofs is about is the one of IsRing.
LEMMA SameRing ==
  /\ Spsc!Init => Proved!Init
  /\ [Spsc!Next]_(Spsc!vars) => [Proved!Next]_(Proved!vars)
  /\ Spsc!TypeOK <=> Proved!TypeOK
<1> USE DEF PublisherPc, PublisherOffer, ConsumerPc, ConsumerTick,
            Spsc!Slots, Proved!Slots, Spsc!Counters, Proved!Counters
<1>1. Spsc!Init => Proved!Init
  BY DEF Spsc!Init, Proved!Init
<1>2. Spsc!TypeOK <=> Proved!TypeOK
  BY DEF Spsc!TypeOK, Proved!TypeOK
<1>3. [Spsc!Next]_(Spsc!vars) => [Proved!Next]_(Proved!vars)
  <2> USE DEF Spsc!producerVars, Proved!producerVars, Spsc!consumerVars,
              Proved!consumerVars, Spsc!Slot, Proved!Slot,
              Spsc!WrappingAdd, Proved!WrappingAdd
  <2>1. UNCHANGED Spsc!vars => UNCHANGED Proved!vars
    BY DEF Spsc!vars, Proved!vars
  <2>2. ASSUME NEW x \in Ticks PROVE Spsc!Offer(x) => Proved!Offer(x)
    BY DEF Spsc!Offer, Proved!Offer
  <2>3. /\ Spsc!CheckWritable => Proved!CheckWritable
        /\ Spsc!CountDrop => Proved!CountDrop
        /\ Spsc!WriteTick => Proved!WriteTick
        /\ Spsc!Commit => Proved!Commit
        /\ Spsc!AdvanceProducer => Proved!AdvanceProducer
    BY DEF Spsc!CheckWritable, Proved!CheckWritable, Spsc!Writable, Proved!Writable,
           Spsc!CountDrop, Proved!CountDrop, Spsc!WriteTick, Proved!WriteTick,
           Spsc!Commit, Proved!Commit, Spsc!AdvanceProducer, Proved!AdvanceProducer
  <2>4. /\ Spsc!Retry => Proved!Retry
        /\ Spsc!GiveUp => Proved!GiveUp
    BY DEF Spsc!Retry, Proved!Retry, Spsc!GiveUp, Proved!GiveUp
  <2>5. /\ Spsc!CheckReadable => Proved!CheckReadable
        /\ Spsc!ReadTick => Proved!ReadTick
        /\ Spsc!Release => Proved!Release
        /\ Spsc!AdvanceConsumer => Proved!AdvanceConsumer
    BY DEF Spsc!CheckReadable, Proved!CheckReadable, Spsc!Readable, Proved!Readable,
           Spsc!ReadTick, Proved!ReadTick, Spsc!Release, Proved!Release,
           Spsc!AdvanceConsumer, Proved!AdvanceConsumer
  <2>6. Spsc!Next => Proved!Next
    BY <2>2, <2>3, <2>4, <2>5
       DEF Spsc!Next, Proved!Next, Spsc!TryPublish, Proved!TryPublish,
           Spsc!TryConsume, Proved!TryConsume
  <2> QED
    BY <2>1, <2>6
<1> QED
  BY <1>1, <1>2, <1>3

\* The debug ring is the ring of the proofs.
LEMMA CanaryGuardsProvedRing == Spec => Proved!Spec
<1>1. Init => Proved!Init
  BY SameRing DEF Init
<1>2. RingInv /\ [Next]_vars => [Proved!Next]_(Proved!vars)
  BY StepIsRing, SameRing DEF StepOfRing
<1> QED
  BY <1>1, <1>2, RingInvHolds, PTL DEF Spec, Proved!Spec

\* Neither the canary nor the ring behind it leaves its types, whoever calls.
THEOREM DebugTypeCorrect == Spec => []TypeOK
<1>1. Proved!Spec => []Proved!TypeOK
  BY Proved!TypeCorrect, DebugRingAssumption, PTL
<1>2. RingInv /\ Proved!TypeOK => TypeOK
  <2>1. RingInv => CanaryTypeOK /\ DOMAIN local = Threads
    BY DEF RingInv, Inv
  <2> QED
    BY <2>1, SameRing DEF TypeOK
<1> QED
  BY <1>1, <1>2, RingInvHolds, CanaryGuardsProvedRing, PTL

\* "Quietly corrupts the ring" does not happen in a debug build: with any number
\* of threads calling at any time, no two are ever in the same slot, and the
\* ring still is a bounded first-in first-out queue.
THEOREM NeverCorrupted == Spec => []Proved!NoSharedSlot /\ Proved!IsBoundedQueue
<1>1. Proved!Spec => []Proved!NoSharedSlot
  BY Proved!Exclusion, DebugRingAssumption, PTL
<1>2. Proved!Spec => Proved!IsBoundedQueue
  BY Proved!Refinement, DebugRingAssumption, PTL
<1> QED
  BY <1>1, <1>2, CanaryGuardsProvedRing, PTL

==============================================================================
