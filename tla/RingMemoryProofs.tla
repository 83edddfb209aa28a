--------------------------- MODULE RingMemoryProofs ---------------------------
(***************************************************************************)
(* The ring on weak memory, for every ring size and any number of ticks:   *)
(* the two Release/Acquire pairs order all accesses to a slot, and the     *)
(* tick that is read is the one that was published.                        *)
(***************************************************************************)
EXTENDS RingMemory, TLAPS

(***************************************************************************)
(* The inductive invariant.  It says nothing of which store of a counter a *)
(* thread reads, nor of the order of the stores: any store with the value  *)
(* a thread waits for hands on what the thread has to know.                *)
(***************************************************************************)
Prod == cursor["producer"]
Cons == cursor["consumer"]

Stores == [value : Nat, knows : [seen : [Slots -> Nat], clock : [Threads -> Nat]]]

Types ==
  /\ history \in [Slots -> Seq(Stores)]
  /\ written \in [Slots -> Int]
  /\ read \in [Slots -> Int]
  /\ cell \in [Slots -> Int]
  /\ cursor \in [Threads -> Nat]
  /\ pc \in [Threads -> {"load", "access", "store"}]
  /\ seen \in [Threads -> [Slots -> Nat \ {0}]]
  /\ clock \in [Threads -> [Threads -> Nat]]
  /\ tick \in Int
  /\ raced \in BOOLEAN

\* A thread has counted its own stores and knows of no store yet to come.
Clocks ==
  \A t \in Threads :
    /\ clock[t][t] = cursor[t]
    /\ \A u \in Threads : clock[t][u] <= cursor[u]

\* A store that frees slot s for a round was made by a consumer that had read
\* the round before; one that publishes was made by a producer that had written.
Honest(s, store) ==
  /\ \A t \in Threads : store.knows.clock[t] <= cursor[t]
  /\ store.value % RingSize = s =>
       /\ store.value < Cons + RingSize
       /\ store.value < store.knows.clock["consumer"] + RingSize
  /\ store.value % RingSize # s =>
       /\ store.value <= Prod
       /\ store.value <= store.knows.clock["producer"]

HistoryHonest ==
  \A s \in Slots : \A i \in 1 .. Len(history[s]) : Honest(s, history[s][i])

\* Past its check, each thread knows of the other's last access to the slot.
ProducerKnows ==
  /\ pc["producer"] # "load" =>
       /\ Prod < Cons + RingSize
       /\ Prod < clock["producer"]["consumer"] + RingSize
  /\ pc["producer"] = "store" => cell[SlotOf("producer")] = Prod

ConsumerKnows ==
  /\ pc["consumer"] # "load" =>
       /\ Cons < Prod
       /\ Cons < clock["consumer"]["producer"]
  /\ pc["consumer"] = "store" => tick = Cons

\* What is queued is in its slots, and each access was to its own position.
CellsHold ==
  /\ \A c \in Cons .. Prod - 1 : cell[c % RingSize] = c
  /\ \A s \in Slots :
       /\ written[s] = cell[s] + 1
       /\ read[s] > 0 => (read[s] - 1) % RingSize = s /\ read[s] <= Prod

MemoryInv ==
  /\ Types
  /\ Clocks
  /\ HistoryHonest
  /\ ProducerKnows
  /\ ConsumerKnows
  /\ CellsHold
  /\ raced = FALSE

------------------------------------------------------------------------------
\* What MemoryAssumption says of the ring.
LEMMA Ring ==
  /\ RingSize \in Nat /\ RingSize > 1
  /\ "producer" \in Threads /\ "consumer" \in Threads /\ "producer" # "consumer"
BY MemoryAssumption DEF Threads

\* Division with remainder: the step from % and \div to plain arithmetic.
LEMMA Division ==
  ASSUME NEW a \in Int
  PROVE  /\ a % RingSize \in 0 .. RingSize - 1
         /\ a \div RingSize \in Int
         /\ a = RingSize * (a \div RingSize) + (a % RingSize)
BY Ring

\* & MASK selects an existing node.
LEMMA SlotType ==
  ASSUME NEW a \in Int
  PROVE  a % RingSize \in Slots
BY Division DEF Slots

\* No multiple of the ring size lies strictly between zero and the ring size.
LEMMA NoMultipleBetween ==
  ASSUME NEW q \in Int, 0 < RingSize * q
  PROVE  RingSize <= RingSize * q
BY Ring

\* Within a round, different positions have different slots.
LEMMA RoundsDiffer ==
  ASSUME NEW a \in Int, NEW b \in Int, a < b, b < a + RingSize
  PROVE  a % RingSize # b % RingSize
<1> SUFFICES ASSUME a % RingSize = b % RingSize PROVE FALSE
  OBVIOUS
<1> DEFINE q == (b \div RingSize) - (a \div RingSize)
<1>1. q \in Int /\ RingSize * q = b - a
  BY Division, Ring
<1> HIDE DEF q
<1> QED
  BY <1>1, Ring, NoMultipleBetween

\* One round later the slot is the same.
LEMMA NextRound ==
  ASSUME NEW a \in Int
  PROVE  (a + RingSize) % RingSize = a % RingSize
<1> DEFINE q == a \div RingSize
           r == a % RingSize
<1>1. q \in Int /\ r \in 0 .. RingSize - 1 /\ a = RingSize * q + r
  BY Division
<1> HIDE DEF q, r
<1>2. q + 1 \in Int /\ a + RingSize = RingSize * (q + 1) + r
  BY <1>1, Ring
<1>3. (a + RingSize) % RingSize = r
  BY <1>1, <1>2, Ring
<1> QED
  BY <1>3 DEF r

\* The larger of two numbers.
LEMMA LaterType ==
  ASSUME NEW a \in Nat, NEW b \in Nat
  PROVE  /\ Later(a, b) \in Nat
         /\ Later(a, b) >= a /\ Later(a, b) >= b
         /\ \A c \in Nat : a <= c /\ b <= c => Later(a, b) <= c
BY DEF Later

------------------------------------------------------------------------------
\* DisruptorRing::new: every slot free for the first round, nothing known.
LEMMA InitMemoryInv == Init => MemoryInv
<1> SUFFICES ASSUME Init PROVE MemoryInv
  OBVIOUS
<1>1. Types
  <2>1. Nothing \in [seen : [Slots -> Nat], clock : [Threads -> Nat]]
    BY DEF Nothing, Knows
  <2>2. \A s \in Slots : s \in Nat
    BY DEF Slots
  <2>3. ASSUME NEW s \in Slots PROVE <<[value |-> s, knows |-> Nothing]>> \in Seq(Stores)
    <3>1. [value |-> s, knows |-> Nothing] \in Stores
      BY <2>1, <2>2 DEF Stores
    <3> QED
      BY <3>1
  <2>4. history \in [Slots -> Seq(Stores)]
    BY <2>3 DEF Init
  <2>5. /\ seen \in [Threads -> [Slots -> Nat \ {0}]]
        /\ clock \in [Threads -> [Threads -> Nat]]
    BY DEF Init, Nothing, Knows
  <2>6. /\ written \in [Slots -> Int] /\ read \in [Slots -> Int]
        /\ cell \in [Slots -> Int] /\ tick \in Int
        /\ cursor \in [Threads -> Nat]
    BY DEF Init, NoTick
  <2>7. pc \in [Threads -> {"load", "access", "store"}] /\ raced \in BOOLEAN
    BY Zenon DEF Init
  <2> QED
    BY <2>4, <2>5, <2>6, <2>7, Zenon DEF Types
<1>2. Prod = 0 /\ Cons = 0
  BY Ring DEF Init, Prod, Cons
<1>3. Clocks
  BY DEF Init, Clocks, Nothing, Knows
<1>4. HistoryHonest
  <2> SUFFICES ASSUME NEW s \in Slots PROVE \A i \in 1 .. Len(history[s]) : Honest(s, history[s][i])
    BY DEF HistoryHonest
  <2>1. history[s] = <<[value |-> s, knows |-> Nothing]>>
    BY DEF Init
  <2>2. s \in 0 .. RingSize - 1 /\ s % RingSize = s
    BY Ring DEF Slots
  <2>3. Honest(s, [value |-> s, knows |-> Nothing])
    BY <1>2, <2>2, Ring DEF Honest, Nothing, Knows, Init
  <2> QED
    BY <2>1, <2>3
<1>5. ProducerKnows /\ ConsumerKnows
  BY Ring DEF Init, ProducerKnows, ConsumerKnows
<1>6. CellsHold
  BY <1>2 DEF Init, CellsHold, NoTick
<1> QED
  BY <1>1, <1>3, <1>4, <1>5, <1>6 DEF MemoryInv, Init

------------------------------------------------------------------------------
\* Each thread's slot exists.
LEMMA SlotOfThread ==
  ASSUME Types
  PROVE  \A t \in Threads : SlotOf(t) \in Slots
BY SlotType DEF SlotOf, Types

\* What an Acquire load does to what a thread knows of the other.
LEMMA LearnClock ==
  ASSUME Types, Clocks, NEW t \in Threads, NEW knows, Learn(t, knows),
         knows.seen \in [Slots -> Nat], knows.clock \in [Threads -> Nat],
         \A u \in Threads : knows.clock[u] <= cursor[u],
         cursor' = cursor
  PROVE  /\ seen' \in [Threads -> [Slots -> Nat \ {0}]]
         /\ clock' \in [Threads -> [Threads -> Nat]]
         /\ Clocks'
         /\ \A u \in Threads : u # t => clock'[u] = clock[u]
         /\ \A u \in Threads : clock'[t][u] >= clock[t][u] /\ clock'[t][u] >= knows.clock[u]
<1>1. /\ seen[t] \in [Slots -> Nat \ {0}] /\ clock[t] \in [Threads -> Nat]
      /\ seen' = [seen EXCEPT ![t] = [s \in Slots |-> Later(seen[t][s], knows.seen[s])]]
      /\ clock' = [clock EXCEPT ![t] = [u \in Threads |-> Later(clock[t][u], knows.clock[u])]]
  BY DEF Types, Learn
<1>2. ASSUME NEW s \in Slots PROVE Later(seen[t][s], knows.seen[s]) \in Nat \ {0}
  BY <1>1 DEF Later
<1>3. ASSUME NEW u \in Threads
      PROVE  /\ Later(clock[t][u], knows.clock[u]) \in Nat
             /\ Later(clock[t][u], knows.clock[u]) >= clock[t][u]
             /\ Later(clock[t][u], knows.clock[u]) >= knows.clock[u]
             /\ Later(clock[t][u], knows.clock[u]) <= cursor[u]
  <2>1. clock[t][u] \in Nat /\ knows.clock[u] \in Nat /\ cursor[u] \in Nat
        /\ clock[t][u] <= cursor[u] /\ knows.clock[u] <= cursor[u]
    BY <1>1 DEF Types, Clocks
  <2> QED
    BY <2>1, LaterType
<1>4. seen' \in [Threads -> [Slots -> Nat \ {0}]]
  <2>1. [s \in Slots |-> Later(seen[t][s], knows.seen[s])] \in [Slots -> Nat \ {0}]
    BY <1>2
  <2> QED
    BY <1>1, <2>1 DEF Types
<1> DEFINE now == [u \in Threads |-> Later(clock[t][u], knows.clock[u])]
<1>5. now \in [Threads -> Nat]
      /\ \A u \in Threads : now[u] >= clock[t][u] /\ now[u] >= knows.clock[u]
                               /\ now[u] <= cursor[u]
  BY <1>3
<1> HIDE DEF now
<1>6. clock' = [clock EXCEPT ![t] = now]
  BY <1>1 DEF now
<1>7. clock' \in [Threads -> [Threads -> Nat]] /\ clock'[t] = now
      /\ \A u \in Threads : u # t => clock'[u] = clock[u]
  BY <1>5, <1>6 DEF Types
<1>8. now[t] = cursor[t]
  BY <1>5 DEF Clocks, Types
<1>9. Clocks'
  BY <1>5, <1>7, <1>8 DEF Clocks
<1> QED
  BY <1>4, <1>5, <1>7, <1>9

\* node.sequence.load: whichever store it reads, the one it waits for tells it
\* enough.
LEMMA StepLoad ==
  ASSUME MemoryInv, NEW t \in Threads, Load(t)
  PROVE  MemoryInv'
<1> DEFINE s == SlotOf(t)
<1>1. s \in Slots
  BY SlotOfThread DEF MemoryInv
<1>2. PICK i \in seen[t][s] .. Len(history[s]) :
        LET store == history[s][i]
        IN  /\ Learn(t, [store.knows EXCEPT !.seen[s] = Later(@, i)])
            /\ pc' = [pc EXCEPT ![t] = IF store.value = Expected(t) THEN "access" ELSE "load"]
  BY DEF Load
<1> DEFINE store == history[s][i]
           knows == [store.knows EXCEPT !.seen[s] = Later(@, i)]
<1>3. i \in Nat /\ i \in 1 .. Len(history[s]) /\ store \in Stores
  <2>1. seen[t][s] \in Nat \ {0} /\ history[s] \in Seq(Stores)
    BY <1>1 DEF MemoryInv, Types
  <2>2. i \in 1 .. Len(history[s]) /\ i \in Nat
    BY <2>1
  <2> QED
    BY <2>1, <2>2
<1>4. Honest(s, store)
  BY <1>1, <1>3 DEF MemoryInv, HistoryHonest
<1> HIDE DEF s
<1>5. /\ knows.seen \in [Slots -> Nat]
      /\ knows.clock = store.knows.clock /\ knows.clock \in [Threads -> Nat]
  <2> HIDE DEF store
  <2>1. store.knows \in [seen : [Slots -> Nat], clock : [Threads -> Nat]]
    BY <1>3 DEF Stores
  <2> DEFINE old == store.knows
  <2> HIDE DEF old
  <2>2. old.seen \in [Slots -> Nat] /\ old.clock \in [Threads -> Nat]
    BY <2>1 DEF old
  <2>3. Later(old.seen[s], i) \in Nat
    BY <1>1, <1>3, <2>2, LaterType
  <2> QED
    BY <1>1, <2>1, <2>2, <2>3 DEF old
<1>6. /\ UNCHANGED <<history, written, read, cell, cursor, tick, raced>>
      /\ Learn(t, knows)
      /\ pc' = [pc EXCEPT ![t] = IF store.value = Expected(t) THEN "access" ELSE "load"]
      /\ pc[t] = "load"
  BY <1>2 DEF Load
<1> HIDE DEF store, knows
<1>7. \A u \in Threads : knows.clock[u] <= cursor[u]
  BY <1>4, <1>5 DEF Honest
<1>8. /\ seen' \in [Threads -> [Slots -> Nat \ {0}]]
      /\ clock' \in [Threads -> [Threads -> Nat]]
      /\ Clocks'
      /\ \A u \in Threads : u # t => clock'[u] = clock[u]
      /\ \A u \in Threads : clock'[t][u] >= clock[t][u] /\ clock'[t][u] >= knows.clock[u]
  BY <1>5, <1>6, <1>7, LearnClock DEF MemoryInv
<1>9. /\ Prod' = Prod /\ Cons' = Cons /\ Prod \in Nat /\ Cons \in Nat
      /\ \A u \in Threads : SlotOf(u)' = SlotOf(u)
  BY <1>6, Ring DEF Prod, Cons, SlotOf, MemoryInv, Types
<1>10. Types'
  <2>1. pc' \in [Threads -> {"load", "access", "store"}]
    BY <1>6 DEF MemoryInv, Types
  <2>2. Slots' = Slots /\ Stores' = Stores /\ Threads' = Threads
    BY DEF Slots, Stores, Threads
  <2> QED
    BY <1>6, <1>8, <2>1, <2>2 DEF MemoryInv, Types
<1>11. HistoryHonest'
  BY <1>6, <1>9 DEF MemoryInv, HistoryHonest, Honest
<1>12. CellsHold'
  BY <1>6, <1>9 DEF MemoryInv, CellsHold
<1>13. ProducerKnows'
  <2>1. CASE t = "producer"
    <3>1. pc'["producer"] # "load" => store.value = Prod
      BY <1>6, <2>1, Ring DEF MemoryInv, Types, Expected, Prod
    <3>2. pc'["producer"] # "store"
      BY <1>6, <2>1, Ring DEF MemoryInv, Types
    <3>3. ASSUME store.value = Prod
          PROVE  Prod < Cons + RingSize /\ Prod < knows.clock["consumer"] + RingSize
      <4>1. store.value % RingSize = s
        BY <2>1, <3>3 DEF s, SlotOf, Prod
      <4> QED
        BY <1>4, <1>5, <3>3, <4>1 DEF Honest
    <3>4. /\ clock'["producer"]["consumer"] >= knows.clock["consumer"]
          /\ clock'["producer"]["consumer"] \in Nat /\ knows.clock["consumer"] \in Nat
      BY <1>5, <1>8, <2>1, Ring
    <3>5. ASSUME store.value = Prod
          PROVE  Prod < clock'["producer"]["consumer"] + RingSize
      BY <3>3, <3>4, <3>5, <1>9, Ring
    <3> QED
      BY <1>9, <3>1, <3>2, <3>3, <3>5 DEF ProducerKnows
  <2>2. CASE t # "producer"
    <3>1. pc'["producer"] = pc["producer"] /\ clock'["producer"] = clock["producer"]
      BY <1>6, <1>8, <2>2, Ring DEF MemoryInv, Types
    <3> QED
      BY <1>6, <1>9, <3>1, Ring DEF MemoryInv, ProducerKnows
  <2> QED
    BY <2>1, <2>2
<1>14. ConsumerKnows'
  <2>1. CASE t = "consumer"
    <3>1. pc'["consumer"] # "load" => store.value = Cons + 1
      BY <1>6, <2>1, Ring DEF MemoryInv, Types, Expected, Cons
    <3>2. pc'["consumer"] # "store"
      BY <1>6, <2>1, Ring DEF MemoryInv, Types
    <3>3. ASSUME store.value = Cons + 1
          PROVE  Cons < Prod /\ Cons < knows.clock["producer"]
      <4>1. store.value % RingSize # s
        <5>1. Cons % RingSize # (Cons + 1) % RingSize
          <6>1. /\ Cons \in Int /\ Cons + 1 \in Int
                /\ Cons < Cons + 1 /\ Cons + 1 < Cons + RingSize
            BY <1>9, Ring
          <6> QED
            BY <6>1, RoundsDiffer, Zenon
        <5> QED
          BY <2>1, <3>3, <5>1 DEF s, SlotOf, Cons
      <4>2. knows.clock["producer"] \in Nat
        BY <1>5, Ring
      <4>3. Cons + 1 <= Prod /\ Cons + 1 <= knows.clock["producer"]
        BY <1>4, <1>5, <3>3, <4>1 DEF Honest
      <4> QED
        BY <1>9, <4>2, <4>3
    <3>4. /\ clock'["consumer"]["producer"] >= knows.clock["producer"]
          /\ clock'["consumer"]["producer"] \in Nat /\ knows.clock["producer"] \in Nat
      BY <1>5, <1>8, <2>1, Ring
    <3>5. ASSUME store.value = Cons + 1
          PROVE  Cons < clock'["consumer"]["producer"]
      BY <3>3, <3>4, <3>5, <1>9
    <3> QED
      BY <1>9, <3>1, <3>2, <3>3, <3>5 DEF ConsumerKnows
  <2>2. CASE t # "consumer"
    <3>1. pc'["consumer"] = pc["consumer"] /\ clock'["consumer"] = clock["consumer"]
      BY <1>6, <1>8, <2>2, Ring DEF MemoryInv, Types
    <3> QED
      BY <1>6, <1>9, <3>1, Ring DEF MemoryInv, ConsumerKnows
  <2> QED
    BY <2>1, <2>2
<1> QED
  BY <1>6, <1>8, <1>10, <1>11, <1>12, <1>13, <1>14 DEF MemoryInv

\* node.tick.with_mut: the consumer's last read of the slot is known, and no
\* queued tick is overwritten.
LEMMA StepWriteTick ==
  ASSUME MemoryInv, WriteTick
  PROVE  MemoryInv'
<1> DEFINE s == SlotOf("producer")
           known == clock["producer"]["consumer"]
<1>1. /\ s \in Slots /\ s = Prod % RingSize
      /\ Prod \in Nat /\ Cons \in Nat /\ RingSize \in Nat
      /\ known \in Nat /\ known <= Cons
      /\ clock["producer"]["producer"] = Prod
  BY SlotOfThread, Ring
     DEF MemoryInv, Types, Clocks, SlotOf, Prod, Cons
<1>2. Prod < Cons + RingSize /\ Prod < known + RingSize
  BY Ring DEF MemoryInv, ProducerKnows, WriteTick
<1> HIDE DEF s, known
<1>3. /\ raced' = (raced \/ read[s] > known)
      /\ cell' = [cell EXCEPT ![s] = Prod]
      /\ written' = [written EXCEPT ![s] = Prod + 1]
      /\ pc' = [pc EXCEPT !["producer"] = "store"]
      /\ UNCHANGED <<history, read, cursor, seen, clock, tick>>
  BY <1>1 DEF WriteTick, Prod, s, known
<1>4. ~ (read[s] > known)
  <2> SUFFICES ASSUME read[s] > known PROVE FALSE
    OBVIOUS
  <2> DEFINE last == read[s] - 1
  <2>1. read[s] \in Int /\ read[s] > 0
    BY <1>1 DEF MemoryInv, Types
  <2>2. last \in Int /\ last % RingSize = s /\ last < Prod /\ Prod < last + RingSize
    <3>1. (read[s] - 1) % RingSize = s /\ read[s] <= Prod
      BY <1>1, <2>1 DEF MemoryInv, CellsHold
    <3> QED
      BY <1>1, <1>2, <2>1, <3>1
  <2> HIDE DEF last
  <2>3. Prod \in Int
    BY <1>1
  <2>4. last % RingSize # Prod % RingSize
    BY <2>2, <2>3, RoundsDiffer, Zenon
  <2> QED
    BY <1>1, <2>2, <2>4
<1>5. raced' = FALSE
  BY <1>3, <1>4, Zenon DEF MemoryInv
<1>6. Prod' = Prod /\ Cons' = Cons /\ \A u \in Threads : SlotOf(u)' = SlotOf(u)
  BY <1>3, Ring DEF Prod, Cons, SlotOf
<1>7. Types'
  <2>1. /\ pc' \in [Threads -> {"load", "access", "store"}]
        /\ cell' \in [Slots -> Int] /\ written' \in [Slots -> Int]
    <3>1. Prod \in Int /\ Prod + 1 \in Int
      BY <1>1
    <3> HIDE DEF Prod
    <3> QED
      BY <1>1, <1>3, <3>1 DEF MemoryInv, Types
  <2>2. raced' \in BOOLEAN
    BY <1>5, Zenon
  <2>3. Slots' = Slots /\ Stores' = Stores /\ Threads' = Threads
    BY DEF Slots, Stores, Threads
  <2> QED
    BY <1>3, <2>1, <2>2, <2>3 DEF MemoryInv, Types
<1>8. Clocks' /\ HistoryHonest'
  BY <1>3, <1>6 DEF MemoryInv, Clocks, HistoryHonest, Honest
<1>9. ProducerKnows'
  <2>1. cell'[s] = Prod
    BY <1>1, <1>3 DEF MemoryInv, Types
  <2> QED
    BY <1>2, <1>3, <1>6, <2>1, Ring DEF ProducerKnows, s, known
<1>10. ConsumerKnows'
  <2>1. pc'["consumer"] = pc["consumer"]
    BY <1>3, Ring DEF MemoryInv, Types
  <2> QED
    BY <1>3, <1>6, <2>1 DEF MemoryInv, ConsumerKnows
<1>11. CellsHold'
  <2>1. ASSUME NEW c \in Cons .. Prod - 1 PROVE cell'[c % RingSize] = c
    <3>1. c \in Int /\ Prod \in Int /\ c < Prod /\ Prod < c + RingSize
      BY <1>1, <1>2
    <3>2. c % RingSize # s /\ c % RingSize \in Slots
      BY <1>1, <3>1, RoundsDiffer, SlotType, Zenon
    <3>3. cell[c % RingSize] = c
      BY DEF MemoryInv, CellsHold
    <3>4. cell'[c % RingSize] = cell[c % RingSize]
      BY <1>3, <3>2 DEF MemoryInv, Types
    <3> QED
      BY <3>3, <3>4
  <2>2. ASSUME NEW z \in Slots PROVE written'[z] = cell'[z] + 1
    BY <1>1, <1>3 DEF MemoryInv, Types, CellsHold
  <2>3. Slots' = Slots
    BY DEF Slots
  <2> QED
    BY <1>3, <1>6, <2>1, <2>2, <2>3 DEF MemoryInv, CellsHold
<1> QED
  BY <1>5, <1>7, <1>8, <1>9, <1>10, <1>11 DEF MemoryInv

\* node.tick.with: the producer's write of the slot is known, and it was for
\* this position.
LEMMA StepReadTick ==
  ASSUME MemoryInv, ReadTick
  PROVE  MemoryInv'
<1> DEFINE s == SlotOf("consumer")
           known == clock["consumer"]["producer"]
<1>1. /\ s \in Slots /\ s = Cons % RingSize
      /\ Prod \in Nat /\ Cons \in Nat /\ RingSize \in Nat
      /\ known \in Nat
      /\ clock["consumer"]["consumer"] = Cons
  BY SlotOfThread, Ring
     DEF MemoryInv, Types, Clocks, SlotOf, Prod, Cons
<1>2. Cons < Prod /\ Cons < known
  BY Ring DEF MemoryInv, ConsumerKnows, ReadTick
<1> HIDE DEF s, known
<1>3. /\ raced' = (raced \/ written[s] > known)
      /\ tick' = cell[s]
      /\ read' = [read EXCEPT ![s] = Cons + 1]
      /\ pc' = [pc EXCEPT !["consumer"] = "store"]
      /\ UNCHANGED <<history, written, cell, cursor, seen, clock>>
  BY <1>1 DEF ReadTick, s, known
<1>4. cell[s] = Cons /\ written[s] = Cons + 1
  <2>1. Cons \in Cons .. Prod - 1
    BY <1>1, <1>2
  <2> QED
    BY <1>1, <2>1 DEF MemoryInv, CellsHold
<1>5. raced' = FALSE
  <2>1. ~ (written[s] > known)
    BY <1>1, <1>2, <1>4
  <2> QED
    BY <1>3, <2>1, Zenon DEF MemoryInv
<1>6. Prod' = Prod /\ Cons' = Cons /\ \A u \in Threads : SlotOf(u)' = SlotOf(u)
  BY <1>3, Ring DEF Prod, Cons, SlotOf
<1>7. Types'
  <2>1. /\ pc' \in [Threads -> {"load", "access", "store"}]
        /\ read' \in [Slots -> Int] /\ tick' \in Int
    BY <1>1, <1>3, <1>4 DEF MemoryInv, Types
  <2>2. raced' \in BOOLEAN
    BY <1>5, Zenon
  <2>3. Slots' = Slots /\ Stores' = Stores /\ Threads' = Threads
    BY DEF Slots, Stores, Threads
  <2> QED
    BY <1>3, <2>1, <2>2, <2>3 DEF MemoryInv, Types
<1>8. Clocks' /\ HistoryHonest'
  BY <1>3, <1>6 DEF MemoryInv, Clocks, HistoryHonest, Honest
<1>9. ProducerKnows'
  <2>1. pc'["producer"] = pc["producer"]
    BY <1>3, Ring DEF MemoryInv, Types
  <2> QED
    BY <1>3, <1>6, <2>1, Ring DEF MemoryInv, ProducerKnows
<1>10. ConsumerKnows'
  BY <1>2, <1>3, <1>4, <1>6 DEF ConsumerKnows, known
<1>11. CellsHold'
  <2>1. ASSUME NEW z \in Slots, read'[z] > 0
        PROVE  (read'[z] - 1) % RingSize = z /\ read'[z] <= Prod
    <3>1. CASE z = s
      <4>1. read'[z] = Cons + 1 /\ (Cons + 1) - 1 = Cons
        BY <1>1, <1>3, <3>1 DEF MemoryInv, Types
      <4> QED
        BY <1>1, <1>2, <3>1, <4>1
    <3>2. CASE z # s
      BY <1>3, <2>1, <3>2 DEF MemoryInv, Types, CellsHold
    <3> QED
      BY <3>1, <3>2
  <2>2. Slots' = Slots
    BY DEF Slots
  <2> QED
    BY <1>3, <1>6, <2>1, <2>2 DEF MemoryInv, CellsHold
<1> QED
  BY <1>5, <1>7, <1>8, <1>9, <1>10, <1>11 DEF MemoryInv

\* What a Release store hands on is honest: it says what the thread has done.
LEMMA StoredIsHonest ==
  ASSUME MemoryInv, NEW t \in Threads, NEW s \in Slots, s = SlotOf(t),
         NEW store, store.value = Stored(t),
         \A u \in Threads : store.knows.clock[u] \in Nat,
         \A u \in Threads : store.knows.clock[u] <= cursor'[u],
         store.knows.clock[t] = cursor[t] + 1,
         cursor' = [cursor EXCEPT ![t] = @ + 1]
  PROVE  Honest(s, store)'
<1>1. /\ Prod \in Nat /\ Cons \in Nat /\ RingSize \in Nat /\ RingSize > 1
  BY Ring DEF MemoryInv, Types, Prod, Cons
<1>2. CASE t = "producer"
  <2>1. /\ store.value = Prod + 1 /\ Prod' = Prod + 1
        /\ SlotOf("producer") = Prod % RingSize
        /\ store.knows.clock["producer"] = Prod + 1
    BY <1>2, Ring DEF Stored, SlotOf, Prod, MemoryInv, Types
  <2>2. store.value % RingSize # Prod % RingSize
    <3>1. /\ Prod \in Int /\ Prod + 1 \in Int
          /\ Prod < Prod + 1 /\ Prod + 1 < Prod + RingSize
      BY <1>1
    <3> HIDE DEF Prod
    <3>2. Prod % RingSize # (Prod + 1) % RingSize
      BY <3>1, RoundsDiffer, Zenon
    <3> QED
      BY <2>1, <3>2, Zenon
  <2>3. store.value % RingSize # s
    BY <1>2, <2>1, <2>2, Zenon
  <2>4. store.value <= Prod' /\ store.value <= store.knows.clock["producer"]
    BY <1>1, <2>1
  <2> QED
    BY <1>2, <2>3, <2>4 DEF Honest
<1>3. CASE t = "consumer"
  <2>1. /\ store.value = Cons + RingSize /\ Cons' = Cons + 1
        /\ SlotOf("consumer") = Cons % RingSize
        /\ store.knows.clock["consumer"] = Cons + 1
    BY <1>3, Ring DEF Stored, SlotOf, Cons, MemoryInv, Types
  <2>2. store.value % RingSize = s
    <3>1. Cons \in Int
      BY <1>1
    <3> QED
      BY <1>3, <2>1, <3>1, NextRound, Zenon
  <2>3. /\ store.value < Cons' + RingSize
        /\ store.value < store.knows.clock["consumer"] + RingSize
    BY <1>1, <2>1
  <2> QED
    BY <1>3, <2>2, <2>3 DEF Honest
<1> QED
  BY <1>2, <1>3 DEF Threads

\* node.sequence.store: the slot is handed over, and the cursor moves on.
LEMMA StepStore ==
  ASSUME MemoryInv, NEW t \in Threads, Store(t)
  PROVE  MemoryInv'
<1> DEFINE now == [clock[t] EXCEPT ![t] = @ + 1]
           view(s) == [seen[t] EXCEPT ![s] = Len(history[s]) + 1]
           stored(s) == [value |-> Stored(t), knows |-> Knows(view(s), now)]
<1>1. PICK s \in Slots : s = SlotOf(t)
  BY SlotOfThread DEF MemoryInv
<1>2. /\ pc[t] = "store"
      /\ history' = [history EXCEPT ![s] = Append(@, stored(s))]
      /\ seen' = [seen EXCEPT ![t] = view(s)]
      /\ clock' = [clock EXCEPT ![t] = now]
      /\ cursor' = [cursor EXCEPT ![t] = @ + 1]
      /\ pc' = [pc EXCEPT ![t] = "load"]
      /\ tick' = IF t = "consumer" THEN NoTick ELSE tick
      /\ UNCHANGED <<written, read, cell, raced>>
  BY <1>1, Zenon DEF Store
<1>3. /\ history[s] \in Seq(Stores) /\ Len(history[s]) \in Nat
      /\ seen[t] \in [Slots -> Nat \ {0}] /\ clock[t] \in [Threads -> Nat]
      /\ cursor[t] \in Nat /\ RingSize \in Nat
      /\ clock[t][t] = cursor[t]
      /\ \A u \in Threads : clock[t][u] <= cursor[u] /\ cursor[u] \in Nat
  <2>1. history[s] \in Seq(Stores)
    BY DEF MemoryInv, Types
  <2> QED
    BY <2>1, Ring DEF MemoryInv, Types, Clocks
<1>4. /\ now \in [Threads -> Nat] /\ now[t] = cursor[t] + 1
      /\ \A u \in Threads : u # t => now[u] = clock[t][u]
  BY <1>3
<1>5. view(s) \in [Slots -> Nat \ {0}]
  <2>1. Len(history[s]) + 1 \in Nat \ {0}
    BY <1>3
  <2> QED
    BY <1>3, <2>1
<1> HIDE DEF now, view
<1>6. /\ cursor' \in [Threads -> Nat] /\ cursor'[t] = cursor[t] + 1
      /\ \A u \in Threads : cursor'[u] \in Nat /\ cursor'[u] >= cursor[u]
      /\ \A u \in Threads : u # t => cursor'[u] = cursor[u]
  BY <1>2, <1>3 DEF MemoryInv, Types
<1>7. \A u \in Threads : now[u] <= cursor'[u] /\ now[u] \in Nat
  BY <1>3, <1>4, <1>6
<1>8. /\ Prod \in Nat /\ Cons \in Nat /\ Prod' >= Prod /\ Cons' >= Cons
      /\ Prod' \in Nat /\ Cons' \in Nat
      /\ t = "producer" => Prod' = Prod + 1 /\ Cons' = Cons
      /\ t = "consumer" => Cons' = Cons + 1 /\ Prod' = Prod
  BY <1>3, <1>6, Ring DEF Prod, Cons
<1>9. stored(s) \in Stores
  <2>1. Stored(t) \in Nat
    BY <1>3 DEF Stored
  <2>2. view(s) \in [Slots -> Nat]
    BY <1>5
  <2> QED
    BY <1>4, <2>1, <2>2 DEF Stores, Knows
<1>10. PICK store : store = stored(s)
  OBVIOUS
<1>11. /\ store \in Stores /\ store.value = Stored(t) /\ store.knows.clock = now
       /\ history' = [history EXCEPT ![s] = Append(@, store)]
  BY <1>2, <1>9, <1>10 DEF Knows
<1> HIDE DEF stored
<1>12. Honest(s, store)'
  <2>1. /\ \A u \in Threads : store.knows.clock[u] \in Nat
        /\ \A u \in Threads : store.knows.clock[u] <= cursor'[u]
        /\ store.knows.clock[t] = cursor[t] + 1
    BY <1>4, <1>7, <1>11
  <2> QED
    BY <1>1, <1>2, <1>11, <2>1, StoredIsHonest
<1>13. ASSUME NEW z \in Slots, NEW old \in Stores, Honest(z, old)
       PROVE  Honest(z, old)'
  <2>1. \A u \in Threads : old.knows.clock[u] \in Nat
    BY <1>13 DEF Stores
  <2>2. \A u \in Threads : old.knows.clock[u] <= cursor'[u]
    BY <1>3, <1>6, <1>13, <2>1 DEF Honest
  <2>3. old.value \in Nat
    BY <1>13 DEF Stores
  <2> QED
    BY <1>3, <1>8, <1>13, <2>2, <2>3 DEF Honest
<1>14. HistoryHonest'
  <2>1. ASSUME NEW z \in Slots, NEW i \in 1 .. Len(history'[z]), NEW x, x = history'[z][i]
        PROVE  Honest(z, x)'
    <3>1. CASE z # s
      <4>1. history'[z] = history[z] /\ history[z] \in Seq(Stores)
        BY <1>11, <3>1 DEF MemoryInv, Types
      <4>2. x \in Stores /\ Honest(z, x)
        BY <2>1, <4>1 DEF MemoryInv, HistoryHonest
      <4> QED
        BY <1>13, <4>2
    <3>2. CASE z = s
      <4>1. history'[s] = Append(history[s], store)
        BY <1>11 DEF MemoryInv, Types
      <4>2. CASE i = Len(history[s]) + 1
        <5>1. x = store
          BY <1>3, <1>11, <2>1, <3>2, <4>1, <4>2
        <5> QED
          BY <1>12, <3>2, <5>1
      <4>3. CASE i # Len(history[s]) + 1
        <5>1. i \in 1 .. Len(history[s]) /\ x = history[s][i]
          BY <1>3, <1>11, <2>1, <3>2, <4>1, <4>3
        <5>2. x \in Stores /\ Honest(s, x)
          BY <1>3, <5>1 DEF MemoryInv, HistoryHonest
        <5> QED
          BY <1>13, <3>2, <5>2
      <4> QED
        BY <4>2, <4>3
    <3> QED
      BY <3>1, <3>2
  <2> QED
    BY <2>1 DEF HistoryHonest, Honest, Slots
<1>15. Types'
  <2>1. history' \in [Slots -> Seq(Stores)]
    <3>1. Append(history[s], store) \in Seq(Stores)
      BY <1>3, <1>11
    <3> QED
      BY <1>11, <3>1 DEF MemoryInv, Types
  <2>2. /\ seen' \in [Threads -> [Slots -> Nat \ {0}]]
        /\ clock' \in [Threads -> [Threads -> Nat]]
        /\ pc' \in [Threads -> {"load", "access", "store"}]
    BY <1>2, <1>4, <1>5 DEF MemoryInv, Types
  <2>3. tick' \in Int /\ UNCHANGED <<written, read, cell, raced>>
    BY <1>2 DEF MemoryInv, Types, NoTick
  <2>4. Slots' = Slots /\ Stores' = Stores /\ Threads' = Threads
    BY DEF Slots, Stores, Threads
  <2> QED
    BY <1>6, <2>1, <2>2, <2>3, <2>4 DEF MemoryInv, Types
<1>16. Clocks'
  <2>1. clock'[t] = now /\ \A u \in Threads : u # t => clock'[u] = clock[u]
    BY <1>2, <1>4 DEF MemoryInv, Types
  <2>2. \A u, v \in Threads : clock[u][v] \in Nat /\ clock[u][v] <= cursor[v]
                            /\ cursor[v] \in Nat /\ cursor'[v] \in Nat
                            /\ cursor[v] <= cursor'[v]
    BY <1>3, <1>6 DEF MemoryInv, Types, Clocks
  <2> QED
    BY <1>4, <1>6, <1>7, <2>1, <2>2 DEF MemoryInv, Clocks
<1>17. ProducerKnows'
  <2>1. CASE t = "producer"
    BY <1>2, <2>1, Ring DEF MemoryInv, Types, ProducerKnows
  <2>2. CASE t = "consumer"
    <3>1. /\ pc'["producer"] = pc["producer"] /\ clock'["producer"] = clock["producer"]
          /\ SlotOf("producer")' = SlotOf("producer") /\ cell' = cell
      BY <1>2, <1>6, <2>2, Ring DEF MemoryInv, Types, SlotOf
    <3>2. pc["producer"] # "load" => Prod < Cons + RingSize
      BY DEF MemoryInv, ProducerKnows
    <3>3. Prod < Cons + RingSize => Prod' < Cons' + RingSize
      BY <1>3, <1>8, <2>2
    <3>4. Prod' = Prod
      BY <1>8, <2>2
    <3> QED
      BY <3>1, <3>2, <3>3, <3>4 DEF MemoryInv, ProducerKnows
  <2> QED
    BY <2>1, <2>2 DEF Threads
<1>18. ConsumerKnows'
  <2>1. CASE t = "consumer"
    BY <1>2, <2>1, Ring DEF MemoryInv, Types, ConsumerKnows
  <2>2. CASE t = "producer"
    <3>1. /\ pc'["consumer"] = pc["consumer"] /\ clock'["consumer"] = clock["consumer"]
          /\ tick' = tick
      BY <1>2, <2>2, Ring DEF MemoryInv, Types
    <3>2. Cons < Prod => Cons' < Prod'
      BY <1>8, <2>2
    <3>3. Cons' = Cons
      BY <1>8, <2>2
    <3> QED
      BY <3>1, <3>2, <3>3 DEF MemoryInv, ConsumerKnows
  <2> QED
    BY <2>1, <2>2 DEF Threads
<1>19. CellsHold'
  <2>1. \A c \in Cons' .. Prod' - 1 : cell[c % RingSize] = c
    <3>1. \A c \in Cons .. Prod - 1 : cell[c % RingSize] = c
      BY DEF MemoryInv, CellsHold
    <3>2. CASE t = "producer"
      <4>1. cell[Prod % RingSize] = Prod
        BY <1>2, <3>2 DEF MemoryInv, ProducerKnows, SlotOf, Prod
      <4>2. \A c \in Cons' .. Prod' - 1 : c \in Cons .. Prod - 1 \/ c = Prod
        BY <1>8, <3>2
      <4> QED
        BY <3>1, <4>1, <4>2
    <3>3. CASE t = "consumer"
      <4>1. \A c \in Cons' .. Prod' - 1 : c \in Cons .. Prod - 1
        BY <1>8, <3>3
      <4> QED
        BY <3>1, <4>1
    <3> QED
      BY <3>2, <3>3 DEF Threads
  <2>2. ASSUME NEW z \in Slots, read[z] > 0 PROVE read[z] <= Prod'
    <3>1. read[z] <= Prod /\ read[z] \in Int
      BY <2>2 DEF MemoryInv, CellsHold, Types
    <3> QED
      BY <1>8, <3>1
  <2> QED
    BY <1>2, <2>1, <2>2 DEF MemoryInv, CellsHold, Slots
<1> QED
  BY <1>2, <1>14, <1>15, <1>16, <1>17, <1>18, <1>19 DEF MemoryInv

------------------------------------------------------------------------------
\* The inductive invariant holds on weak memory, for every ring size.
LEMMA MemoryInvHolds == Spec => []MemoryInv
<1>1. Init => MemoryInv
  BY InitMemoryInv
<1>2. MemoryInv /\ [Next]_vars => MemoryInv'
  <2> SUFFICES ASSUME MemoryInv, [Next]_vars PROVE MemoryInv'
    OBVIOUS
  <2>1. CASE UNCHANGED vars
    BY <2>1 DEF vars, MemoryInv, Types, Clocks, HistoryHonest, Honest, ProducerKnows,
                ConsumerKnows, CellsHold, Prod, Cons, SlotOf, Slots, Threads, Stores
  <2>2. CASE Next
    BY <2>2, StepLoad, StepStore, StepWriteTick, StepReadTick DEF Next
  <2> QED
    BY <2>1, <2>2
<1> QED
  BY <1>1, <1>2, PTL DEF Spec

\* "Release makes the tick visible before the consumer can read seq == prod+1",
\* "Acquire pairs with the consumer's Release when it freed this slot": on a
\* machine whose loads lag, for every ring size, no two accesses to the tick of
\* a slot are unordered.
THEOREM Ordered == Spec => []NoDataRace
<1>1. MemoryInv => NoDataRace
  BY DEF MemoryInv, NoDataRace
<1> QED
  BY <1>1, MemoryInvHolds, PTL

\* What try_consume copies out of a slot on such a machine is the tick published
\* at its cursor, never that of the round before or after.
THEOREM ReadsItsOwn == Spec => []RightTick
<1>1. MemoryInv => RightTick
  BY DEF MemoryInv, ConsumerKnows, RightTick, Cons
<1> QED
  BY <1>1, MemoryInvHolds, PTL

=============================================================================
