------------------------------ MODULE RingMemory ------------------------------
(***************************************************************************)
(* The ring of src/ring_buffer.rs on a machine whose loads may be stale.   *)
(* SpscDisruptor interleaves the accesses of the two threads as if memory  *)
(* were sequentially consistent; here an atomic load may return any store  *)
(* that the thread has not seen overwritten, and only the Acquire load     *)
(* that reads a Release store learns what the storing thread knew.  An     *)
(* access to the plain memory of a slot that is not ordered after the      *)
(* other thread's last access to it is a data race.                        *)
(*                                                                         *)
(* What a thread knows is the oldest store of each handshake counter that  *)
(* it may still read (seen) and how many stores of each thread happened    *)
(* before (clock).  A store goes to the end of the counter's history: a    *)
(* thread stores only after it has read the latest.  A cursor is read by   *)
(* its own thread only, so its relaxed accesses are a variable.            *)
(***************************************************************************)
EXTENDS Integers, Sequences

CONSTANTS
  RingSize,
  MaxTicks    \* bound: ticks published

ASSUME MemoryAssumption ==
  RingSize \in Nat /\ RingSize >= 2 /\ MaxTicks \in Nat

VARIABLES
  history,    \* the stores of each handshake counter, oldest first
  written,    \* the clock of the producer's last write to each slot
  read,       \* the clock of the consumer's last read of each slot
  cell,       \* the tick in each slot, named by its position in the feed
  cursor,     \* the cursor of each thread
  pc,         \* where each thread is in its call
  seen,       \* what each thread knows: of the counters ...
  clock,      \* ... and of the other thread
  tick,       \* the tick the consumer has copied out
  raced       \* an access was not ordered

vars == <<history, written, read, cell, cursor, pc, seen, clock, tick, raced>>

Slots == 0 .. RingSize - 1
Threads == {"producer", "consumer"}
NoTick == -1

Knows(of, other) == [seen |-> of, clock |-> other]
Nothing == Knows([s \in Slots |-> 1], [t \in Threads |-> 0])

Init ==
  /\ history = [s \in Slots |-> <<[value |-> s, knows |-> Nothing]>>]
  /\ written = [s \in Slots |-> 0]
  /\ read = [s \in Slots |-> 0]
  /\ cell = [s \in Slots |-> NoTick]
  /\ cursor = [t \in Threads |-> 0]
  /\ pc = [t \in Threads |-> "load"]
  /\ seen = [t \in Threads |-> Nothing.seen]
  /\ clock = [t \in Threads |-> Nothing.clock]
  /\ tick = NoTick
  /\ raced = FALSE

Later(a, b) == IF a > b THEN a ELSE b
SlotOf(t) == cursor[t] % RingSize

\* Mutant: the consumer does not wait for the producer's + 1.
ExpectedUnpublished(t) == cursor[t]

\* The value that lets the thread go on.
Expected(t) == IF t = "producer" THEN cursor[t] ELSE cursor[t] + 1

\* Ordering::Acquire.
Learn(t, knows) ==
  /\ seen' = [seen EXCEPT ![t] = [s \in Slots |-> Later(@[s], knows.seen[s])]]
  /\ clock' = [clock EXCEPT ![t] = [u \in Threads |-> Later(@[u], knows.clock[u])]]

\* node.sequence.load: any store the thread may still read.
Load(t) ==
  /\ pc[t] = "load"
  /\ t = "producer" => cursor[t] < MaxTicks
  /\ \E i \in seen[t][SlotOf(t)] .. Len(history[SlotOf(t)]) :
       LET store == history[SlotOf(t)][i]
       IN  /\ Learn(t, [store.knows EXCEPT !.seen[SlotOf(t)] = Later(@, i)])
           /\ pc' = [pc EXCEPT ![t] = IF store.value = Expected(t) THEN "access" ELSE "load"]
  /\ UNCHANGED <<history, written, read, cell, cursor, tick, raced>>

\* node.tick.with_mut(write)
WriteTick ==
  /\ pc["producer"] = "access"
  /\ LET s == SlotOf("producer")
     IN  /\ raced' = (raced \/ read[s] > clock["producer"]["consumer"])
         /\ cell' = [cell EXCEPT ![s] = cursor["producer"]]
         /\ written' = [written EXCEPT ![s] = clock["producer"]["producer"] + 1]
  /\ pc' = [pc EXCEPT !["producer"] = "store"]
  /\ UNCHANGED <<history, read, cursor, seen, clock, tick>>

\* node.tick.with(read)
ReadTick ==
  /\ pc["consumer"] = "access"
  /\ LET s == SlotOf("consumer")
     IN  /\ raced' = (raced \/ written[s] > clock["consumer"]["producer"])
         /\ tick' = cell[s]
         /\ read' = [read EXCEPT ![s] = clock["consumer"]["consumer"] + 1]
  /\ pc' = [pc EXCEPT !["consumer"] = "store"]
  /\ UNCHANGED <<history, written, cell, cursor, seen, clock>>

\* What the thread stores: the slot readable, or writable in the next round.
Stored(t) == cursor[t] + (IF t = "producer" THEN 1 ELSE RingSize)

\* Mutant: Relaxed for Release.
StoreRelaxed(t) ==
  LET s == SlotOf(t)
      now == [clock[t] EXCEPT ![t] = @ + 1]
      view == [seen[t] EXCEPT ![s] = Len(history[s]) + 1]
  IN  /\ pc[t] = "store"
      /\ history' = [history EXCEPT ![s] =
                       Append(@, [value |-> Stored(t), knows |-> Nothing])]
      /\ seen' = [seen EXCEPT ![t] = view]
      /\ clock' = [clock EXCEPT ![t] = now]
      /\ cursor' = [cursor EXCEPT ![t] = @ + 1]
      /\ pc' = [pc EXCEPT ![t] = "load"]
      /\ tick' = IF t = "consumer" THEN NoTick ELSE tick
      /\ UNCHANGED <<written, read, cell, raced>>

\* node.sequence.store(Ordering::Release), and the cursor.
Store(t) ==
  LET s == SlotOf(t)
      now == [clock[t] EXCEPT ![t] = @ + 1]
      view == [seen[t] EXCEPT ![s] = Len(history[s]) + 1]
  IN  /\ pc[t] = "store"
      /\ history' = [history EXCEPT ![s] =
                       Append(@, [value |-> Stored(t), knows |-> Knows(view, now)])]
      /\ seen' = [seen EXCEPT ![t] = view]
      /\ clock' = [clock EXCEPT ![t] = now]
      /\ cursor' = [cursor EXCEPT ![t] = @ + 1]
      /\ pc' = [pc EXCEPT ![t] = "load"]
      /\ tick' = IF t = "consumer" THEN NoTick ELSE tick
      /\ UNCHANGED <<written, read, cell, raced>>

Next == WriteTick \/ ReadTick \/ \E t \in Threads : Load(t) \/ Store(t)

Spec == Init /\ [][Next]_vars

------------------------------------------------------------------------------
\* "Release makes the tick visible before the consumer can read seq == prod+1",
\* "Acquire pairs with the consumer's Release when it freed this slot": the two
\* pairs order all accesses to a slot, the write of the next round included.
NoDataRace == ~ raced

\* The consumer copies out the tick that its cursor stands for.
RightTick == pc["consumer"] = "store" => tick = cursor["consumer"]

=============================================================================
