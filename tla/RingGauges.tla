------------------------------ MODULE RingGauges ------------------------------
(***************************************************************************)
(* pending(), read by a monitoring thread while both other threads run: it *)
(* loads one cursor and then the other, with the ring moving in between.   *)
(* A metrics loop calls it through SpscDisruptor::write_metrics            *)
(* (src/metrics.rs).  dropped_count(), a single load, is `dropped' itself. *)
(* Memory is sequentially consistent here as in SpscDisruptor; on a        *)
(* machine whose relaxed loads lag, each cursor is that of an earlier      *)
(* moment.                                                                 *)
(***************************************************************************)
EXTENDS SpscDisruptor

VARIABLES
  pcM,            \* where the metrics thread is inside pending()
  seenProducer,   \* the cursor its first load returned, 0 outside pending()
  published       \* history: ticks published since then, 0 outside pending()

gaugeVars == <<pcM, seenProducer, published>>
allVars == <<vars, gaugeVars>>

GaugesInit ==
  /\ Init
  /\ pcM = "idle"
  /\ seenProducer = 0
  /\ published = 0

\* Mutant: the operands of wrapping_sub swapped.
WrappingSubSwapped(a, b) == (b - a) % Wrap

WrappingSub(a, b) == (a - b) % Wrap

LoadProducer ==
  /\ pcM = "idle"
  /\ pcM' = "half"
  /\ seenProducer' = producer
  /\ UNCHANGED <<vars, published>>

\* What pending() returns if its second load happens now.
Pending == WrappingSub(seenProducer, consumer)

LoadConsumer ==
  /\ pcM = "half"
  /\ pcM' = "idle"
  /\ seenProducer' = 0
  /\ published' = 0
  /\ UNCHANGED vars

\* A step of the ring, seen by the metrics thread.
RingStep ==
  /\ Next
  /\ published' = IF pcM = "half" /\ producer' # producer
                    THEN WrappingAdd(published, 1) ELSE published
  /\ UNCHANGED <<pcM, seenProducer>>

GaugesNext == LoadProducer \/ LoadConsumer \/ RingStep

\* The metrics thread looks when it likes.
GaugesSpec == GaugesInit /\ [][GaugesNext]_allVars /\ Fairness

------------------------------------------------------------------------------
\* "Approximate": how approximate.  pending() is what is queued at its second
\* load less what was published since its first, however much was consumed in
\* between; and one off either way, because each thread stores its cursor one
\* step after the handshake counter that makes the tick appear or disappear.
\* Below an empty ring it wraps to nearly 2^64.
GaugeMissesWhatCameBetween ==
  pcM = "half" => (Pending + published - Occupancy) % Wrap \in {0, 1, Wrap - 1}

==============================================================================
