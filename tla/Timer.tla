-------------------------------- MODULE Timer --------------------------------
(***************************************************************************)
(* The calibrated clock of src/timer.rs.  Every number is a u64; the       *)
(* product in calibrate saturates at that width, the one in ticks_to_ns is *)
(* taken in twice the width and its quotient cut back.  A frequency of     *)
(* zero means that calibrate() was not called.                             *)
(***************************************************************************)
EXTENDS Integers

CONSTANTS
  MaxU64,     \* the largest u64
  Giga,       \* nanoseconds in a second
  FallbackHz  \* 3 GHz

ASSUME TimerAssumption ==
  /\ MaxU64 \in Nat \ {0} /\ Giga \in 1 .. MaxU64
  /\ FallbackHz \in 1 .. MaxU64 /\ FallbackHz = 3 * Giga

VARIABLES
  hz,             \* TSC_HZ
  elapsedTicks,   \* history: what the last calibration measured, in ticks
  elapsedNs       \* history: ... and in nanoseconds

vars == <<hz, elapsedTicks, elapsedNs>>

U64 == 0 .. MaxU64

Init == hz = 0 /\ elapsedTicks = 0 /\ elapsedNs = 0

SaturatingMul(a, b) == IF a * b > MaxU64 THEN MaxU64 ELSE a * b

\* Mutant: checked_mul for saturating_mul, so that the fallback covers both.
FrequencyFallback(ticks, ns) ==
  IF ns = 0 \/ ticks * Giga > MaxU64 THEN FallbackHz ELSE (ticks * Giga) \div ns

\* Mutant: the quotient is rounded up.
FrequencyRoundedUp(ticks, ns) ==
  IF ns = 0 THEN FallbackHz ELSE (SaturatingMul(ticks, Giga) + ns - 1) \div ns

Frequency(ticks, ns) ==
  IF ns = 0 THEN FallbackHz ELSE SaturatingMul(ticks, Giga) \div ns

\* calibrate(): any two clock readings, a stalled or a stopped clock included.
Calibrate(ticks, ns) ==
  /\ hz' = Frequency(ticks, ns)
  /\ elapsedTicks' = ticks
  /\ elapsedNs' = ns

Next == \E ticks, ns \in U64 : Calibrate(ticks, ns)

Spec == Init /\ [][Next]_vars

TicksToNs(ticks) ==
  IF hz = 0 THEN ticks \div 3 ELSE ((ticks * Giga) \div hz) % (MaxU64 + 1)

\* The nanoseconds fit in the width of the result.
FitsInNs(ticks) == hz = 0 \/ (ticks * Giga) \div hz <= MaxU64

------------------------------------------------------------------------------
TypeOK == hz \in U64 /\ elapsedTicks \in U64 /\ elapsedNs \in U64

Measured == hz # 0 /\ elapsedNs # 0

\* A calibration that did not saturate converts what it measured back to what
\* it measured, but for the rounding of the frequency, and never to less.
CalibrationAgrees ==
  Measured /\ elapsedTicks * Giga <= MaxU64 /\ FitsInNs(elapsedTicks) =>
    /\ TicksToNs(elapsedTicks) >= elapsedNs
    /\ (TicksToNs(elapsedTicks) - elapsedNs) * hz <= elapsedNs

\* One that saturated -- a sleep stretched to seconds -- believes the clock to
\* be slower than it is and reports every latency as longer, never as shorter.
SaturationOverstates ==
  Measured /\ elapsedTicks * Giga > MaxU64 =>
    \A ticks \in U64 :
      FitsInNs(ticks)
        => TicksToNs(ticks) * elapsedTicks >= ticks * elapsedNs - elapsedTicks

=============================================================================
