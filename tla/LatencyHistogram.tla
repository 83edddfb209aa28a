--------------------------- MODULE LatencyHistogram ---------------------------
(***************************************************************************)
(* LatencyHistogram of src/book_engine.rs: Buckets counters, one for each  *)
(* power of two, the last for all the rest; and what print_summary says of *)
(* them, converted to nanoseconds by the clock of module Timer.            *)
(***************************************************************************)
EXTENDS Timer, FiniteSets, FiniteSetsExt

CONSTANTS
  W,          \* bits of a latency, 64 in the code
  Buckets,    \* N
  MaxSamples  \* bound: samples recorded

\* 1u64 << i
PowerOfTwo[i \in Nat] == IF i = 0 THEN 1 ELSE 2 * PowerOfTwo[i - 1]

ASSUME HistogramAssumption ==
  /\ W \in Nat /\ Buckets \in Nat \ {0} /\ MaxSamples \in Nat
  /\ MaxU64 = PowerOfTwo[W] - 1

VARIABLES
  buckets,    \* the counters
  total,      \* how many samples
  max,        \* the largest
  samples     \* history: how often each latency was recorded

histogramVars == <<buckets, total, max, samples>>
allVars == <<vars, histogramVars>>

Latencies == U64
Indexes == 0 .. Buckets - 1

HistogramInit ==
  /\ Init
  /\ buckets = [b \in Indexes |-> 0]
  /\ total = 0
  /\ max = 0
  /\ samples = [t \in Latencies |-> 0]

\* u64::leading_zeros: the high bits above the highest that is set.
LeadingZeros(ticks) == Cardinality({i \in 0 .. W - 1 : ticks < PowerOfTwo[i]})

\* Mutant: the number of bits, not the index of the highest.
BitLength(ticks) ==
  LET log == W - LeadingZeros(ticks) IN IF log < Buckets THEN log ELSE Buckets - 1

\* Mutant: the clamp is one bucket too high.
BucketUnclamped(ticks) ==
  IF ticks = 0 THEN 0
  ELSE LET log == W - 1 - LeadingZeros(ticks)
       IN  IF log < Buckets THEN log ELSE Buckets

BucketOf(ticks) ==
  IF ticks = 0 THEN 0
  ELSE LET log == W - 1 - LeadingZeros(ticks)
       IN  IF log < Buckets - 1 THEN log ELSE Buckets - 1

\* Mutant: the maximum is the last sample.
RecordLast(ticks) ==
  /\ total < MaxSamples
  /\ buckets' = [buckets EXCEPT ![BucketOf(ticks)] = @ + 1]
  /\ total' = total + 1
  /\ max' = ticks
  /\ samples' = [samples EXCEPT ![ticks] = @ + 1]
  /\ UNCHANGED vars

Record(ticks) ==
  /\ total < MaxSamples
  /\ buckets' = [buckets EXCEPT ![BucketOf(ticks)] = @ + 1]
  /\ total' = total + 1
  /\ max' = IF ticks > max THEN ticks ELSE max
  /\ samples' = [samples EXCEPT ![ticks] = @ + 1]
  /\ UNCHANGED vars

\* calibrate(): "Call once at startup."
Startup ==
  /\ total = 0
  /\ Next
  /\ UNCHANGED histogramVars

HistogramNext == Startup \/ \E ticks \in Latencies : Record(ticks)

HistogramSpec == HistogramInit /\ [][HistogramNext]_allVars

\* The interval print_summary prints in front of the count of a bucket, before
\* TicksToNs converts its ends.
PrintedFrom(b) == IF b = 0 THEN 0 ELSE PowerOfTwo[b - 1]
PrintedBelow(b) == PowerOfTwo[b]

------------------------------------------------------------------------------
Recorded(S) == MapThenSumSet(LAMBDA t : samples[t], S)

\* The types, and the index of an access to the array, which the compiler checks
\* at run time: a latency without a bucket would panic in the hot loop.
HistogramTypeOK ==
  /\ TypeOK
  /\ BucketOf(max) \in Indexes
  /\ total \in 0 .. MaxSamples
  /\ max \in Latencies
  /\ buckets \in [Indexes -> 0 .. MaxSamples]

\* "log2-bucketed": a bucket below the last counts the samples of one octave,
\* the first those below 2, the last all from its octave up; none is missed.
BucketsAreOctaves ==
  \A b \in Indexes :
    buckets[b] = Recorded({t \in Latencies :
                             /\ b > 0 => t >= PowerOfTwo[b]
                             /\ b < Buckets - 1 => t < PowerOfTwo[b + 1]})

\* The first line of the summary agrees with its table, in nanoseconds: the
\* printed maximum is not below the start of any interval that has samples,
\* whatever the calibration measured, up to where a result no longer fits in 64
\* bits.
PrintedMaxIsAboveIntervals ==
  \A b \in Indexes :
    buckets[b] > 0 /\ FitsInNs(max) => TicksToNs(PrintedFrom(b)) <= TicksToNs(max)

\* print_summary: "[lo ns, hi ns): count".  The buckets below the last, whose
\* intervals have two real ends, count as many samples as lie in the interval.
CountIsOfPrintedInterval ==
  \A b \in 0 .. Buckets - 2 :
    buckets[b] = Recorded({t \in Latencies : PrintedFrom(b) <= t /\ t < PrintedBelow(b)})

=============================================================================
