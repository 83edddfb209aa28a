# A formal model of feedhandler-core

`feedhandler` turns a stream of normalized ticks into an order book: an adapter thread publishes
ticks into a lock-free single-producer single-consumer ring, an engine thread pinned to a core
takes them out and applies each to its book, and a monitoring loop reads counters of both. This
directory holds TLA+ modules translated from `src/src/*.rs`, the TLC runs that check them on small
instances, and theorems that TLAPS proves for every instance: about the ring, also on weak memory
and in a debug build, about a side and a book, about the pipeline from market to book, about
capture and replay, and about the clock and the latency histogram.

`tlc -config X.cfg M` checks a run of the table below; `tlapm M.tla` checks the proofs of a module.

## 1. The system

| Part | Source | State | Operations | What is hard |
|---|---|---|---|---|
| SPSC ring | `ring_buffer.rs` | a counter and a tick per slot, two cursors, `dropped` | `try_publish`, `try_consume` | two threads, no lock; slot ownership carried by wrapping counters; release/acquire pairs; a full ring |
| Ring gauges | `ring_buffer.rs`, `metrics.rs` | none of its own | `pending`, `dropped_count`, `write_metrics` | two loads that are not atomic together |
| Debug canary | `ring_buffer.rs` | `Mutex<Option<ThreadId>>` per role | `check_single_thread` | first calls that race, a panic with the mutex held |
| Book side | `types.rs` | `count`, 64 levels | `clear`, `apply_delta`, `best` | unsafe memmoves, eviction, stale levels beyond `count` |
| Order book | `types.rs` | two sides, a snapshot id for each, sequence, counters | `apply`, `record_checksum_failure`, `for_checksum`, `spread`, `is_crossed`, `is_stale` | snapshot batches mixed with deltas and with each other, any order of sequence numbers |
| Book engine | `book_engine.rs` | book, ring, `ticks` | `run_one`, `run_batch` | a loop that ends only at an empty ring |
| Latency histogram | `book_engine.rs` | buckets, total, max | `record`, `print_summary` | powers of two at their boundaries |
| Timer | `timer.rs` | `TSC_HZ` | `calibrate`, `ticks_to_ns`, clock readings | saturation, zero as a sentinel, 128 bits cut to 64 |
| Capture, replay | `capture.rs` | a file, a write buffer, a read position | `create`, `record`, `flush`; `open`, `next` | short and failed writes, crashes, restarts, no framing |

How they interact. The adapter and the engine share the ring and nothing else; the book, the
engine's counters and the histogram belong to the engine's thread. The monitoring loop reads ring
counters with relaxed loads at any time. A capture file is written by one process and replayed
later, perhaps after a crash, perhaps together with what the next process appended. The canary runs at the head of both ring calls, in debug builds only.

## 2. The modules

| Module | Models | State and actions against the code |
|---|---|---|
| `BoundedQueue` | what the ring promises | abstract: `Publish`, `Refuse`, `Take` are whole calls |
| `SpscDisruptor` | the ring, one shared-memory access per action | `node`, `cell`, `producer`, `consumer`, `dropped` are the fields; `CheckWritable`, `CountDrop`, `WriteTick`, `Commit`, `AdvanceProducer` are the lines of `try_publish`, `CheckReadable`, `ReadTick`, `Release`, `AdvanceConsumer` those of `try_consume`; `Offer`, `Retry`, `GiveUp` are the caller |
| `RingGauges` | `SpscDisruptor` and a third thread inside `pending()` | `LoadProducer`, `LoadConsumer`; `RingStep` is a step of the ring |
| `RingMemory` | the same ring on weak memory | a load may return any store not yet known to be overwritten; `Acquire` loads and `Release` stores hand on what a thread knows; accesses to the tick that are not ordered set `raced` |
| `ThreadCanary` | `check_single_thread`, both roles, any threads | `Lock` is the lock and the copy of the claim, then `Claim`, `Recognise` or `Panic` |
| `DebugRing` | the calls of a debug build: the canary, then the accesses of `SpscDisruptor` by whichever thread it let in | `Enter` is the check; `PublishStep`, `ConsumeStep` are accesses, `EndPublish`, `EndConsume`, `FindNone` the last one with the return; each thread has its own `local` variables |
| `BookSide`, `LiveSide` | the methods of a side as operators; a side in use | `Insert`, `Remove`, `ApplyDelta`, `Clear`; the array beyond `count` is kept; `args` and `turn` record the call |
| `DepthMap` | what a side promises | abstract: a set of levels, the reference model of the property test, fed with the same prices and quantities |
| `OrderBook`, `BookFeed`, `MCBookFeed` | `apply` and what it calls as operators; a book under any feed | one tick is one action, whole; `replayed` is the book a replay of the capture yields, and `Restart` a new process with a new book and the old file; the feeds TLC tries |
| `FeedPipeline` | market, adapter, ring (as `BoundedQueue`), engine, book | `Quote`, `Resync`, `SnapshotLevel` are what the adapter has to send, `Publish`, `Spin`, `Drop` what becomes of it; `RunOne`, `BeginBatch`, `BatchTick`, `EndBatch` are the engine |
| `Timer`, `LatencyHistogram` | the calibrated clock; the histogram and its summary | `Startup` is `calibrate()`, through `Calibrate`; `Record` |
| `Capture` | recorder, file, reader | `Record` and the writes of the buffered writer it causes, `Flush`, `Create`, `Crash`; `Open`, `Read`, `EndOfFile`, `Yield` |
| `SpscDisruptorProofs` | proofs about `SpscDisruptor` and `RingGauges` | |
| `RingMemoryProofs` | proofs about `RingMemory` | |
| `DebugRingProofs` | proofs about `ThreadCanary` and `DebugRing` | |
| `BookProofs` | lemmas about the operators of `BookSide` and `OrderBook`; proofs about `LiveSide` | used by the next two |
| `BookFeedProofs`, `FeedPipelineProofs` | proofs about the modules they are named for | |
| `CaptureProofs` | proofs about `Capture` | |
| `LatencyProofs` | proofs about `Timer` and `LatencyHistogram` | |

Abstractions that matter:

- A tick in the ring is an atomic value: what could tear it is exactly what `NoSharedSlot` and
  `NoDataRace` exclude. Counters are numbers modulo `Wrap`, a multiple of the ring size.
- `SpscDisruptor` is sequentially consistent. `RingMemory` is not, and shows that no access to a
  tick is unordered and that the consumer copies the tick of its own position, stale loads and
  all. That a publish is refused only when the ring is full is shown for up-to-date loads alone: on
  weak memory a producer may be refused because it has not heard of a release yet, and `RingMemory`
  says nothing of refusals. In `RingMemory` a store
  goes to the end of its counter's history, because a thread stores only after it has read the
  latest value, and a cursor is read by its own thread only.
- Ring and gauges are sequentially consistent, so a gauge's loads are up to date. Weak memory adds
  to what `pending()` may return, without a bound.
- The array of a side is not a box that writes cannot leave: `MoveUp`, `MoveDown` and `Put` write
  wherever they are told to, and what they write beside the array is an index too many in it, which
  `SideTypeOK` does not allow. A memmove one level too long is seen by it and by nothing else.
- `DepthMap` takes the price and the quantity of each call from its `args`, which `LiveSide` records
  from the call of `apply_delta`; `turn` alternates, so that a call which changes no level is
  compared too, result and all, instead of passing for no call.
- In `BookFeed`, what a full side has to give up for a tick (`GivenUp`) is worked out from the levels
  shown before it and the tick, not from what `apply_delta` did: a level evicted or discarded
  wrongly is missing from the book and not from what `BatchIntact` expects.
- The market of `FeedPipeline` is never crossed and never deeper than the book, so that whatever
  differs between the two is the pipeline's doing. An adapter is code outside the repository: it
  numbers the ticks of a feed, sends a snapshot with a new id, and announces an empty side by a
  zero quantity, the only way the tick format has.
- Each tick of `FeedPipeline` carries the market it was told of, as history. Nothing of the engine
  or the book reads it.
- In `BookFeed` the capture holds exactly the ticks that were applied: what becomes of a file is
  the matter of `Capture`.
- The book is the release build: a tick of another symbol is counted and discarded. The debug
  build panics there.
- A record of `Capture` is three units long. `BufWriter` is modelled by what it does to a
  record: it empties its buffer first if the record does not fit (64 divides its 8192 bytes, so
  the buffer is never bypassed), a write may take only a part, and a failed write keeps the rest.
- The file survives a crash as it was written; only what the process had in memory is lost.
  A power failure that takes the page cache along is outside what the code addresses.
- A call whose result is refused is followed by a retry or by giving the tick up; the code leaves
  that to the caller, and both callers exist in the tests and the benchmarks.

## 3. The runs

| Run | Checks | Bounds, and why they are enough |
|---|---|---|
| `ring` (`RingGauges.cfg`) | `NoSharedSlot`, `SlotLifecycle`, `IInv`, `GaugeMissesWhatCameBetween`, `IsBoundedQueue`, `IsFairQueue`, `SpinnerGetsThrough`. What `pending()` returns is what was queued, less what was published between its two loads, give or take one | 2 slots, counters modulo 8, 2 ticks: everything wraps, over and over, also while the gauge sleeps between its loads, and there is no bound on the number of calls |
| `memory` | `NoDataRace`, `RightTick` | 4 slots, 12 ticks: every slot is used three times, so both directions of the handshake order two different rounds |
| `debug_ring` | `OneThreadPerRole`, `ClaimIsForever`, `MutexIsFreed`, `IsRing` | 3 threads on 2 slots, each in any role at any time: an owner and violators that meet a mutex already poisoned, one thread in both roles, all of them panicked |
| `side` | `SideTypeOK`, `Sorted`, `IsDepthMap`: no write leaves the array, and each call does what the reference model does for its price and quantity | 4 levels, 6 prices with 0 among them, 3 quantities with 0: full, overfull, emptied, updated in every position; no bound on the deltas |
| `book` | `NoStaleLevels`, `BatchIntact`, `SequenceAccounting`, `ChecksumSeesBest`, `ReplayReproduces` | 2 levels a side, 3 prices, 2 snapshot ids, 6 effective ticks: batches overflow, alternate, are cut short; another feed with sequence numbers 0..5 in any order; and a third, of one side and with the sentinel as an id after the first, during which the process restarts once |
| `pipeline` | `NothingUnaccounted`, `GapsAreLosses`, `WholeSideIsTheMarket`, `QuotesAreTheMarket`, `BatchReturns`, `BookConverges` | 2 slots, a feed of 6 ticks, a market of up to 2 levels a side that opens with three: two whole snapshots, or one and three moves; a snapshot is longer than the ring, so that each of its ticks may be the one dropped; the book is crossed on the way; the batch count wraps at 3 |
| `latency` | `BucketsAreOctaves`, `PrintedMaxIsAboveIntervals`, `CalibrationAgrees`, `SaturationOverstates` | a 4-bit word, every pair of clock readings, 3 samples in 3 buckets: every boundary, the clamp, a saturated and a zero frequency |
| `capture` | `StreamIntact`, `FlushedSurvives`, `ReplayIsExact` | 5 records, a buffer of 2, 3 faults, every split of every write and read |
| `contiguous_gaps`, `printed_intervals`, `capture_reopen`, `replay_restart` | statements of the documentation that the code does not keep, see section 6 | TLC finds a counterexample |

Each module has one type invariant as well. Every safety property of the passing runs is
a theorem too (section 5), so the bounds matter only to the liveness properties and to
catching a mistake early. Deadlock is checked except where the system may stop:
the feed of `book` and the samples of `latency` come to an end, so does a replay, and the threads of
`debug_ring` may all have panicked.

Sequence accounting, in words: while no reorder was counted, the sequence numbers of the ticks
that changed the book went up by at least one each and by at least one more at each counted gap;
while no gap was counted, they went up by at most one each and did not go up at each reorder. So
two zeroes mean that nothing was missing between the ticks that changed the book.

What a loss does to the book, in words: a tick dropped between two that changed the book shows as a
gap (`GapsAreLosses`). The side it was for may be wrong until the adapter sends a snapshot of which
nothing is lost, and right from the last tick of that snapshot on, whatever the other side is like
(`WholeSideIsTheMarket`). While both sides are right, `spread()` is the market's and `is_crossed()`
is false (`QuotesAreTheMarket`), so an alert on it is never a false one. And when the market rests,
the book rests with it (`BookConverges`).

A capture that spans restarts: a replay and the live book agree on a side from the first snapshot
of the session whose id differs from the last one filed (`ReplayReproduces`). An adapter that starts
its ids again with every process gets no such guarantee for its first snapshot: `replay_restart`.

## 4. Fairness

- Ring: weak fairness of each thread's next step inside `try_publish` and of the consumer's step.
  Both threads are running and a call is a straight line of code. The consumer polls for ever
  (`run_batch` on a pinned core). Nothing obliges the producer to offer ticks. That a spinning
  producer retries is a hypothesis inside `SpinnerGetsThrough`, not an assumption on the code.
- Debug ring: weak fairness of a thread that holds the mutex of the canary. No thread is obliged to
  call, to get the mutex, or to go on inside a call.
- Pipeline: weak fairness of the engine taking a tick, and of ending a batch that finds the ring
  empty. The adapter is not
  fair and its feed is finite: `BatchReturns` is the statement that a batch ends once the feed
  pauses. Under a feed that never does, `run_batch` does not return, as its loop says.

## 5. What is proved

Every safety property of the passing runs is a theorem, for all values of the constants that satisfy the assumptions of its module:

| Theorems | State that | Assumed of the constants |
|---|---|---|
| `TypeCorrect`, `Inductive`, `Lifecycle`, `Exclusion` (`SpscDisruptorProofs`) | `TypeOK`, `IInv`, `SlotLifecycle`, `NoSharedSlot` hold of the ring | at least two slots; counters that wrap at a larger multiple of their number (4096 and 2^64 in the code); "no tick" is not a tick |
| `Refinement` | `Spec => IsBoundedQueue` | the same |
| `GaugeIsApproximate` | `GaugeMissesWhatCameBetween` holds of `pending()` | the same |
| `Ordered`, `ReadsItsOwn` (`RingMemoryProofs`) | `NoDataRace` and `RightTick` hold on weak memory | at least two slots |
| `OneThread`, `Forever` (`DebugRingProofs`) | `OneThreadPerRole` and `ClaimIsForever` hold of the canary, for any number of threads | "no thread" is not a thread, "no role" not a role |
| `CanaryGuardsRing`, `DebugTypeCorrect`, `NeverCorrupted` | the calls of a debug build implement the ring, so its theorems hold of them | both of the above |
| `SideTypeCorrect`, `StaysSorted`, `ImplementsDepthMap` (`BookProofs`) | `SideTypeOK`, `Sorted` and `IsDepthMap` hold of a side: no write of a delta leaves the array, and call by call it does what the reference model does for the same price and quantity | a depth of at least one; prices and quantities are numbers, zero among the quantities |
| `FeedTypeCorrect`, `NeverStale`, `BatchesLand`, `SequencesAccounted`, `ChecksumRight`, `ReplaysReproduce` (`BookFeedProofs`) | the invariants of `book` hold under any set of feeds | the feeds consist of ticks. `ApplyTick` excludes the id that means "none yet" (`types.rs:302`) for the first snapshot of a side, and for no other |
| `PipelineTypeCorrect`, `Accounted`, `LossesShow`, `WholeSideShowsMarket`, `QuotesAreRight`, `RingIsBoundedQueue` (`FeedPipelineProofs`) | the invariants of `pipeline` hold, and all that is done to its ring is what `BoundedQueue` allows | any ring capacity, depth and batch-count width; finitely many prices; a feed shorter than the id that means "none yet" |
| `CaptureTypeCorrect`, `StreamNeverMisplaced`, `FlushedIsSafe`, `ReplayExact` (`CaptureProofs`) | the invariants of `capture` hold | the write buffer holds a whole number of records, as 8192 bytes do of 64 |
| `CalibrationRight`, `SaturationIsSafe`, `FastClockFits`, `HistogramKeepsClock` (`LatencyProofs`) | `CalibrationAgrees`, `SaturationOverstates` hold of the clock, alone or beside a histogram; on a clock of a gigahertz or more no conversion is cut to 64 bits | a word in which a second of nanoseconds and the fallback frequency fit |
| `HistogramTypeCorrect`, `SamplesInOctaves`, `SummaryConsistent` | `HistogramTypeOK`, `BucketsAreOctaves`, `PrintedMaxIsAboveIntervals` hold | the same, of W bits; at least one bucket |

The bounds that keep TLC finite (`MaxEffective`, `MaxSeq`, `MaxRecords`, `MaxFaults`, ...) are
constants like the others in the theorems: any numbers.

### The arguments

The ring. `NoSharedSlot` alone is not inductive, because it does not say what a
slot's counter means to a thread that has not read it yet. `IInv` says it: with `Freed` and
`Filled` as the two ends of the queue (each cursor, plus one while its thread is about to store
it), the slot at distance `d` from `Freed` holds `Freed + d + 1` if `d` is less than the number of
queued ticks and `Freed + d` otherwise (`SlotLifecycle`). `ProducerKnows` and `ConsumerKnows` add
what a thread has learnt from its check, and `QueueHoldsTicks` that queued slots hold ticks. Only
`Commit` and `Release` move an end, by one (`CommitMovesEnd`, `ReleaseMovesFront`), and both
leave the other slots alone. `WritableIsFree` and `ReadableIsQueued` turn a thread's comparison
into a fact about the queue: this is where wrapping counters could be mistaken for each other, and
where the ring has to have two slots. All of it rests on a few facts about `%` that the solvers
do not know, proved at the head of the module. For the refinement, a publish takes effect at
`Commit`, a take at `Release`, a refusal at `CheckWritable`; everything else stutters.

The gauges. `GaugesInv` adds to `IInv` that between its two loads the cursor the gauge has seen,
plus what was published since, is the producer's cursor, modulo `Wrap`. The error of the gauge is
then how far each cursor lags behind its end of the queue, one at most.

Weak memory. `MemoryInv` says nothing of which store a load returns. `HistoryHonest` says that any
store with the value a thread waits for, wherever it stands in the history of its counter, hands
on the knowledge the thread needs: that the other side has finished with the slot. With it
`ProducerKnows` and `ConsumerKnows` follow at each load, `CellsHold` ties the slot's last write
and read to the cursors, and no access is unordered.

The debug ring. `OneThreadPerRole` needs one more fact: the claim that a thread tests under the
mutex is the current one (`SeenIsClaimed`), because it copied it after it took the mutex. A thread
without the claim of a role has the local variables of a thread outside that role's call
(`StrangersOutside`), so the ring's two threads are those of the claims' holders, and every step is
one of theirs or a stutter of the ring.

The side. `Good` is the type of the array and its order. On it the binary search ends at a level of
the price, or at the place where the price belongs; that place is the least index that does not rank
before it, which exists because numbers are well-founded. `SetEffect` and `CancelEffect` say what one delta
does to the set of levels, through the memmove, the eviction and the discard, and that the count
is the cardinality of the set; `ImplementsDepthMap` is then one case per branch of `apply_delta`,
each for the delta's own price and quantity. `WritesInside` turns the memmoves into moves within
the array, and each use of it has to show that the last index written is below `MaxLevels`: this is
what `SideTypeCorrect` rests on.

The book. `ApplyEffect` says what `apply` does to each side, for every kind of tick. `FeedInv` joins
what the history knows to what the book stores: the snapshot ids of the book are those of the newest
batches (`IdsFollow`, `BatchesFiled`), what a full side evicts or discards is what `GivenUp` says
(`WorstIsGivenUp`), the counters leave room for the ticks to come (`CountersBounded`),
and a settled side of the book and of the replay agree in their levels while their arrays beyond
`count` may differ (`SettledAgree`). `ReplayReproduces` needs it as an invariant: two sides that
agree stay so under the same delta (`SearchAgrees`, `DeltaAgrees`).

The pipeline. `PipelineInv` follows a tick from the market to the book. `Numbered` and `Counted`
place every number either in the queue, among the dropped or among the taken. `OutboxOf` says, of
a side in the middle of a snapshot, that what was told and what is left to tell make up the market.
`HistoryHolds` says how the market and the status of each side that a tick carries follow from those
its predecessor in the ring carries; `BookShows` that the book shows what the last tick taken carries.
`SnapshotsInOrder` says that the first tick of a snapshot for a side meets a book that keeps an older
id, and clears it.

Capture. The recorder and the reader are never there together, so `CaptureInv` is two invariants.
`StreamHolds` says that file and buffer, one after the other, are the accepted records unit by unit,
wherever a write was cut short; `SavedWritten` that what was flushed is in the file. The reader is
in step with the file until an error (`InStep`), and if the last record was torn it reports it.
Sizes are multiples of the record size, `UnitsIn(k)`, which keeps the arithmetic linear.

The clock. `ClockInv` says that the frequency is that of the last calibration. What `Quotient` says of
`\div` turns `CalibrationAgrees` into a comparison of products. For a saturated calibration, the
quotient of a latency is multiplied by both measurements and the frequency is cancelled.

The histogram. `HistogramInv` says that each bucket holds the sum of the samples of its octave, and
that a bucket with samples has seen one that `max` is not below. `BucketIsOctave` says that the
clamped logarithm picks the one bucket whose octave holds a latency; `SumOfOneMore` that one
more sample adds one to the sums over the sets that hold it. Both are inductions: over powers of two
and over the subsets that the fold runs through. The library's induction theorems are of no use to the
provers here, because they take an operator, so `AllNumbers` and `AllSubsets` state induction for a set of
numbers or of sets, from the well-foundedness of `<`. That the two recursive definitions have
a value at all is proved first (`PowerOfTwoDef`, `SumsExist`).

### Only model-checked

- Liveness: `IsFairQueue`, `SpinnerGetsThrough`, `MutexIsFreed`, `BatchReturns`, `BookConverges`.
  Fairness and ENABLED are beyond the prover.

## 6. Where the documentation and the code disagree

With a run that shows it:

- `contiguous_gaps`: a cancel of an untracked level and a discarded tick do not advance the stored
  sequence (`types.rs:337`), so a feed with no number missing is counted as having gaps.
- `printed_intervals`: `print_summary` labels every bucket with the interval one octave below the
  one `record` fills it with (`book_engine.rs:90` against `:102`).
- `capture_reopen`: reopening a capture file that a crash left with part of a record at its end
  misaligns everything appended to it (`capture.rs:40` against the comment at `:32`).

- `replay_restart`: a replay of a capture that spans a restart keeps levels of the earlier session
  when the first snapshot after it carries the id of the last one before it (`types.rs:370` against
  `capture.rs:2` and `:32`; `types.rs:298`, "adapters usually start snapshot_id at 0").

Noted while modelling, without a run:

- `dropped_count()` counts refusals. A producer that spins gets its tick through after it was
  counted, so the count is not of ticks lost, as `ring_buffer.rs:189` and `metrics.rs:21` have it;
  `ring_buffer.rs:136`, "every false return", is right, and is part of `IsBoundedQueue`.
- `ring_buffer.rs:115` says that a poisoned mutex panics again; `into_inner` at `:123` lets the
  rightful owner go on, and `OneThreadPerRole` holds all the same.
- `types.rs:153`, "levels[0] is always best", holds among the levels tracked. A full side forgets
  what it refuses, and after removals a forgotten level may be the best: `BatchIntact` says up to
  where the side is exact.
- A snapshot tick with a zero quantity clears its side and returns `NoOp`, so `last_update_ns`
  does not advance although the book changed (`types.rs:337`; `metrics.rs:19`), and `is_stale`
  is true of a book that was just updated (`types.rs:402`).
- `README.md:88` and `:211` have several rings drained "from `BookEngine`", which has one ring.
- `tests/loom_ring_buffer.rs:12` says that the ring has 4 slots under loom, `ring_buffer.rs:14`
  has 2.

## 7. Not modelled

- `is_stale` and the getters: comparisons of fields in one state.
- `TickStats` and `book_mut`: an optional copy of a result, and an open door to the book.
- The Prometheus text, `Symbol` and `as_str`: formatting. Two names that agree in their first 16
  bytes are one symbol to the code and one model value here. Exchange, `ts_exchange_ns`: carried
  along; nothing in the code reads them.
- A router, several rings into one engine, priorities between them: the comments leave them to
  callers, and there is no code of them to translate.
- `rdtsc`, `rdtscp`, `now_ns`: clock readings; the timer takes any two of them.
- `sync.rs`: the std/loom switch. `lib.rs`: re-exports. Tests and benchmarks.
- A latency so long, at a frequency so low, that its nanoseconds need more than 64 bits: the
  conversion wraps there (`timer.rs:29`), and the timer's properties are stated for the rest, which
  is all there is at a gigahertz or more (`FastClockFits`).

## 8. Plan

Done in this order: the ring, its abstract queue and its proofs; gauges, canary, weak memory; the
side with its reference model; the book under a feed; the pipeline; capture; clock and histogram;
the gauges beside the ring's own properties; the debug ring; the market in front of the pipeline;
replay across restarts.

Proofs, in this order: the ring and its refinement; the canary; the gauges; the debug ring as a
ring; the side and its refinement; the book; weak memory; the pipeline; capture; the clock and the
histogram; the pipeline's use of the ring.

Left: the liveness properties, which wait for a prover of ENABLED and fairness.
