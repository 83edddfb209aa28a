---------------------------- MODULE BookFeedProofs ----------------------------
(***************************************************************************)
(* A book of any depth under any set of feeds, with restarts, strangers    *)
(* and checksum failures: what it tells a reader of the levels, of the     *)
(* sequence numbers and of a replay of the capture is right.               *)
(***************************************************************************)
EXTENDS BookFeed, BookProofs

\* The bounds on sequence_gaps and sequence_reorders rest on this: each effective
\* tick but the first adds one to at most one of them.
CountersBounded ==
  /\ book.sequence_gaps + book.sequence_reorders <= effective
  /\ effective <= MaxEffective
  /\ book.symbol_mismatches <= MaxAnomalies
  /\ book.checksum_failures <= MaxAnomalies

HistoryTypes ==
  /\ source \in Feeds
  /\ session \in {1, 2}
  /\ told \in [Sides -> SUBSET [price : Prices, qty : Qtys]]
  /\ lost \in [Sides -> SUBSET Prices]
  /\ batch \in [Sides -> Nat \cup {None}]
  /\ filed \in [Sides -> Nat \cup {None}]
  /\ settled \in [Sides -> BOOLEAN]
  /\ first \in Nat \cup {None}
  /\ effective \in Nat

\* The snapshot ids that the two books keep are those of the newest batches.
Id(id) == IF id = None THEN NoSnapshotId ELSE id
IdsFollow ==
  \A s \in Sides : /\ book.snapshot_id[s] = Id(batch[s])
                   /\ replayed.snapshot_id[s] = Id(filed[s])

\* A side that is not settled has seen no snapshot other than the one that was
\* filed last; on one that is settled the two books keep the same id.
BatchesFiled ==
  \A s \in Sides : /\ batch[s] = None \/ batch[s] = filed[s]
                   /\ settled[s] => batch[s] = filed[s]

FirstKnown ==
  IF book.sequence_initialized
    THEN first \in Nat /\ effective > 0
    ELSE first = None /\ effective = 0

SettledAgree ==
  \A s \in Sides : settled[s] => Agree(book.sides[s], replayed.sides[s])

FeedInv ==
  /\ IsBook(book) /\ IsBook(replayed)
  /\ HistoryTypes
  /\ CountersBounded
  /\ IdsFollow
  /\ BatchesFiled
  /\ FirstKnown
  /\ SequenceAccounting
  /\ NoStaleLevels
  /\ BatchIntact
  /\ SettledAgree

\* What FeedAssumption says of a tick of the feed.
LEMMA FeedTick ==
  ASSUME HistoryTypes, NEW tick \in source
  PROVE  IsTick(tick)
  BY FeedAssumption DEF HistoryTypes

\* Nothing was told, and nothing is in the book.
LEMMA InitInv == Init => FeedInv
<1> SUFFICES ASSUME Init PROVE FeedInv
  OBVIOUS
<1> USE DEF Init
<1>1. IsBook(book) /\ IsBook(replayed) /\ NoStaleLevels
  BY NewBookIsBook DEF NoStaleLevels
<1>2. HistoryTypes
  BY DEF HistoryTypes, None
<1>3. CountersBounded /\ FirstKnown /\ SequenceAccounting
  BY FeedAssumption DEF CountersBounded, FirstKnown, SequenceAccounting, NewBook, None
<1>4. IdsFollow /\ BatchesFiled
  BY DEF IdsFollow, BatchesFiled, Id, NewBook
<1>5. BatchIntact /\ SettledAgree
  BY DEF BatchIntact, SettledAgree, Agree
<1> QED
  BY <1>1, <1>2, <1>3, <1>4, <1>5 DEF FeedInv

------------------------------------------------------------------------------
(***************************************************************************)
(* A tick for this book.                                                   *)
(***************************************************************************)

\* The snapshot id on the side stands for the batch: the side is cleared when
\* the tick begins one, and not otherwise.
LEMMA ClearsWhenBegins ==
  ASSUME FeedInv, NEW tick \in source, NoSentinelFirst(tick)
  PROVE  Begins(tick)
           <=> tick.is_snapshot /\ tick.snapshot_id # book.snapshot_id[tick.side]
<1>1. IsTick(tick)
  BY FeedTick DEF FeedInv
<1>2. /\ tick.side \in Sides /\ tick.snapshot_id \in Nat
      /\ book.snapshot_id[tick.side] = Id(batch[tick.side])
  BY <1>1 DEF IsTick, FeedInv, IdsFollow
<1> QED
  BY <1>1, <1>2 DEF Begins, NoSentinelFirst, Id, None

\* What the tick does to the two sides of the book.
LEMMA TickOnSides ==
  ASSUME FeedInv, NEW tick \in source, ApplyTick(tick)
  PROVE  /\ \A s \in Sides :
              book'.sides[s] = IF s = tick.side THEN Landed(book, tick).side
                                                ELSE book.sides[s]
         /\ Met(book, tick) = IF Begins(tick) THEN Clear(book.sides[tick.side])
                                              ELSE book.sides[tick.side]
         /\ Levels(Met(book, tick)) = IF Begins(tick) THEN {}
                                        ELSE Levels(book.sides[tick.side])
         /\ Apply(book, tick).result = Landed(book, tick).result
<1>1. IsTick(tick) /\ IsBook(book) /\ tick.side \in Sides
  BY FeedTick DEF FeedInv, IsTick
<1>2. book' = Apply(book, tick).book /\ tick.symbol = Symbol
  BY DEF ApplyTick
<1>3. book'.sides = [book.sides EXCEPT ![tick.side] = Landed(book, tick).side]
  BY <1>1, <1>2, ApplyEffect DEF SidesChanged
<1>4. book.sides \in [Sides -> AnySide]
  BY <1>1 DEF IsBook, AnyBook
<1>5. Met(book, tick) = IF Begins(tick) THEN Clear(book.sides[tick.side])
                                        ELSE book.sides[tick.side]
  BY ClearsWhenBegins DEF Met, ApplyTick
<1>6. Levels(Clear(book.sides[tick.side])) = {}
  BY <1>1, <1>4, EmptyIsGood DEF IsSide
<1>7. Apply(book, tick).result = Landed(book, tick).result
  BY <1>1, <1>2, ApplyEffect
<1> QED
  BY <1>3, <1>4, <1>5, <1>6, <1>7

\* The two books stay well-formed.
LEMMA TickKeepsBooks ==
  ASSUME FeedInv, NEW tick \in source, ApplyTick(tick)
  PROVE  IsBook(book') /\ IsBook(replayed')
<1>1. IsTick(tick) /\ IsBook(book) /\ IsBook(replayed)
  BY FeedTick DEF FeedInv
<1> QED
  BY <1>1, ApplyKeepsBook DEF ApplyTick

\* The histories keep their types.
LEMMA TickKeepsTypes ==
  ASSUME FeedInv, NEW tick \in source, ApplyTick(tick), source' = source
  PROVE  HistoryTypes'
<1> DEFINE s == tick.side
<1>1. IsTick(tick) /\ IsBook(book) /\ HistoryTypes /\ s \in Sides
  BY FeedTick DEF FeedInv, IsTick
<1>2. Hear(tick, Apply(book, tick).result) /\ UNCHANGED session
  BY DEF ApplyTick
<1>3. told' \in [Sides -> SUBSET [price : Prices, qty : Qtys]]
  <2>1. Level(tick.price, tick.qty) \in [price : Prices, qty : Qtys]
    BY <1>1 DEF IsTick, Level
  <2>2. \A levels \in SUBSET [price : Prices, qty : Qtys] :
          Without(levels, tick.price) \in SUBSET [price : Prices, qty : Qtys]
    BY DEF Without
  <2> QED
    BY <1>1, <1>2, <2>1, <2>2 DEF Hear, HistoryTypes
<1>4. lost' \in [Sides -> SUBSET Prices]
  <2> DEFINE losses == IF Begins(tick) THEN {} ELSE lost[s]
             shown == IF Begins(tick) THEN {} ELSE Levels(book.sides[s])
             all == Without(shown, tick.price) \cup {Level(tick.price, tick.qty)}
  <2>1. lost' = [lost EXCEPT ![s] = losses \cup GivenUp(tick)]
    BY <1>2 DEF Hear
  <2>2. losses \in SUBSET Prices
    BY <1>1 DEF HistoryTypes
  <2>3. \A level \in all : level.price \in Prices
    <3>1. \A level \in Levels(book.sides[s]) : level.price \in Prices
      BY <1>1 DEF IsBook, IsSorted, Levels
    <3> QED
      BY <1>1, <3>1 DEF IsTick, Level, Without
  <2> HIDE DEF losses
  <2>4. GivenUp(tick) \in SUBSET Prices
    BY <2>3 DEF GivenUp
  <2> QED
    BY <1>1, <2>1, <2>2, <2>4 DEF HistoryTypes
<1>5. batch' \in [Sides -> Nat \cup {None}] /\ filed' \in [Sides -> Nat \cup {None}]
  <2>1. tick.snapshot_id \in Nat /\ tick.is_snapshot \in BOOLEAN
    BY <1>1 DEF IsTick
  <2> QED
    BY <1>1, <1>2, <2>1 DEF Hear, HistoryTypes
<1>6. settled' \in [Sides -> BOOLEAN]
  BY <1>1, <1>2 DEF Hear, HistoryTypes
<1>7. first' \in Nat \cup {None} /\ effective' \in Nat
  BY <1>1, <1>2 DEF Hear, HistoryTypes, IsTick
<1> QED
  BY <1>1, <1>2, <1>3, <1>4, <1>5, <1>6, <1>7 DEF HistoryTypes

\* What the tick does to the sequence numbers and to the other counters.
LEMMA TickOnCounts ==
  ASSUME FeedInv, NEW tick \in source, ApplyTick(tick)
  PROVE  /\ book'.symbol_mismatches = book.symbol_mismatches
         /\ book'.checksum_failures = book.checksum_failures
         /\ \/ /\ Effective(Apply(book, tick).result)
               /\ book'.sequence_initialized
               /\ book'.sequence = tick.sequence
               /\ book'.sequence_gaps = IF Skips(book, tick)
                                          THEN book.sequence_gaps + 1
                                          ELSE book.sequence_gaps
               /\ book'.sequence_reorders = IF GoesBack(book, tick)
                                              THEN book.sequence_reorders + 1
                                              ELSE book.sequence_reorders
               /\ effective' = effective + 1
               /\ first' = IF first = None THEN tick.sequence ELSE first
            \/ /\ book'.sequence_initialized = book.sequence_initialized
               /\ book'.sequence = book.sequence
               /\ book'.sequence_gaps = book.sequence_gaps
               /\ book'.sequence_reorders = book.sequence_reorders
               /\ UNCHANGED <<effective, first>>
<1>1. IsTick(tick) /\ IsBook(book)
  BY FeedTick DEF FeedInv
<1>2. book' = Apply(book, tick).book /\ tick.symbol = Symbol
  BY DEF ApplyTick
<1>3. /\ CountsChanged(book, tick, book')
      /\ Apply(book, tick).result = Landed(book, tick).result
  BY <1>1, <1>2, ApplyEffect
<1>4. /\ first' = IF first = None /\ Effective(Apply(book, tick).result)
                    THEN tick.sequence ELSE first
      /\ effective' = IF Effective(Apply(book, tick).result) THEN effective + 1
                                                             ELSE effective
  BY DEF ApplyTick, Hear
<1>5. CASE Effective(Apply(book, tick).result)
  BY <1>3, <1>4, <1>5 DEF CountsChanged
<1>6. CASE ~ Effective(Apply(book, tick).result)
  BY <1>3, <1>4, <1>6 DEF CountsChanged
<1> QED
  BY <1>5, <1>6

\* A tick that comes next keeps both sides of the account; one that skips raises
\* the span by more than one, one that goes back does not raise it.
LEMMA TickKeepsAccount ==
  ASSUME FeedInv, NEW tick \in source, ApplyTick(tick)
  PROVE  CountersBounded' /\ FirstKnown' /\ SequenceAccounting'
<1>1. IsTick(tick) /\ IsBook(book)
  BY FeedTick DEF FeedInv
<1>2. /\ tick.sequence \in Nat /\ book.sequence \in Nat
      /\ book.sequence_gaps \in Nat /\ book.sequence_reorders \in Nat
      /\ book.sequence_initialized \in BOOLEAN
      /\ effective \in Nat /\ first \in Nat \cup {None}
      /\ MaxEffective \in Nat /\ MaxAnomalies \in Nat
  BY <1>1, FeedAssumption DEF IsTick, IsBook, AnyBook, FeedInv, HistoryTypes
<1>3. effective' <= MaxEffective
  BY DEF ApplyTick
<1>4. CountersBounded /\ FirstKnown /\ SequenceAccounting
  BY DEF FeedInv
<1>5. /\ book'.symbol_mismatches = book.symbol_mismatches
      /\ book'.checksum_failures = book.checksum_failures
  BY TickOnCounts
<1>6. CASE /\ book'.sequence_initialized = book.sequence_initialized
           /\ book'.sequence = book.sequence
           /\ book'.sequence_gaps = book.sequence_gaps
           /\ book'.sequence_reorders = book.sequence_reorders
           /\ UNCHANGED <<effective, first>>
  <2>1. CountersBounded'
    BY <1>2, <1>3, <1>4, <1>5, <1>6 DEF CountersBounded
  <2>2. FirstKnown'
    BY <1>4, <1>6 DEF FirstKnown
  <2>3. SequenceAccounting'
    BY <1>4, <1>6 DEF SequenceAccounting
  <2> QED
    BY <2>1, <2>2, <2>3
<1>7. CASE /\ Effective(Apply(book, tick).result)
           /\ book'.sequence_initialized
           /\ book'.sequence = tick.sequence
           /\ book'.sequence_gaps = IF Skips(book, tick)
                                      THEN book.sequence_gaps + 1
                                      ELSE book.sequence_gaps
           /\ book'.sequence_reorders = IF GoesBack(book, tick)
                                          THEN book.sequence_reorders + 1
                                          ELSE book.sequence_reorders
           /\ effective' = effective + 1
           /\ first' = IF first = None THEN tick.sequence ELSE first
  <2>1. CASE ~ book.sequence_initialized
    <3>1. first = None /\ effective = 0
      BY <1>4, <2>1 DEF FirstKnown
    <3>2. /\ book'.sequence_gaps = book.sequence_gaps
          /\ book'.sequence_reorders = book.sequence_reorders
          /\ first' = tick.sequence /\ effective' = 1
      BY <1>7, <2>1, <3>1 DEF Skips, GoesBack
    <3>3. book.sequence_gaps = 0 /\ book.sequence_reorders = 0
      BY <1>2, <1>4, <3>1 DEF CountersBounded
    <3>4. CountersBounded'
      BY <1>2, <1>3, <1>4, <1>5, <3>2, <3>3 DEF CountersBounded
    <3>5. FirstKnown'
      BY <1>2, <1>7, <3>2 DEF FirstKnown
    <3>6. SequenceAccounting'
      BY <1>2, <1>7, <3>2, <3>3 DEF SequenceAccounting
    <3> QED
      BY <3>4, <3>5, <3>6
  <2>2. CASE book.sequence_initialized
    <3>1. first \in Nat /\ first # None /\ effective > 0
      BY <1>4, <2>2 DEF FirstKnown, None
    <3>2. first' = first /\ effective' = effective + 1
      BY <1>7, <3>1
    <3> DEFINE seq == book.sequence
               span == seq - first
    <3>3. /\ book.sequence_reorders = 0 => span >= effective - 1 + book.sequence_gaps
          /\ book.sequence_gaps = 0 => span <= effective - 1 - book.sequence_reorders
      BY <1>4, <2>2 DEF SequenceAccounting
    <3>4. \/ /\ tick.sequence = seq + 1
             /\ book'.sequence_gaps = book.sequence_gaps
             /\ book'.sequence_reorders = book.sequence_reorders
          \/ /\ tick.sequence > seq + 1
             /\ book'.sequence_gaps = book.sequence_gaps + 1
             /\ book'.sequence_reorders = book.sequence_reorders
          \/ /\ tick.sequence <= seq
             /\ book'.sequence_gaps = book.sequence_gaps
             /\ book'.sequence_reorders = book.sequence_reorders + 1
      BY <1>2, <1>7, <2>2 DEF Skips, GoesBack
    <3>5. CountersBounded'
      BY <1>2, <1>3, <1>4, <1>5, <3>2, <3>4 DEF CountersBounded
    <3>6. FirstKnown'
      BY <1>2, <1>7, <3>1, <3>2 DEF FirstKnown
    <3>7. SequenceAccounting'
      BY <1>2, <1>7, <3>1, <3>2, <3>3, <3>4 DEF SequenceAccounting
    <3> QED
      BY <3>5, <3>6, <3>7
  <2> QED
    BY <2>1, <2>2
<1> QED
  BY <1>6, <1>7, TickOnCounts

\* The ids of both books, and the batches of the session and of the file.
LEMMA TickKeepsIds ==
  ASSUME FeedInv, NEW tick \in source, ApplyTick(tick)
  PROVE  IdsFollow' /\ BatchesFiled'
<1> DEFINE s == tick.side
<1>1. /\ IsTick(tick) /\ IsBook(book) /\ IsBook(replayed) /\ s \in Sides
      /\ tick.snapshot_id \in Nat /\ tick.snapshot_id # None
  BY FeedTick DEF FeedInv, IsTick, None
<1>2. /\ book' = Apply(book, tick).book /\ replayed' = Apply(replayed, tick).book
      /\ tick.symbol = Symbol
  BY DEF ApplyTick
<1>3. SidesChanged(book, tick, book') /\ SidesChanged(replayed, tick, replayed')
  BY <1>1, <1>2, ApplyEffect
<1>4. /\ \A t \in Sides \ {s} : /\ book'.snapshot_id[t] = book.snapshot_id[t]
                                /\ replayed'.snapshot_id[t] = replayed.snapshot_id[t]
      /\ book'.snapshot_id[s] = IF tick.is_snapshot THEN tick.snapshot_id
                                                    ELSE book.snapshot_id[s]
      /\ replayed'.snapshot_id[s] = IF tick.is_snapshot THEN tick.snapshot_id
                                                        ELSE replayed.snapshot_id[s]
  BY <1>1, <1>3 DEF SidesChanged, IsBook, AnyBook
<1>5. /\ batch' = [batch EXCEPT ![s] = IF tick.is_snapshot THEN tick.snapshot_id ELSE @]
      /\ filed' = [filed EXCEPT ![s] = IF tick.is_snapshot THEN tick.snapshot_id ELSE @]
      /\ settled' = [settled EXCEPT ![s] =
                       @ \/ (tick.is_snapshot /\ tick.snapshot_id # filed[s])]
  BY DEF ApplyTick, Hear
<1>6. HistoryTypes /\ IdsFollow /\ BatchesFiled
  BY DEF FeedInv
<1> HIDE DEF s
<1>7. /\ \A t \in Sides \ {s} : /\ batch'[t] = batch[t] /\ filed'[t] = filed[t]
                                /\ settled'[t] = settled[t]
      /\ batch'[s] = IF tick.is_snapshot THEN tick.snapshot_id ELSE batch[s]
      /\ filed'[s] = IF tick.is_snapshot THEN tick.snapshot_id ELSE filed[s]
      /\ settled'[s] <=> settled[s] \/ (tick.is_snapshot /\ tick.snapshot_id # filed[s])
  BY <1>1, <1>5, <1>6 DEF HistoryTypes
<1>8. IdsFollow'
  <2> SUFFICES ASSUME NEW t \in Sides
               PROVE  /\ book'.snapshot_id[t] = Id(batch'[t])
                      /\ replayed'.snapshot_id[t] = Id(filed'[t])
    BY DEF IdsFollow
  <2>1. CASE t # s
    BY <1>4, <1>6, <1>7, <2>1 DEF IdsFollow
  <2>2. CASE t = s /\ tick.is_snapshot
    BY <1>1, <1>4, <1>7, <2>2 DEF Id
  <2>3. CASE t = s /\ ~ tick.is_snapshot
    BY <1>4, <1>6, <1>7, <2>3 DEF IdsFollow
  <2> QED
    BY <2>1, <2>2, <2>3
<1>9. BatchesFiled'
  BY <1>1, <1>6, <1>7 DEF BatchesFiled
<1> QED
  BY <1>8, <1>9

\* A full side that the tick adds a level to gives up the worst of all of them.
LEMMA WorstIsGivenUp ==
  ASSUME FeedInv, NEW tick \in source, ApplyTick(tick), tick.qty # 0,
         LET held == Levels(Met(book, tick))
         IN  Others(held, tick.price) = held /\ Met(book, tick).count = MaxLevels,
         NEW worst \in Levels(Met(book, tick)) \cup {Level(tick.price, tick.qty)},
         \A level \in Levels(Met(book, tick)) \cup {Level(tick.price, tick.qty)} :
           level = worst \/ Before(level.price, worst.price, tick.side = "Bid")
  PROVE  worst.price \in GivenUp(tick)
<1> DEFINE s == tick.side
           held == Levels(Met(book, tick))
           new == Level(tick.price, tick.qty)
           all == held \cup {new}
<1>1. /\ IsTick(tick) /\ IsBook(book) /\ s \in Sides /\ tick.price \in Prices
  BY FeedTick DEF FeedInv, IsTick
<1>2. Good(Met(book, tick), s = "Bid")
  BY <1>1, MetIsGood
<1>3. IsFiniteSet(held) /\ Cardinality(held) = MaxLevels
  <2> DEFINE descending == s = "Bid"
  <2>1. descending \in BOOLEAN /\ Good(Met(book, tick), descending)
    BY <1>2
  <2> HIDE DEF descending
  <2> QED
    BY <2>1, CountIsCardinality
<1>4. new.price = tick.price /\ new \notin held
  BY DEF Others, Level
<1>5. Cardinality(all) = MaxLevels + 1
  BY <1>3, <1>4, FS_AddElement
<1>6. ~ (Cardinality(all) <= MaxLevels)
  BY <1>5, SideAssumption
<1>7. held = IF Begins(tick) THEN {} ELSE Levels(book.sides[s])
  BY TickOnSides
<1>8. Without(held, tick.price) = held
  BY DEF Without, Others
<1>9. \A level \in all : level.price \in Prices
  BY <1>1, <1>2, <1>4 DEF Good, IsSorted, Levels
<1>10. \A level \in all : ~ Before(worst.price, level.price, s = "Bid")
  <2> SUFFICES ASSUME NEW level \in all
               PROVE  ~ Before(worst.price, level.price, s = "Bid")
    OBVIOUS
  <2>1. worst.price \in Prices /\ level.price \in Prices
    BY <1>9
  <2>2. level = worst \/ Before(level.price, worst.price, s = "Bid")
    OBVIOUS
  <2> QED
    BY <2>1, <2>2, Ranking
<1> HIDE DEF held
<1>11. GivenUp(tick) = {l.price : l \in {level \in all : \A other \in all :
                                           ~ Before(level.price, other.price, s = "Bid")}}
  BY <1>6, <1>7, <1>8 DEF GivenUp
<1> QED
  BY <1>10, <1>11 DEF held

\* The tick on its own side: what was told, and what was lost, as against what
\* the side holds.
LEMMA TickKeepsTold ==
  ASSUME FeedInv, NEW tick \in source, ApplyTick(tick)
  PROVE  LET s == tick.side
             levels == Levels(book'.sides[s])
         IN  /\ levels \subseteq told'[s]
             /\ \A level \in told'[s] :
                  (\A price \in lost'[s] : Before(level.price, price, s = "Bid"))
                    => level \in levels
<1> DEFINE s == tick.side
           met == Met(book, tick)
           held == Levels(met)
           landed == Landed(book, tick)
           levels == Levels(landed.side)
           heard == IF Begins(tick) THEN {} ELSE told[s]
           losses == IF Begins(tick) THEN {} ELSE lost[s]
           level == Level(tick.price, tick.qty)
           last == met.levels[MaxLevels - 1]
           Beats(l, prices) == \A price \in prices : Before(l.price, price, s = "Bid")
<1>1. /\ IsTick(tick) /\ IsBook(book) /\ HistoryTypes /\ s \in Sides
      /\ tick.price \in Prices /\ tick.qty \in Qtys
  BY FeedTick DEF FeedInv, IsTick
<1>2. Good(met, s = "Bid")
  BY <1>1, MetIsGood
<1>3. book'.sides[s] = landed.side
  BY <1>1, TickOnSides
<1>4. /\ held \subseteq heard
      /\ \A l \in heard : Beats(l, losses) => l \in held
  <2>1. CASE Begins(tick)
    BY <2>1, TickOnSides
  <2>2. CASE ~ Begins(tick)
    <3>1. held = Levels(book.sides[s])
      BY <2>2, TickOnSides
    <3>2. /\ Levels(book.sides[s]) \subseteq told[s]
          /\ \A l \in told[s] : Beats(l, lost[s]) => l \in Levels(book.sides[s])
      BY <1>1 DEF FeedInv, NoStaleLevels, BatchIntact
    <3> QED
      BY <2>2, <3>1, <3>2
  <2> QED
    BY <2>1, <2>2
<1>5. Hear(tick, landed.result)
  BY TickOnSides DEF ApplyTick
<1>6. told'[s] = Others(heard, tick.price) \cup (IF tick.qty = 0 THEN {} ELSE {level})
  <2>1. told' = [told EXCEPT ![s] =
                   Others(heard, tick.price) \cup (IF tick.qty = 0 THEN {} ELSE {level})]
    BY <1>5 DEF Hear, Without, Others
  <2> HIDE DEF s, heard, level
  <2> QED
    BY <1>1, <2>1 DEF HistoryTypes
<1>7. lost'[s] = losses \cup GivenUp(tick)
  <2>1. lost' = [lost EXCEPT ![s] = losses \cup GivenUp(tick)]
    BY <1>5 DEF Hear
  <2> HIDE DEF s, losses
  <2> QED
    BY <1>1, <2>1 DEF HistoryTypes
<1>8. level.price = tick.price
  BY DEF Level
<1>9. \A l \in held : l.price \in Prices
  BY <1>2 DEF Good, IsSorted, Levels
<1>10. \A p \in Prices : ~ Before(p, p, s = "Bid")
  BY Ranking
<1>11. CASE tick.qty = 0
  <2>1. /\ levels = Others(held, tick.price)
        /\ landed.result \in {"NoOp", "Removed"}
    <3> HIDE DEF met
    <3>1. LET done == ApplyDelta(met, tick.price, 0, s = "Bid")
          IN  /\ Levels(done.side) = Others(held, tick.price)
              /\ done.result \in {"NoOp", "Removed"}
      BY <1>1, <1>2, CancelEffect
    <3> QED
      BY <1>11, <3>1 DEF Landed, met
  <2>2. told'[s] = Others(heard, tick.price) /\ losses \subseteq lost'[s]
    BY <1>6, <1>7, <1>11
  <2> HIDE DEF s, met, held, landed, levels, heard, losses, level
  <2>3. /\ levels \subseteq told'[s]
        /\ \A l \in told'[s] : Beats(l, lost'[s]) => l \in levels
    BY <1>4, <2>1, <2>2 DEF Others
  <2> QED
    BY <1>3, <2>3 DEF levels, s
<1>12. CASE tick.qty # 0
  <2>1. /\ told'[s] = Others(heard, tick.price) \cup {level}
        /\ tick.qty \in Qtys \ {0}
    BY <1>1, <1>6, <1>12
  <2>2. \/ /\ landed.result = "Updated"
           /\ levels = Others(held, tick.price) \cup {level}
        \/ /\ landed.result = "Inserted" /\ Others(held, tick.price) = held
           /\ levels = held \cup {level}
        \/ /\ landed.result = "InsertedEvicted" /\ Others(held, tick.price) = held
           /\ met.count = MaxLevels
           /\ last \in held /\ Before(tick.price, last.price, s = "Bid")
           /\ levels = (held \ {last}) \cup {level}
        \/ /\ landed.result = "Discarded" /\ Others(held, tick.price) = held
           /\ met.count = MaxLevels
           /\ \A other \in held : Before(other.price, tick.price, s = "Bid")
           /\ landed.side = met
    <3> HIDE DEF met
    <3>1. LET done == ApplyDelta(met, tick.price, tick.qty, s = "Bid")
          IN  Sets(met, level, s = "Bid", done)
      BY <1>1, <1>2, <2>1, SetEffect
    <3>2. Sets(met, level, s = "Bid", landed)
      BY <3>1 DEF Landed, met
    <3> HIDE DEF landed, level
    <3> QED
      BY <1>8, <3>2 DEF Sets
  <2>3. CASE /\ landed.result \in {"Updated", "Inserted"}
             /\ levels = Others(held, tick.price) \cup {level}
    <3>1. losses \subseteq lost'[s]
      BY <1>7
    <3> HIDE DEF s, met, held, landed, levels, heard, losses, level
    <3>2. /\ levels \subseteq told'[s]
          /\ \A l \in told'[s] : Beats(l, lost'[s]) => l \in levels
      BY <1>4, <2>1, <2>3, <3>1 DEF Others
    <3> QED
      BY <1>3, <3>2 DEF levels, s
  <2>4. CASE /\ landed.result = "InsertedEvicted" /\ Others(held, tick.price) = held
             /\ met.count = MaxLevels
             /\ last \in held /\ Before(tick.price, last.price, s = "Bid")
             /\ levels = (held \ {last}) \cup {level}
    <3>1. \A other \in held \cup {level} :
            other = last \/ Before(other.price, last.price, s = "Bid")
      <4>1. \A other \in held : other # last => Before(other.price, last.price, s = "Bid")
        <5> DEFINE descending == s = "Bid"
        <5>1. descending \in BOOLEAN /\ Good(met, descending) /\ met.count = MaxLevels
          BY <1>2, <2>4
        <5> HIDE DEF descending, met
        <5>2. \A other \in held : other # last => Before(other.price, last.price, descending)
          BY <5>1, LastIsWorst
        <5> QED
          BY <5>2 DEF descending
      <4> QED
        BY <1>8, <2>4, <4>1
    <3>2. last.price \in GivenUp(tick)
      BY <1>12, <2>4, <3>1, WorstIsGivenUp
    <3>3. losses \subseteq lost'[s] /\ last.price \in lost'[s]
      BY <1>7, <3>2
    <3>4. last.price \in Prices
      BY <1>9, <2>4
    <3> HIDE DEF s, met, held, landed, levels, heard, losses, level, last
    <3>5. levels \subseteq told'[s]
      BY <1>4, <2>1, <2>4 DEF Others
    <3>6. ASSUME NEW l \in told'[s], Beats(l, lost'[s]) PROVE l \in levels
      <4>1. CASE l = level
        BY <2>4, <4>1
      <4>2. CASE l # level
        <5>1. l \in heard /\ Beats(l, losses)
          BY <2>1, <3>3, <3>6, <4>2 DEF Others
        <5>2. Before(l.price, last.price, s = "Bid")
          BY <3>3, <3>6
        <5>3. l # last
          BY <1>10, <3>4, <5>2
        <5> QED
          BY <1>4, <2>4, <5>1, <5>3
      <4> QED
        BY <4>1, <4>2
    <3> QED
      BY <1>3, <3>5, <3>6 DEF levels, s
  <2>5. CASE /\ landed.result = "Discarded" /\ Others(held, tick.price) = held
             /\ met.count = MaxLevels
             /\ \A other \in held : Before(other.price, tick.price, s = "Bid")
             /\ landed.side = met
    <3>1. losses \subseteq lost'[s] /\ tick.price \in lost'[s]
      <4>1. \A other \in held \cup {level} :
              other = level \/ Before(other.price, level.price, s = "Bid")
        BY <1>8, <2>5
      <4>2. level.price \in GivenUp(tick)
        BY <1>12, <2>5, <4>1, WorstIsGivenUp
      <4> QED
        BY <1>7, <1>8, <4>2
    <3>2. levels = held
      BY <2>5
    <3> HIDE DEF s, met, held, landed, levels, heard, losses, level, last
    <3>3. levels \subseteq told'[s]
      BY <1>4, <2>1, <2>5, <3>2 DEF Others
    <3>4. ASSUME NEW l \in told'[s], Beats(l, lost'[s]) PROVE l \in levels
      <4>1. l # level
        <5>1. Before(l.price, tick.price, s = "Bid")
          BY <3>1, <3>4
        <5> QED
          BY <1>1, <1>8, <1>10, <5>1
      <4>2. l \in heard /\ Beats(l, losses)
        BY <2>1, <3>1, <3>4, <4>1 DEF Others
      <4> QED
        BY <1>4, <3>2, <4>2
    <3> QED
      BY <1>3, <3>3, <3>4 DEF levels, s
  <2> QED
    BY <2>2, <2>3, <2>4, <2>5
<1> QED
  BY <1>11, <1>12

\* The other side is as it was, in the book and in the histories.
LEMMA TickKeepsLevels ==
  ASSUME FeedInv, NEW tick \in source, ApplyTick(tick)
  PROVE  NoStaleLevels' /\ BatchIntact'
<1>1. \A s \in Sides : s # tick.side =>
        /\ book'.sides[s] = book.sides[s]
        /\ told'[s] = told[s] /\ lost'[s] = lost[s]
  <2>1. HistoryTypes
    BY DEF FeedInv
  <2> QED
    BY <2>1, TickOnSides DEF ApplyTick, Hear, HistoryTypes
<1>2. NoStaleLevels /\ BatchIntact
  BY DEF FeedInv
<1>3. NoStaleLevels'
  <2> SUFFICES ASSUME NEW s \in Sides PROVE Levels(book'.sides[s]) \subseteq told'[s]
    BY DEF NoStaleLevels
  <2>1. CASE s = tick.side
    BY <2>1, TickKeepsTold
  <2>2. CASE s # tick.side
    BY <1>1, <1>2, <2>2 DEF NoStaleLevels
  <2> QED
    BY <2>1, <2>2
<1>4. BatchIntact'
  <2> SUFFICES ASSUME NEW s \in Sides, NEW level \in told'[s],
                      \A price \in lost'[s] : Before(level.price, price, s = "Bid")
               PROVE  level \in Levels(book'.sides[s])
    BY DEF BatchIntact
  <2>1. CASE s = tick.side
    BY <2>1, TickKeepsTold
  <2>2. CASE s # tick.side
    BY <1>1, <1>2, <2>2 DEF BatchIntact
  <2> QED
    BY <2>1, <2>2
<1> QED
  BY <1>3, <1>4

\* On a side that is settled the tick clears both books or neither, and on one
\* that it settles it clears both: what the delta meets is the same, but for the
\* stale data.
LEMMA TickMeetsTheSame ==
  ASSUME FeedInv, NEW tick \in source, ApplyTick(tick), settled'[tick.side]
  PROVE  Agree(Met(book, tick), Met(replayed, tick))
<1> DEFINE s == tick.side
<1>1. /\ IsTick(tick) /\ s \in Sides /\ tick.snapshot_id \in Nat
      /\ tick.is_snapshot /\ batch[s] = None => tick.snapshot_id # NoSnapshotId
      /\ IsSide(book.sides[s]) /\ IsSide(replayed.sides[s])
  BY FeedTick DEF FeedInv, IsTick, IsBook, AnyBook, IsSide, ApplyTick, NoSentinelFirst
<1>2. /\ book.snapshot_id[s] = Id(batch[s]) /\ replayed.snapshot_id[s] = Id(filed[s])
      /\ batch[s] = None \/ batch[s] = filed[s]
      /\ settled[s] => batch[s] = filed[s]
      /\ settled[s] => Agree(book.sides[s], replayed.sides[s])
  BY <1>1 DEF FeedInv, IdsFollow, BatchesFiled, SettledAgree
<1>3. settled[s] \/ (tick.is_snapshot /\ tick.snapshot_id # filed[s])
  BY <1>1 DEF ApplyTick, Hear, FeedInv, HistoryTypes
<1>4. Agree(Clear(book.sides[s]), Clear(replayed.sides[s]))
  BY <1>1 DEF Agree, Clear, IsSide, AnySide
<1>5. CASE settled[s]
  BY <1>2, <1>4, <1>5 DEF Met
<1>6. CASE ~ settled[s]
  <2>1. /\ tick.is_snapshot /\ tick.snapshot_id # book.snapshot_id[s]
        /\ tick.snapshot_id # replayed.snapshot_id[s]
    BY <1>1, <1>2, <1>3, <1>6 DEF Id, None
  <2> QED
    BY <1>4, <2>1 DEF Met
<1> QED
  BY <1>5, <1>6

\* So the two books agree on a settled side after the tick.
LEMMA TickKeepsAgreement ==
  ASSUME FeedInv, NEW tick \in source, ApplyTick(tick)
  PROVE  SettledAgree'
<1> SUFFICES ASSUME NEW s \in Sides, settled'[s]
             PROVE  Agree(book'.sides[s], replayed'.sides[s])
  BY DEF SettledAgree
<1>1. /\ IsTick(tick) /\ IsBook(book) /\ IsBook(replayed) /\ tick.side \in Sides
      /\ tick.price \in Prices /\ tick.qty \in Qtys
  BY FeedTick DEF FeedInv, IsTick
<1>2. /\ book' = Apply(book, tick).book /\ replayed' = Apply(replayed, tick).book
      /\ tick.symbol = Symbol
  BY DEF ApplyTick
<1>3. SidesChanged(book, tick, book') /\ SidesChanged(replayed, tick, replayed')
  BY <1>1, <1>2, ApplyEffect
<1>4. CASE s = tick.side
  <2>1. /\ book'.sides[s] = Landed(book, tick).side
        /\ replayed'.sides[s] = Landed(replayed, tick).side
    BY <1>1, <1>3, <1>4 DEF SidesChanged, IsBook, AnyBook
  <2> DEFINE a == Met(book, tick)
             b == Met(replayed, tick)
             descending == tick.side = "Bid"
  <2>2. Agree(a, b)
    BY <1>4, TickMeetsTheSame
  <2>3. Good(a, descending) /\ Good(b, descending)
    BY <1>1, MetIsGood
  <2>4. /\ Landed(book, tick) = ApplyDelta(a, tick.price, tick.qty, descending)
        /\ Landed(replayed, tick) = ApplyDelta(b, tick.price, tick.qty, descending)
    BY DEF Landed
  <2>5. descending \in BOOLEAN
    OBVIOUS
  <2> HIDE DEF a, b, descending
  <2> QED
    BY <1>1, <2>1, <2>2, <2>3, <2>4, <2>5, DeltaAgrees
<1>5. CASE s # tick.side
  <2>1. /\ book'.sides[s] = book.sides[s] /\ replayed'.sides[s] = replayed.sides[s]
    BY <1>1, <1>3, <1>5 DEF SidesChanged, IsBook, AnyBook
  <2>2. settled'[s] = settled[s]
    BY <1>1, <1>5 DEF ApplyTick, Hear, FeedInv, HistoryTypes
  <2> QED
    BY <2>1, <2>2 DEF FeedInv, SettledAgree
<1> QED
  BY <1>4, <1>5

------------------------------------------------------------------------------
(***************************************************************************)
(* The other actions, and the invariant.                                   *)
(***************************************************************************)

\* A stranger's tick is counted and goes no further, in either book.
LEMMA StrangerStep ==
  ASSUME FeedInv, NEW tick \in source, ApplyStranger(tick), source' = source
  PROVE  FeedInv'
<1>1. /\ IsTick(tick) /\ IsBook(book) /\ IsBook(replayed) /\ tick.symbol # Symbol
      /\ book.symbol_mismatches < MaxAnomalies /\ MaxAnomalies \in Nat
  BY FeedTick, FeedAssumption DEF FeedInv, ApplyStranger
<1>2. IsBook(book') /\ IsBook(replayed')
  BY <1>1, ApplyKeepsBook DEF ApplyStranger
<1>3. /\ book' = [book EXCEPT !.symbol_mismatches = @ + 1]
      /\ replayed' = [replayed EXCEPT !.symbol_mismatches = @ + 1]
  BY <1>1 DEF ApplyStranger, Apply
<1>4. /\ book'.sides = book.sides /\ book'.snapshot_id = book.snapshot_id
      /\ book'.sequence = book.sequence
      /\ book'.sequence_initialized = book.sequence_initialized
      /\ book'.sequence_gaps = book.sequence_gaps
      /\ book'.sequence_reorders = book.sequence_reorders
      /\ book'.checksum_failures = book.checksum_failures
      /\ book'.symbol_mismatches = book.symbol_mismatches + 1
      /\ replayed'.sides = replayed.sides
      /\ replayed'.snapshot_id = replayed.snapshot_id
  BY <1>1, <1>3 DEF IsBook, AnyBook
<1>5. UNCHANGED <<source, session, historyVars>>
  BY DEF ApplyStranger
<1>6. CountersBounded'
  <2>1. book.symbol_mismatches \in Nat
    BY <1>1 DEF IsBook, AnyBook
  <2> QED
    BY <1>1, <1>4, <1>5, <2>1 DEF FeedInv, CountersBounded, historyVars
<1>7. HistoryTypes'
  BY <1>5 DEF FeedInv, HistoryTypes, historyVars
<1>8. IdsFollow' /\ BatchesFiled' /\ FirstKnown' /\ SequenceAccounting'
  BY <1>4, <1>5 DEF FeedInv, IdsFollow, BatchesFiled, FirstKnown, SequenceAccounting,
                    historyVars
<1>9. NoStaleLevels' /\ BatchIntact' /\ SettledAgree'
  BY <1>4, <1>5 DEF FeedInv, NoStaleLevels, BatchIntact, SettledAgree, historyVars
<1> QED
  BY <1>2, <1>6, <1>7, <1>8, <1>9 DEF FeedInv

\* A checksum failure is counted, and changes nothing else.
LEMMA ChecksumStep ==
  ASSUME FeedInv, ChecksumFails, source' = source
  PROVE  FeedInv'
<1>1. /\ IsBook(book) /\ IsBook(replayed) /\ book.checksum_failures \in Nat
      /\ book.checksum_failures < MaxAnomalies /\ MaxAnomalies \in Nat
  BY FeedAssumption DEF FeedInv, ChecksumFails, IsBook, AnyBook
<1>2. book' = [book EXCEPT !.checksum_failures = @ + 1]
  BY DEF ChecksumFails, RecordChecksumFailure
<1>3. UNCHANGED <<source, replayed, session, historyVars>>
  BY DEF ChecksumFails
<1>4. /\ book'.sides = book.sides /\ book'.snapshot_id = book.snapshot_id
      /\ book'.sequence = book.sequence
      /\ book'.sequence_initialized = book.sequence_initialized
      /\ book'.sequence_gaps = book.sequence_gaps
      /\ book'.sequence_reorders = book.sequence_reorders
      /\ book'.symbol_mismatches = book.symbol_mismatches
      /\ book'.checksum_failures = book.checksum_failures + 1
  BY <1>1, <1>2 DEF IsBook, AnyBook
<1>5. IsBook(book') /\ IsBook(replayed')
  <2>1. book' \in AnyBook
    BY <1>1, <1>2 DEF IsBook, AnyBook
  <2> QED
    BY <1>1, <1>3, <1>4, <2>1 DEF IsBook
<1>6. CountersBounded'
  BY <1>1, <1>3, <1>4 DEF FeedInv, CountersBounded, historyVars
<1>7. HistoryTypes'
  BY <1>3 DEF FeedInv, HistoryTypes, historyVars
<1>8. IdsFollow' /\ BatchesFiled' /\ FirstKnown' /\ SequenceAccounting'
  BY <1>3, <1>4 DEF FeedInv, IdsFollow, BatchesFiled, FirstKnown, SequenceAccounting,
                    historyVars
<1>9. NoStaleLevels' /\ BatchIntact' /\ SettledAgree'
  BY <1>3, <1>4 DEF FeedInv, NoStaleLevels, BatchIntact, SettledAgree, historyVars
<1> QED
  BY <1>5, <1>6, <1>7, <1>8, <1>9 DEF FeedInv

\* After a restart nothing is told and no side is settled.
LEMMA RestartStep ==
  ASSUME FeedInv, Restart, source' = source
  PROVE  FeedInv'
<1> USE DEF Restart
<1>1. IsBook(book') /\ NoStaleLevels' /\ IsBook(replayed')
  BY NewBookIsBook DEF NoStaleLevels, FeedInv
<1>2. HistoryTypes'
  BY DEF HistoryTypes, None, FeedInv
<1>3. CountersBounded' /\ FirstKnown' /\ SequenceAccounting'
  BY FeedAssumption DEF CountersBounded, FirstKnown, SequenceAccounting, NewBook, None
<1>4. IdsFollow' /\ BatchesFiled'
  BY DEF FeedInv, IdsFollow, BatchesFiled, Id, NewBook
<1>5. BatchIntact' /\ SettledAgree'
  BY DEF BatchIntact, SettledAgree
<1> QED
  BY <1>1, <1>2, <1>3, <1>4, <1>5 DEF FeedInv

\* One case per action.
LEMMA StepInv == FeedInv /\ [Next]_vars => FeedInv'
<1> SUFFICES ASSUME FeedInv, [Next]_vars PROVE FeedInv'
  OBVIOUS
<1>1. CASE UNCHANGED vars
  BY <1>1 DEF vars, historyVars, FeedInv, HistoryTypes, CountersBounded, IdsFollow,
              BatchesFiled, FirstKnown, SequenceAccounting, NoStaleLevels,
              BatchIntact, SettledAgree
<1>2. ASSUME NEW tick \in source, ApplyTick(tick), source' = source PROVE FeedInv'
  BY <1>2, TickKeepsBooks, TickKeepsTypes, TickKeepsAccount, TickKeepsIds,
     TickKeepsLevels, TickKeepsAgreement DEF FeedInv
<1>3. ASSUME NEW tick \in source, ApplyStranger(tick), source' = source PROVE FeedInv'
  BY <1>3, StrangerStep
<1>4. ASSUME ChecksumFails, source' = source PROVE FeedInv'
  BY <1>4, ChecksumStep
<1>5. ASSUME Restart, source' = source PROVE FeedInv'
  BY <1>5, RestartStep
<1> QED
  BY <1>1, <1>2, <1>3, <1>4, <1>5 DEF Next

\* The inductive invariant holds throughout.
LEMMA InvHolds == Spec => []FeedInv
<1> QED
  BY InitInv, StepInv, PTL DEF Spec

------------------------------------------------------------------------------
(***************************************************************************)
(* What a reader of the book may rely on.                                  *)
(***************************************************************************)

\* The levels of a well-formed side that for_checksum hands over are those of
\* the side cut short at n.
Cut(side, n) == [side EXCEPT !.count = n]

\* A side cut short is still sorted, and has as many levels as are left.
LEMMA CutIsGood ==
  ASSUME NEW side, NEW descending \in BOOLEAN, Good(side, descending),
         NEW n \in Nat, n <= side.count
  PROVE  /\ Good(Cut(side, n), descending)
         /\ Levels(Cut(side, n)) = {side.levels[i] : i \in 0 .. n - 1}
         /\ Levels(Cut(side, n)) \subseteq Levels(side)
         /\ Cardinality(Levels(Cut(side, n))) = n
<1>1. /\ side.count \in Nat /\ side.count <= MaxLevels /\ MaxLevels \in Nat
      /\ \A i \in 0 .. n - 1 : i \in 0 .. side.count - 1
  BY SideParts, SideAssumption DEF Good
<1>2. /\ Cut(side, n).count = n /\ Cut(side, n).levels = side.levels
      /\ IsSide(Cut(side, n))
  BY <1>1 DEF Cut, Good, IsSide, AnySide
<1>3. IsSorted(Cut(side, n), descending)
  BY <1>1, <1>2 DEF Good, IsSorted
<1>4. Good(Cut(side, n), descending)
  BY <1>2, <1>3 DEF Good
<1>5. Cardinality(Levels(Cut(side, n))) = n
  BY <1>2, <1>4, CountIsCardinality
<1>6. Levels(Cut(side, n)) = {side.levels[i] : i \in 0 .. n - 1}
  BY <1>2 DEF Levels
<1>7. Levels(Cut(side, n)) \subseteq Levels(side)
  BY <1>1, <1>6 DEF Levels
<1> QED
  BY <1>4, <1>5, <1>6, <1>7

\* for_checksum on a well-formed book.
LEMMA ChecksumOfBook ==
  ASSUME IsBook(book)
  PROVE  ChecksumSeesBest
<1> SUFFICES ASSUME NEW s \in Sides, NEW n \in 1 .. MaxLevels
             PROVE  LET seen == ForChecksum(book, s, n)
                        handed == {seen[i] : i \in DOMAIN seen}
                    IN  /\ handed \subseteq Levels(book.sides[s])
                        /\ Cardinality(handed) = n \/ handed = Levels(book.sides[s])
                        /\ \A i \in DOMAIN seen :
                             \A other \in Levels(book.sides[s])
                                            \ {seen[j] : j \in 1 .. i} :
                               Before(seen[i].price, other.price, s = "Bid")
  BY DEF ChecksumSeesBest
<1> DEFINE side == book.sides[s]
           m == IF n < side.count THEN n ELSE side.count
           seen == ForChecksum(book, s, n)
           handed == {seen[i] : i \in DOMAIN seen}
<1>1. Good(side, s = "Bid")
  BY DEF IsBook, AnyBook, Good, IsSide
<1>2. /\ side.count \in Nat /\ m \in Nat /\ m <= side.count /\ n \in Nat
      /\ m = n \/ m = side.count
  BY <1>1, SideParts, SideAssumption DEF Good
<1>3. /\ DOMAIN seen = 1 .. m
      /\ \A i \in 1 .. m : seen[i] = side.levels[i - 1]
  BY DEF ForChecksum
<1> HIDE DEF side, m, seen
<1>4. handed = {side.levels[i] : i \in 0 .. m - 1}
  <2>1. ASSUME NEW i \in 1 .. m PROVE seen[i] \in {side.levels[j] : j \in 0 .. m - 1}
    <3>1. i - 1 \in 0 .. m - 1 /\ seen[i] = side.levels[i - 1]
      BY <1>2, <1>3
    <3> QED
      BY <3>1
  <2>2. ASSUME NEW j \in 0 .. m - 1 PROVE side.levels[j] \in handed
    <3>1. j + 1 \in 1 .. m /\ seen[j + 1] = side.levels[(j + 1) - 1] /\ (j + 1) - 1 = j
      BY <1>2, <1>3
    <3> QED
      BY <1>3, <3>1
  <2> QED
    BY <1>3, <2>1, <2>2
<1>5. /\ handed \subseteq Levels(side)
      /\ Cardinality(handed) = m
  <2>1. /\ Levels(Cut(side, m)) = {side.levels[i] : i \in 0 .. m - 1}
        /\ Levels(Cut(side, m)) \subseteq Levels(side)
        /\ Cardinality(Levels(Cut(side, m))) = m
    <3> DEFINE descending == s = "Bid"
    <3>1. descending \in BOOLEAN /\ Good(side, descending)
      BY <1>1
    <3> HIDE DEF descending
    <3> QED
      BY <1>2, <3>1, CutIsGood
  <2>2. Levels(Cut(side, m)) = handed
    BY <1>4, <2>1
  <2> QED
    BY <2>1, <2>2
<1>6. m = side.count => handed = Levels(side)
  BY <1>4 DEF Levels
<1>7. ASSUME NEW i \in DOMAIN seen,
             NEW other \in Levels(side) \ {seen[j] : j \in 1 .. i}
      PROVE  Before(seen[i].price, other.price, s = "Bid")
  <2>1. PICK k \in 0 .. side.count - 1 : other = side.levels[k]
    BY DEF Levels
  <2>2. i \in 1 .. m /\ seen[i] = side.levels[i - 1] /\ i - 1 \in 0 .. side.count - 1
    BY <1>2, <1>3
  <2>3. ~ (k < i)
    <3> SUFFICES ASSUME k < i PROVE FALSE
      OBVIOUS
    <3>1. k + 1 \in 1 .. i /\ k + 1 \in 1 .. m /\ (k + 1) - 1 = k
      BY <1>2, <2>1, <2>2
    <3>2. seen[k + 1] = other
      BY <1>3, <2>1, <3>1
    <3> QED
      BY <1>7, <3>1, <3>2
  <2>4. i - 1 < k
    BY <1>2, <2>1, <2>2, <2>3
  <2> QED
    BY <1>1, <2>1, <2>2, <2>4 DEF Good, IsSorted
<1> QED
  BY <1>2, <1>5, <1>6, <1>7 DEF seen, side

\* The counters stay below the number of effective ticks, and both sides of the
\* book are well-formed arrays.
THEOREM FeedTypeCorrect == Spec => []TypeOK
<1>1. FeedInv => TypeOK
  <2> SUFFICES ASSUME FeedInv PROVE TypeOK
    OBVIOUS
  <2>1. /\ book.sequence_gaps \in Nat /\ book.sequence_reorders \in Nat
        /\ book.symbol_mismatches \in Nat /\ book.checksum_failures \in Nat
        /\ effective \in Nat /\ MaxEffective \in Nat /\ MaxAnomalies \in Nat
        /\ book.sequence_initialized \in BOOLEAN
        /\ \A s \in Sides : IsSide(book.sides[s])
    BY FeedAssumption DEF FeedInv, IsBook, AnyBook, IsSide, HistoryTypes
  <2> QED
    BY <2>1 DEF FeedInv, CountersBounded, TypeOK
<1> QED
  BY <1>1, InvHolds, PTL

\* maybe_clear_for_snapshot and apply_delta: no level survives the first tick of
\* a snapshot of its side, in a book of any depth and under any feeds.
THEOREM NeverStale == Spec => []NoStaleLevels
<1>1. FeedInv => NoStaleLevels
  BY DEF FeedInv
<1> QED
  BY <1>1, InvHolds, PTL

\* Every level told since the newest snapshot began is in the book, unless it
\* ranks no better than a price that the full side gave up.
THEOREM BatchesLand == Spec => []BatchIntact
<1>1. FeedInv => BatchIntact
  BY DEF FeedInv
<1> QED
  BY <1>1, InvHolds, PTL

\* track_sequence: the two counters bound the distance between the first and the
\* last effective sequence number from both sides.
THEOREM SequencesAccounted == Spec => []SequenceAccounting
<1>1. FeedInv => SequenceAccounting
  BY DEF FeedInv
<1> QED
  BY <1>1, InvHolds, PTL

\* for_checksum: the best levels, all of them different, best first.
THEOREM ChecksumRight == Spec => []ChecksumSeesBest
<1>1. FeedInv => ChecksumSeesBest
  BY ChecksumOfBook DEF FeedInv
<1> QED
  BY <1>1, InvHolds, PTL

\* Two books that differ in their stale data hand over the same levels.
LEMMA AgreementShows ==
  ASSUME IsBook(book), NEW s \in Sides, Agree(book.sides[s], replayed.sides[s])
  PROVE  SameLevels(s)
<1> DEFINE a == book.sides[s]
           b == replayed.sides[s]
<1>1. /\ a.count \in Nat /\ a.count <= MaxLevels /\ MaxLevels \in Nat
      /\ b.count = a.count /\ \A i \in 0 .. a.count - 1 : a.levels[i] = b.levels[i]
  BY SideAssumption DEF IsBook, AnyBook, AnySide, Agree
<1>2. (IF MaxLevels < a.count THEN MaxLevels ELSE a.count) = a.count
  BY <1>1
<1>3. /\ ForChecksum(book, s, MaxLevels) = [i \in 1 .. a.count |-> a.levels[i - 1]]
      /\ ForChecksum(replayed, s, MaxLevels) = [i \in 1 .. a.count |-> b.levels[i - 1]]
  BY <1>1, <1>2 DEF ForChecksum
<1> HIDE DEF a, b
<1>4. \A i \in 1 .. a.count : a.levels[i - 1] = b.levels[i - 1]
  <2> SUFFICES ASSUME NEW i \in 1 .. a.count PROVE a.levels[i - 1] = b.levels[i - 1]
    OBVIOUS
  <2>1. i - 1 \in 0 .. a.count - 1
    BY <1>1
  <2> QED
    BY <1>1, <2>1
<1> QED
  BY <1>3, <1>4 DEF SameLevels

\* A capture replayed into a fresh book: each settled side hands over the levels
\* of the live one, stale data, restarts and all.
THEOREM ReplaysReproduce == Spec => []ReplayReproduces
<1>1. FeedInv => ReplayReproduces
  BY AgreementShows DEF FeedInv, SettledAgree, ReplayReproduces
<1> QED
  BY <1>1, InvHolds, PTL

===============================================================================
