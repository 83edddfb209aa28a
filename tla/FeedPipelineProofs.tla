-------------------------- MODULE FeedPipelineProofs --------------------------
(***************************************************************************)
(* A market of any size, a ring of any capacity and a feed of any length:  *)
(* nothing is lost unaccounted for, a gap in the sequence numbers is a     *)
(* loss, and a side all of whose ticks got through is the side of the      *)
(* market.                                                                 *)
(***************************************************************************)
EXTENDS FeedPipeline, BookProofs

AllLevels == [price : Prices, qty : Qtys]

\* What of a snapshot is still to be sent for a side.
Left(rest, s) == {level \in AllLevels : <<s, level>> \in rest}

Statuses == {"whole", "batch", "lost"}

FeedTicks ==
  [symbol : {Symbol}, side : Sides, price : Prices, qty : Qtys,
   sequence : Nat, ts_recv_ns : {1}, is_snapshot : BOOLEAN, snapshot_id : Nat,
   market : Markets, told : [Sides -> Statuses], lost : Nat,
   rest : SUBSET (Sides \X AllLevels)]

Types ==
  /\ queue \in Seq(FeedTicks) /\ Len(queue) <= RingSize
  /\ refusals \in 0 .. Wrap - 1
  /\ IsBook(book)
  /\ ticks \in Nat /\ n \in 0 .. BatchWrap - 1 /\ pc \in {"idle", "batch"}
  /\ market \in Markets
  /\ outbox \in SUBSET (Sides \X AllLevels)
  /\ snapshot \in Nat /\ nextSeq \in Nat
  /\ told \in [Sides -> Statuses]
  /\ lost \in Nat /\ taken \in Nat /\ skipped \in Nat
  /\ before \in Nat \cup {None} /\ since \in Nat \cup {None}

------------------------------------------------------------------------------
(***************************************************************************)
(* The sequence numbers.                                                   *)
(***************************************************************************)

\* The ticks of the feed before the one with number i in the ring were taken, are
\* ahead of it in the ring, or were dropped before it was published.
Numbered ==
  /\ nextSeq - 1 = taken + Len(queue) + lost
  /\ \A i \in DOMAIN queue :
       /\ queue[i].sequence = taken + i + queue[i].lost
       /\ queue[i].lost <= lost
       /\ \A j \in DOMAIN queue : i < j => queue[i].lost <= queue[j].lost

Counted ==
  /\ (taken - ticks - n) % BatchWrap = 0
  /\ pc = "idle" => n = 0

\* taken - (book.sequence - since) ticks changed nothing after the last one that
\* did: they will be a gap, and are not one yet.
GapsCounted ==
  /\ book.sequence_reorders = 0
  /\ IF book.sequence_initialized
       THEN /\ before \in Nat /\ since \in Nat
            /\ before <= since /\ since <= lost
            /\ \A i \in DOMAIN queue : since <= queue[i].lost
            /\ book.sequence <= taken + since
            /\ book.sequence_gaps + taken - (book.sequence - since)
                 <= skipped + (since - before)
            /\ before < since => book.sequence_gaps > 0
       ELSE /\ before = None /\ since = None
            /\ book.sequence = 0 /\ book.sequence_gaps = 0

------------------------------------------------------------------------------
(***************************************************************************)
(* The adapter, by side: what it knows of its losses agrees with what is   *)
(* still to be sent.                                                       *)
(***************************************************************************)
OutboxOf(s) ==
  /\ Left(outbox, s) \subseteq Items(market, s)
  /\ told[s] = "whole" => Left(outbox, s) = {}
  /\ told[s] = "batch" => Left(outbox, s) # {}

\* A snapshot sends at least one tick, so their ids stay below NoSnapshotId.
SnapshotsBounded ==
  /\ nextSeq <= MaxSeq + 1
  /\ snapshot <= nextSeq /\ snapshot <= MaxSeq
  /\ outbox = {} => snapshot < nextSeq

------------------------------------------------------------------------------
(***************************************************************************)
(* The snapshot ids.  Fresh: a side that keeps this id is cleared by a     *)
(* tick of the snapshot x, whatever snapshot it saw before.                *)
(***************************************************************************)
Fresh(id, x) == id = NoSnapshotId \/ id < x

Of(tick) == Level(tick.price, tick.qty)

\* The first tick that a snapshot sent for its side.
Starts(tick) ==
  /\ tick.is_snapshot
  /\ Left(tick.rest, tick.side) \cup {Of(tick)} = Items(tick.market, tick.side)

Older(tick, s, x) == tick.is_snapshot /\ tick.side = s => tick.snapshot_id < x

SnapshotsInOrder ==
  /\ \A s \in Sides :
       /\ book.snapshot_id[s] = NoSnapshotId \/ book.snapshot_id[s] <= snapshot
       /\ Left(outbox, s) = Items(market, s) =>
            /\ Fresh(book.snapshot_id[s], snapshot)
            /\ \A i \in DOMAIN queue : Older(queue[i], s, snapshot)
  /\ \A i \in DOMAIN queue :
       /\ queue[i].snapshot_id <= snapshot
       /\ Starts(queue[i]) =>
            /\ Fresh(book.snapshot_id[queue[i].side], queue[i].snapshot_id)
            /\ \A j \in 1 .. i - 1 :
                 Older(queue[j], queue[i].side, queue[i].snapshot_id)

------------------------------------------------------------------------------
(***************************************************************************)
(* The history that a tick carries.                                        *)
(***************************************************************************)
Sound(tick) ==
  /\ tick.is_snapshot =>
       LET left == Left(tick.rest, tick.side)
       IN  /\ left \subseteq Items(tick.market, tick.side)
           /\ Of(tick) \in Items(tick.market, tick.side) \ left
  /\ \A s \in Sides : /\ tick.told[s] = "whole" => Left(tick.rest, s) = {}
                      /\ tick.told[s] = "batch" => Left(tick.rest, s) # {}

\* Nothing was said of side s between t and u; or all of a snapshot is to come.
Carries(known, t, u, s) ==
  \/ u.told[s] = "lost"
  \/ u.told[s] = "batch" /\ Left(u.rest, s) = Items(u.market, s)
  \/ /\ known
     /\ t.told[s] = u.told[s] /\ t.market[s] = u.market[s]
     /\ u.told[s] = "batch" =>
          t.snapshot_id = u.snapshot_id /\ Left(t.rest, s) = Left(u.rest, s)

\* The tick u is the next to be said of its side after t.
Extends(known, t, u) ==
  LET s == u.side
  IN  \/ u.told[s] = "lost"
      \/ Starts(u)
      \/ /\ known /\ u.is_snapshot
         /\ t.told[s] = "batch" /\ t.market[s] = u.market[s]
         /\ t.snapshot_id = u.snapshot_id
         /\ Left(t.rest, s) = Left(u.rest, s) \cup {Of(u)}
      \/ /\ known /\ ~ u.is_snapshot
         /\ t.told[s] = "whole" /\ u.told[s] = "whole"
         /\ u.market[s] = [t.market[s] EXCEPT ![u.price] = u.qty]

Follows(known, t, u) ==
  \A s \in Sides : IF u.side = s THEN Extends(known, t, u) ELSE Carries(known, t, u, s)

\* The tick published before the one with number i in the ring, if any was.
Previous(i) == IF i = 1 THEN out ELSE queue[i - 1]
Last == IF Len(queue) = 0 THEN out ELSE queue[Len(queue)]
Now == [told |-> told, market |-> market, rest |-> outbox, snapshot_id |-> snapshot]

HistoryHolds ==
  /\ \A i \in DOMAIN queue :
       Sound(queue[i]) /\ Follows(taken + i > 1, Previous(i), queue[i])
  /\ \A s \in Sides :
       Carries(taken + Len(queue) > 0, Last, Now, s)

------------------------------------------------------------------------------
(***************************************************************************)
(* The book: a side whose ticks got through shows the market, or as much   *)
(* of a snapshot as the engine has taken.                                  *)
(***************************************************************************)
Shows(b, tick, s) ==
  /\ tick.told[s] = "whole" => Levels(b.sides[s]) = Shown(tick.market, s)
  /\ tick.told[s] = "batch" =>
       \/ Left(tick.rest, s) = Items(tick.market, s)
       \/ /\ b.snapshot_id[s] = tick.snapshot_id
          /\ Levels(b.sides[s]) = Items(tick.market, s) \ Left(tick.rest, s)

BookShows ==
  IF taken = 0 THEN out = NoTick
               ELSE /\ out \in FeedTicks
                    /\ Sound(out)
                    /\ \A s \in Sides : Shows(book, out, s)

PipelineInv ==
  /\ Types
  /\ Numbered
  /\ Counted
  /\ GapsCounted
  /\ \A s \in Sides : OutboxOf(s)
  /\ SnapshotsBounded
  /\ SnapshotsInOrder
  /\ HistoryHolds
  /\ BookShows

------------------------------------------------------------------------------
(***************************************************************************)
(* Wrapping counters.                                                      *)
(***************************************************************************)

\* A remainder, and what it is the remainder of.
LEMMA DivisionWithRemainder ==
  ASSUME NEW a \in Int, NEW m \in Nat, m > 0
  PROVE  /\ a % m \in 0 .. m - 1
         /\ a \div m \in Int
         /\ a = m * (a \div m) + (a % m)
OBVIOUS

\* The remainder is the only number below m that differs from a by a multiple
\* of m.
LEMMA RemainderUnique ==
  ASSUME NEW m \in Nat, m > 0,
         NEW a \in Int, NEW q \in Int, NEW r \in 0 .. m - 1,
         a = m * q + r
  PROVE  a % m = r
<1> DEFINE d == (a \div m) - q
<1>1. d \in Int /\ m * d = r - (a % m)
  BY DivisionWithRemainder
<1> HIDE DEF d
<1>2. ~ (d > 0) /\ ~ (d < 0)
  <2>1. d > 0 => m * d >= m
    BY <1>1
  <2>2. d < 0 => m * d <= - m
    BY <1>1
  <2> QED
    BY <1>1, <2>1, <2>2, DivisionWithRemainder
<1> QED
  BY <1>1, <1>2, DivisionWithRemainder

------------------------------------------------------------------------------
(***************************************************************************)
(* Markets.                                                                *)
(***************************************************************************)

\* One side of a market: finitely many levels, no more than a side holds, and one
\* at each price quoted.
LEMMA ShownLevels ==
  ASSUME NEW m \in Markets, NEW s \in Sides
  PROVE  /\ m \in [Sides -> [Prices -> Qtys]] /\ m[s] \in [Prices -> Qtys]
         /\ Shown(m, s) \subseteq AllLevels
         /\ \A level \in Shown(m, s) : level.qty > 0
         /\ \A level \in AllLevels :
              level \in Shown(m, s) <=> level.qty > 0 /\ m[s][level.price] = level.qty
         /\ IsFiniteSet(Shown(m, s)) /\ Cardinality(Shown(m, s)) <= MaxLevels
<1>1. m \in [Sides -> [Prices -> Qtys]] /\ m[s] \in [Prices -> Qtys]
  BY DEF Markets
<1>2. \A p \in Prices : Level(p, m[s][p]) \in AllLevels
  BY <1>1 DEF Level, AllLevels
<1>3. /\ Shown(m, s) \subseteq AllLevels
      /\ \A level \in Shown(m, s) : level.qty > 0
  BY <1>1, <1>2 DEF Shown, Quoted, Level
<1>4. ASSUME NEW level \in AllLevels
      PROVE  level \in Shown(m, s) <=> level.qty > 0 /\ m[s][level.price] = level.qty
  <2>1. level.price \in Prices /\ level = Level(level.price, level.qty)
    BY DEF AllLevels, Level
  <2>2. \A p, q : Level(p, q).price = p /\ Level(p, q).qty = q
    BY DEF Level
  <2> QED
    BY <2>1, <2>2 DEF Shown, Quoted
<1>5. IsFiniteSet(Quoted(m, s)) /\ Cardinality(Quoted(m, s)) <= MaxLevels
  <2>1. Quoted(m, s) \subseteq Prices
    BY DEF Quoted
  <2> QED
    BY <2>1, PipelineAssumption, FS_Subset DEF Markets
<1>6. IsFiniteSet(Shown(m, s)) /\ Cardinality(Shown(m, s)) = Cardinality(Quoted(m, s))
  <2> DEFINE f == [p \in Quoted(m, s) |-> Level(p, m[s][p])]
  <2>1. f \in Bijection(Quoted(m, s), Shown(m, s))
    <3>1. \A p, q : Level(p, q).price = p
      BY DEF Level
    <3>2. f \in Injection(Quoted(m, s), Shown(m, s))
      BY <3>1 DEF Injection, IsInjective, Shown
    <3>3. f \in Surjection(Quoted(m, s), Shown(m, s))
      BY DEF Surjection, Shown
    <3> QED
      BY <3>2, <3>3 DEF Bijection
  <2> HIDE DEF f
  <2> QED
    BY <1>5, <2>1, FS_Bijection DEF ExistsBijection
<1> QED
  BY <1>1, <1>3, <1>4, <1>5, <1>6

\* A snapshot sends something for each side: all that is quoted, if anything is.
LEMMA ItemsOfMarket ==
  ASSUME NEW m \in Markets, NEW s \in Sides
  PROVE  /\ Items(m, s) \subseteq AllLevels /\ Items(m, s) # {}
         /\ \/ Items(m, s) = Shown(m, s)
            \/ /\ Shown(m, s) = {}
               /\ \E item \in AllLevels : Items(m, s) = {item} /\ item.qty = 0
<1>1. Shown(m, s) \subseteq AllLevels
  BY ShownLevels
<1>2. CASE Quoted(m, s) = {}
  <2> DEFINE p == CHOOSE q \in Prices : TRUE
  <2>1. p \in Prices
    BY PipelineAssumption
  <2>2. Items(m, s) = {Level(p, 0)} /\ Shown(m, s) = {}
    BY <1>2 DEF Items, Shown
  <2>3. Level(p, 0) \in AllLevels /\ Level(p, 0).qty = 0
    BY <2>1, SideAssumption DEF Level, AllLevels
  <2> QED
    BY <2>2, <2>3
<1>3. CASE Quoted(m, s) # {}
  <2>1. Items(m, s) = Shown(m, s) /\ Shown(m, s) # {}
    BY <1>3 DEF Items, Shown
  <2> QED
    BY <1>1, <2>1
<1> QED
  BY <1>2, <1>3

\* A level for which there is room is set, whatever was at its price.
LEMMA SetWithRoom ==
  ASSUME NEW side, NEW descending \in BOOLEAN, Good(side, descending),
         NEW price \in Prices, NEW qty \in Qtys \ {0},
         NEW room, IsFiniteSet(room), Cardinality(room) <= MaxLevels,
         Others(Levels(side), price) \cup {Level(price, qty)} \subseteq room
  PROVE  Levels(ApplyDelta(side, price, qty, descending).side)
           = Others(Levels(side), price) \cup {Level(price, qty)}
<1> DEFINE done == ApplyDelta(side, price, qty, descending)
           level == Level(price, qty)
           others == Others(Levels(side), price)
<1>1. Sets(side, level, descending, done)
  BY SetEffect
<1>2. level.price = price
  BY DEF Level
<1>3. side.count \in Nat /\ IsFiniteSet(Levels(side)) /\ Cardinality(Levels(side)) = side.count
  BY CountIsCardinality, SideParts DEF Good
<1>4. level \notin others
  BY <1>2 DEF Others
<1>5. ASSUME others = Levels(side), side.count = MaxLevels PROVE FALSE
  <2>1. others \cup {level} \subseteq room
    OBVIOUS
  <2>2. IsFiniteSet(others) /\ Cardinality(others) = MaxLevels
    BY <1>3, <1>5
  <2> HIDE DEF others, level
  <2>3. Cardinality(others \cup {level}) = MaxLevels + 1
    BY <1>4, <2>2, FS_AddElement
  <2>4. Cardinality(others \cup {level}) <= Cardinality(room) /\ Cardinality(room) \in Nat
    BY <2>1, FS_Subset, FS_CardinalityType
  <2> QED
    BY <2>3, <2>4, SideAssumption
<1> HIDE DEF done, level
<1>6. \/ Levels(done.side) = others \cup {level}
      \/ others = Levels(side) /\ Levels(done.side) = Levels(side) \cup {level}
  BY <1>1, <1>2, <1>5 DEF Sets
<1> QED
  BY <1>6 DEF done, level

------------------------------------------------------------------------------
(***************************************************************************)
(* The engine takes the next tick.                                         *)
(***************************************************************************)

\* What a tick of the feed is.
LEMMA TickParts ==
  ASSUME NEW u \in FeedTicks
  PROVE  /\ IsTick(u) /\ u.symbol = Symbol
         /\ u.side \in Sides /\ u.price \in Prices /\ u.qty \in Qtys
         /\ u.sequence \in Nat /\ u.snapshot_id \in Nat /\ u.lost \in Nat
         /\ u.is_snapshot \in BOOLEAN
         /\ u.market \in Markets /\ u.told \in [Sides -> Statuses]
         /\ Of(u) \in AllLevels /\ Of(u).price = u.price /\ Of(u).qty = u.qty
         /\ \A s : Left(u.rest, s) \subseteq AllLevels
  BY DEF FeedTicks, IsTick, Of, Level, AllLevels, Left

\* What is shown of a side, and sent for it, is a matter of that side.
LEMMA SideOfMarket ==
  ASSUME NEW a, NEW b, NEW s, a[s] = b[s]
  PROVE  Shown(a, s) = Shown(b, s) /\ Items(a, s) = Items(b, s)
  BY DEF Shown, Items, Quoted

\* What apply does to the side of a tick.
LEMMA OwnSide ==
  ASSUME NEW b, IsBook(b), NEW u \in FeedTicks
  PROVE  LET new == Apply(b, u).book
         IN  /\ new.sides[u.side] = Landed(b, u).side
             /\ new.snapshot_id[u.side] =
                  IF u.is_snapshot THEN u.snapshot_id ELSE b.snapshot_id[u.side]
             /\ Good(Met(b, u), u.side = "Bid")
             /\ Levels(Met(b, u)) =
                  IF u.is_snapshot /\ u.snapshot_id # b.snapshot_id[u.side]
                    THEN {} ELSE Levels(b.sides[u.side])
<1> DEFINE new == Apply(b, u).book
<1>1. IsTick(u) /\ u.symbol = Symbol /\ u.side \in Sides
  BY TickParts
<1>2. SidesChanged(b, u, new)
  BY <1>1, ApplyEffect
<1> HIDE DEF new
<1>3. /\ new.sides[u.side] = Landed(b, u).side
      /\ new.snapshot_id[u.side] =
           IF u.is_snapshot THEN u.snapshot_id ELSE b.snapshot_id[u.side]
  BY <1>1, <1>2 DEF SidesChanged, IsBook, AnyBook
<1>4. Good(Met(b, u), u.side = "Bid")
  BY <1>1, MetIsGood
<1>5. Levels(Clear(b.sides[u.side])) = {}
  BY <1>1, EmptyIsGood DEF IsBook, AnyBook, IsSide
<1> QED
  BY <1>3, <1>4, <1>5 DEF new, Met

\* ... and what it does to the other side: nothing.
LEMMA OtherSide ==
  ASSUME NEW b, IsBook(b), NEW u \in FeedTicks, NEW s \in Sides, s # u.side
  PROVE  LET new == Apply(b, u).book
         IN  /\ new.sides[s] = b.sides[s]
             /\ new.snapshot_id[s] = b.snapshot_id[s]
<1> DEFINE new == Apply(b, u).book
<1>1. IsTick(u) /\ u.symbol = Symbol /\ u.side \in Sides
  BY TickParts
<1>2. SidesChanged(b, u, new)
  BY <1>1, ApplyEffect
<1> HIDE DEF new
<1>3. new.sides[s] = b.sides[s] /\ new.snapshot_id[s] = b.snapshot_id[s]
  BY <1>1, <1>2 DEF SidesChanged, IsBook, AnyBook
<1> QED
  BY <1>3 DEF new

\* A level that the market shows has room on a side that holds less.
LEMMA LandsShown ==
  ASSUME NEW b, IsBook(b), NEW u \in FeedTicks, NEW m \in Markets,
         Of(u) \in Shown(m, u.side),
         Others(Levels(Met(b, u)), u.price) \subseteq Shown(m, u.side)
  PROVE  Levels(Apply(b, u).book.sides[u.side])
           = Others(Levels(Met(b, u)), u.price) \cup {Of(u)}
<1> DEFINE met == Met(b, u)
           room == Shown(m, u.side)
           descending == u.side = "Bid"
           done == ApplyDelta(met, u.price, u.qty, descending)
<1>1. /\ u.side \in Sides /\ u.price \in Prices /\ u.qty \in Qtys
      /\ Of(u) = Level(u.price, u.qty) /\ Of(u).qty = u.qty
  BY TickParts DEF Of
<1>2. IsFiniteSet(room) /\ Cardinality(room) <= MaxLevels /\ u.qty > 0
  BY <1>1, ShownLevels
<1>3. u.qty \in Qtys \ {0} /\ descending \in BOOLEAN
  BY <1>1, <1>2, SideAssumption
<1>4. Good(met, descending)
  BY OwnSide
<1>5. Apply(b, u).book.sides[u.side] = done.side
  BY OwnSide DEF Landed
<1> HIDE DEF met, room, done, descending
<1>6. Others(Levels(met), u.price) \cup {Level(u.price, u.qty)} \subseteq room
  BY <1>1 DEF met, room
<1>7. Levels(ApplyDelta(met, u.price, u.qty, descending).side)
        = Others(Levels(met), u.price) \cup {Level(u.price, u.qty)}
  BY <1>1, <1>2, <1>3, <1>4, <1>6, SetWithRoom
<1> QED
  BY <1>1, <1>5, <1>7 DEF met, done

\* A quantity of zero leaves the other prices.
LEMMA LandsCancel ==
  ASSUME NEW b, IsBook(b), NEW u \in FeedTicks, u.qty = 0
  PROVE  Levels(Apply(b, u).book.sides[u.side])
           = Others(Levels(Met(b, u)), u.price)
<1> DEFINE met == Met(b, u)
<1>1. u.price \in Prices /\ (u.side = "Bid") \in BOOLEAN
  BY TickParts
<1>2. Good(met, u.side = "Bid")
  BY OwnSide
<1>3. Apply(b, u).book.sides[u.side]
        = ApplyDelta(met, u.price, 0, u.side = "Bid").side
  BY OwnSide DEF Landed
<1> HIDE DEF met
<1>4. Levels(ApplyDelta(met, u.price, 0, u.side = "Bid").side)
        = Others(Levels(met), u.price)
  BY <1>1, <1>2, CancelEffect
<1> QED
  BY <1>3, <1>4 DEF met

\* The first tick of a snapshot meets a cleared side, and is all there is then.
LEMMA TakeFirst ==
  ASSUME NEW b, IsBook(b), NEW u \in FeedTicks, Sound(u), Starts(u),
         Fresh(b.snapshot_id[u.side], u.snapshot_id), u.snapshot_id <= MaxSeq
  PROVE  Shows(Apply(b, u).book, u, u.side)
<1> DEFINE new == Apply(b, u).book
           items == Items(u.market, u.side)
           left == Left(u.rest, u.side)
           shown == Shown(u.market, u.side)
<1>1. /\ u.side \in Sides /\ u.is_snapshot /\ u.snapshot_id \in Nat /\ u.market \in Markets
      /\ b.snapshot_id[u.side] \in Nat
  BY TickParts, PipelineAssumption DEF Starts, IsBook, AnyBook
<1>2. u.snapshot_id # b.snapshot_id[u.side]
  BY <1>1, PipelineAssumption DEF Fresh
<1>3. Levels(Met(b, u)) = {} /\ new.snapshot_id[u.side] = u.snapshot_id
  BY <1>1, <1>2, OwnSide
<1>4. /\ Of(u) \in items \ left /\ left \cup {Of(u)} = items
      /\ u.told[u.side] = "whole" => left = {}
      /\ u.told[u.side] = "batch" => left # {}
  BY <1>1 DEF Sound, Starts
<1>5. \/ items = shown
      \/ shown = {} /\ \E item \in AllLevels : items = {item} /\ item.qty = 0
  BY <1>1, ItemsOfMarket
<1>6. Others({}, u.price) = {}
  BY DEF Others
<1>7. CASE items = shown
  <2>0. Of(u) \in shown /\ Others(Levels(Met(b, u)), u.price) \subseteq shown
    BY <1>3, <1>4, <1>6, <1>7
  <2>1. Levels(new.sides[u.side]) = {Of(u)}
    <3>1. Levels(new.sides[u.side]) = Others(Levels(Met(b, u)), u.price) \cup {Of(u)}
      BY <1>1, <2>0, LandsShown
    <3> QED
      BY <1>3, <1>6, <3>1
  <2> HIDE DEF new, items, left, shown
  <2>2. Levels(new.sides[u.side]) = items \ left
    BY <1>4, <2>1
  <2> QED
    BY <1>3, <1>4, <1>7, <2>2 DEF Shows, new, items, left, shown
<1>8. CASE shown = {} /\ \E item \in AllLevels : items = {item} /\ item.qty = 0
  <2>1. u.qty = 0
    BY <1>4, <1>8, TickParts
  <2>2. Levels(new.sides[u.side]) = shown
    BY <1>3, <1>6, <1>8, <2>1, LandsCancel
  <2>3. u.told[u.side] # "batch"
    BY <1>4, <1>8
  <2> QED
    BY <2>2, <2>3 DEF Shows
<1> QED
  BY <1>5, <1>7, <1>8

\* A later tick of the snapshot adds its level to those of the ticks before it.
LEMMA TakeNext ==
  ASSUME NEW b, IsBook(b), NEW t \in FeedTicks, NEW u \in FeedTicks, Sound(u),
         u.is_snapshot, t.told[u.side] = "batch",
         t.snapshot_id = u.snapshot_id, t.market[u.side] = u.market[u.side],
         Left(t.rest, u.side) = Left(u.rest, u.side) \cup {Of(u)},
         Shows(b, t, u.side), ~ Starts(u)
  PROVE  Shows(Apply(b, u).book, u, u.side)
<1> DEFINE new == Apply(b, u).book
           items == Items(u.market, u.side)
           left == Left(u.rest, u.side)
           shown == Shown(u.market, u.side)
<1>1. u.side \in Sides /\ u.market \in Markets /\ t.market \in Markets
  BY TickParts
<1>2. Items(t.market, u.side) = items
  BY SideOfMarket
<1>3. /\ left \cup {Of(u)} # items /\ left \subseteq items /\ Of(u) \in items \ left
      /\ u.told[u.side] = "whole" => left = {}
  BY <1>1 DEF Starts, Sound
<1>4. /\ b.snapshot_id[u.side] = u.snapshot_id
      /\ Levels(b.sides[u.side]) = items \ (left \cup {Of(u)})
  BY <1>2, <1>3 DEF Shows
<1>5. items = shown
  <2>1. \/ items = shown
        \/ \E item \in AllLevels : items = {item}
    BY <1>1, ItemsOfMarket
  <2> HIDE DEF items, left
  <2> QED
    BY <1>3, <2>1
<1>6. Levels(Met(b, u)) = items \ (left \cup {Of(u)})
  BY <1>4, OwnSide
<1>7. Others(Levels(Met(b, u)), u.price) = Levels(Met(b, u))
  <2>1. ASSUME NEW level \in shown, level.price = u.price PROVE level = Of(u)
    <3>1. /\ level \in AllLevels /\ Of(u) \in AllLevels /\ Of(u).price = u.price
          /\ level.qty = u.market[u.side][u.price]
          /\ Of(u).qty = u.market[u.side][u.price]
      BY <1>1, <1>3, <1>5, <2>1, ShownLevels, TickParts
    <3>2. level = [price |-> level.price, qty |-> level.qty]
      BY <3>1 DEF AllLevels
    <3>3. Of(u) = [price |-> Of(u).price, qty |-> Of(u).qty]
      BY <3>1 DEF AllLevels
    <3> QED
      BY <2>1, <3>1, <3>2, <3>3
  <2> HIDE DEF shown, items, left
  <2> QED
    BY <1>5, <1>6, <2>1 DEF Others
<1>8. Levels(new.sides[u.side]) = Levels(Met(b, u)) \cup {Of(u)}
  <2>1. Of(u) \in shown /\ Levels(Met(b, u)) \subseteq shown
    BY <1>3, <1>5, <1>6
  <2>2. Levels(new.sides[u.side]) = Others(Levels(Met(b, u)), u.price) \cup {Of(u)}
    BY <1>1, <1>7, <2>1, LandsShown
  <2> QED
    BY <1>7, <2>2
<1>9. new.snapshot_id[u.side] = u.snapshot_id
  BY OwnSide
<1> HIDE DEF new, items, left, shown
<1>10. Levels(new.sides[u.side]) = items \ left
  BY <1>3, <1>6, <1>8
<1> QED
  BY <1>3, <1>5, <1>9, <1>10 DEF Shows, new, items, left, shown

\* A move of the market moves the side that showed it.
LEMMA TakeMove ==
  ASSUME NEW b, IsBook(b), NEW t \in FeedTicks, NEW u \in FeedTicks,
         ~ u.is_snapshot, t.told[u.side] = "whole", u.told[u.side] = "whole",
         u.market[u.side] = [t.market[u.side] EXCEPT ![u.price] = u.qty],
         Shows(b, t, u.side)
  PROVE  Shows(Apply(b, u).book, u, u.side)
<1> DEFINE new == Apply(b, u).book
           old == Shown(t.market, u.side)
           shown == Shown(u.market, u.side)
<1>1. /\ u.side \in Sides /\ u.market \in Markets /\ t.market \in Markets
      /\ u.price \in Prices /\ u.qty \in Qtys /\ u.qty \in Nat
      /\ Of(u) \in AllLevels /\ Of(u).price = u.price /\ Of(u).qty = u.qty
  BY TickParts, SideAssumption
<1>2. Levels(Met(b, u)) = old
  BY OwnSide DEF Shows
<1>3. t.market[u.side] \in [Prices -> Qtys] /\ u.market[u.side] \in [Prices -> Qtys]
  BY <1>1, ShownLevels
<1>4. /\ old \subseteq AllLevels /\ shown \subseteq AllLevels
      /\ \A level \in AllLevels :
           /\ level \in old <=> level.qty > 0 /\ t.market[u.side][level.price] = level.qty
           /\ level \in shown <=> level.qty > 0 /\ u.market[u.side][level.price] = level.qty
  <2> DEFINE s == u.side
             a == t.market
             c == u.market
  <2>1. s \in Sides /\ a \in Markets /\ c \in Markets
    BY <1>1
  <2> HIDE DEF s, a, c
  <2>2. /\ Shown(a, s) \subseteq AllLevels
        /\ \A level \in AllLevels :
             level \in Shown(a, s) <=> level.qty > 0 /\ a[s][level.price] = level.qty
    BY <2>1, ShownLevels
  <2>3. /\ Shown(c, s) \subseteq AllLevels
        /\ \A level \in AllLevels :
             level \in Shown(c, s) <=> level.qty > 0 /\ c[s][level.price] = level.qty
    BY <2>1, ShownLevels
  <2> QED
    BY <2>2, <2>3 DEF s, a, c
<1>5. \A level \in AllLevels : level.price \in Prices /\ level.qty \in Nat
  BY SideAssumption DEF AllLevels
<1>6. \A level \in AllLevels :
        u.market[u.side][level.price] = IF level.price = u.price THEN u.qty
                                        ELSE t.market[u.side][level.price]
  BY <1>1, <1>3, <1>5
<1>7. Others(old, u.price) = {level \in shown : level.price # u.price}
  <2> HIDE DEF old, shown
  <2> QED
    BY <1>4, <1>6 DEF Others
<1>8. CASE u.qty = 0
  <2>1. \A level \in shown : level.price # u.price
    <3> HIDE DEF old, shown
    <3> QED
      BY <1>4, <1>5, <1>6, <1>8
  <2>2. Levels(new.sides[u.side]) = Others(old, u.price)
    BY <1>2, <1>8, LandsCancel
  <2> HIDE DEF new, old
  <2>3. Levels(new.sides[u.side]) = shown
    BY <1>7, <2>1, <2>2
  <2> QED
    BY <2>3 DEF Shows, new
<1>9. CASE u.qty # 0
  <2>1. Of(u) \in shown
    <3> HIDE DEF old, shown
    <3> QED
      BY <1>1, <1>4, <1>6, <1>9
  <2>2. \A level \in shown : level.price = u.price => level = Of(u)
    <3>1. \A level \in shown : level.price = u.price =>
             level.qty = Of(u).qty /\ level.price = Of(u).price /\ level \in AllLevels
      <4> HIDE DEF old, shown
      <4> QED
        BY <1>1, <1>4, <1>6
    <3> HIDE DEF shown
    <3> QED
      BY <1>1, <3>1 DEF AllLevels
  <2>3. Levels(new.sides[u.side]) = Others(old, u.price) \cup {Of(u)}
    <3>1. Others(Levels(Met(b, u)), u.price) \subseteq shown
      BY <1>2, <1>7
    <3>2. Levels(new.sides[u.side]) = Others(Levels(Met(b, u)), u.price) \cup {Of(u)}
      BY <1>1, <2>1, <3>1, LandsShown
    <3> QED
      BY <1>2, <3>2
  <2> HIDE DEF new, old, shown
  <2>4. Levels(new.sides[u.side]) = shown
    BY <1>7, <2>1, <2>2, <2>3
  <2> QED
    BY <2>4 DEF Shows, new, shown
<1> QED
  BY <1>8, <1>9

\* So a book that showed the feed up to t shows it up to the next tick.
LEMMA TakeShows ==
  ASSUME NEW b, IsBook(b), NEW u \in FeedTicks, Sound(u), u.snapshot_id <= MaxSeq,
         Starts(u) => Fresh(b.snapshot_id[u.side], u.snapshot_id),
         NEW known \in BOOLEAN, NEW t, Follows(known, t, u),
         known => t \in FeedTicks /\ \A s \in Sides : Shows(b, t, s)
  PROVE  \A s \in Sides : Shows(Apply(b, u).book, u, s)
<1>1. u.side \in Sides
  BY TickParts
<1>2. ASSUME NEW s \in Sides, s # u.side PROVE Shows(Apply(b, u).book, u, s)
  <2> DEFINE new == Apply(b, u).book
  <2>1. Levels(new.sides[s]) = Levels(b.sides[s]) /\ new.snapshot_id[s] = b.snapshot_id[s]
    BY <1>2, OtherSide
  <2>2. Carries(known, t, u, s)
    BY <1>2 DEF Follows
  <2> HIDE DEF new
  <2>3. t.market[s] = u.market[s] =>
          /\ Shown(t.market, s) = Shown(u.market, s)
          /\ Items(t.market, s) = Items(u.market, s)
    BY SideOfMarket
  <2>4. Shows(new, u, s)
    BY <2>1, <2>2, <2>3 DEF Carries, Shows
  <2> QED
    BY <2>4 DEF new
<1>3. Shows(Apply(b, u).book, u, u.side)
  <2>1. Extends(known, t, u)
    BY <1>1 DEF Follows
  <2>2. CASE u.told[u.side] = "lost"
    BY <2>2 DEF Shows
  <2>3. CASE Starts(u)
    BY <2>3, TakeFirst
  <2>4. CASE /\ ~ Starts(u) /\ known /\ u.is_snapshot
             /\ t.told[u.side] = "batch" /\ t.market[u.side] = u.market[u.side]
             /\ t.snapshot_id = u.snapshot_id
             /\ Left(t.rest, u.side) = Left(u.rest, u.side) \cup {Of(u)}
    <3>1. t \in FeedTicks /\ Shows(b, t, u.side)
      BY <1>1, <2>4
    <3> QED
      BY <2>4, <3>1, TakeNext
  <2>5. CASE /\ known /\ ~ u.is_snapshot
             /\ t.told[u.side] = "whole" /\ u.told[u.side] = "whole"
             /\ u.market[u.side] = [t.market[u.side] EXCEPT ![u.price] = u.qty]
    <3>1. t \in FeedTicks /\ Shows(b, t, u.side)
      BY <1>1, <2>5
    <3> QED
      BY <2>5, <3>1, TakeMove
  <2> QED
    BY <2>1, <2>2, <2>3, <2>4, <2>5 DEF Extends
<1> QED
  BY <1>2, <1>3

\* Taking moves the oldest tick of the ring out of it and applies it to the book.
LEMMA TakeFacts ==
  ASSUME Types, Consume
  PROVE  LET u == queue[1]
         IN  /\ Len(queue) \in Nat /\ Len(queue) > 0
             /\ u \in FeedTicks /\ out' = u
             /\ queue' \in Seq(FeedTicks) /\ Len(queue') = Len(queue) - 1
             /\ DOMAIN queue = 1 .. Len(queue) /\ DOMAIN queue' = 1 .. Len(queue) - 1
             /\ \A i \in DOMAIN queue' : queue'[i] = queue[i + 1] /\ i + 1 \in DOMAIN queue
             /\ \A i \in DOMAIN queue : queue[i] \in FeedTicks
             /\ refusals' = refusals
             /\ taken' = taken + 1
             /\ book' = Apply(book, u).book
             /\ UNCHANGED adapterVars
<1>1. queue \in Seq(FeedTicks) /\ queue # << >>
  BY DEF Types, Consume, Ring!Take
<1>2. out' = Head(queue) /\ queue' = Tail(queue) /\ refusals' = refusals
  BY DEF Consume, Ring!Take
<1>3. Head(queue) = queue[1] /\ Len(queue) > 0 /\ 1 \in 1 .. Len(queue)
  BY <1>1
<1>4. \A i \in 1 .. Len(queue) : queue[i] \in FeedTicks
  BY <1>1
<1>5. /\ queue' \in Seq(FeedTicks) /\ Len(queue') = Len(queue) - 1
      /\ \A i \in 1 .. Len(queue) - 1 : queue'[i] = queue[i + 1]
  BY <1>1, <1>2
<1>6. /\ taken' = taken + 1 /\ UNCHANGED adapterVars
      /\ book' = Apply(book, out').book
  BY DEF Consume
<1> QED
  BY <1>1, <1>2, <1>3, <1>4, <1>5, <1>6

\* The ticks in the ring keep their numbers.
LEMMA TakeNumbered ==
  ASSUME Types, Numbered, Consume
  PROVE  Numbered'
<1>1. /\ Len(queue) \in Nat /\ Len(queue) > 0 /\ taken \in Nat /\ lost \in Nat /\ nextSeq \in Nat
      /\ Len(queue') = Len(queue) - 1
      /\ DOMAIN queue = 1 .. Len(queue) /\ DOMAIN queue' = 1 .. Len(queue) - 1
      /\ \A i \in DOMAIN queue' : queue'[i] = queue[i + 1] /\ i + 1 \in DOMAIN queue
      /\ taken' = taken + 1 /\ lost' = lost /\ nextSeq' = nextSeq
      /\ \A i \in DOMAIN queue : queue[i] \in FeedTicks
  BY TakeFacts DEF Types, adapterVars
<1>2. \A i \in DOMAIN queue : queue[i].lost \in Nat /\ queue[i].sequence \in Nat
  BY <1>1, TickParts
<1>3. nextSeq' - 1 = taken' + Len(queue') + lost'
  BY <1>1 DEF Numbered
<1>4. ASSUME NEW i \in DOMAIN queue'
      PROVE  /\ queue'[i].sequence = taken' + i + queue'[i].lost
             /\ queue'[i].lost <= lost'
             /\ \A j \in DOMAIN queue' : i < j => queue'[i].lost <= queue'[j].lost
  <2>1. i \in Nat /\ i + 1 \in DOMAIN queue /\ queue'[i] = queue[i + 1]
    BY <1>1
  <2>2. /\ queue[i + 1].sequence = taken + (i + 1) + queue[i + 1].lost
        /\ queue[i + 1].lost <= lost
    BY <2>1 DEF Numbered
  <2>3. ASSUME NEW j \in DOMAIN queue', i < j PROVE queue'[i].lost <= queue'[j].lost
    BY <1>1, <2>1, <2>3 DEF Numbered
  <2> QED
    BY <1>1, <1>2, <2>1, <2>2, <2>3
<1> QED
  BY <1>3, <1>4 DEF Numbered

\* The sum behind the count of gaps.
LEMMA GapArithmetic ==
  ASSUME NEW gaps \in Nat, NEW seq \in Nat, NEW from \in Nat, NEW upto \in Nat,
         NEW took \in Nat, NEW idle \in Nat, NEW now \in Nat,
         from <= upto, upto <= now, seq <= took + upto,
         gaps + took - (seq - upto) <= idle + (upto - from),
         from < upto => gaps > 0,
         NEW next, next = took + 1 + now,
         NEW counted, counted = IF next > seq + 1 THEN gaps + 1 ELSE gaps
  PROVE  /\ counted + (took + 1) - (next - now) <= idle + (now - from)
         /\ from < now => counted > 0
         /\ next <= took + 1 + now /\ from <= now
  OBVIOUS

\* The next tick is later than the book, and what a tick that changes a level
\* adds to the count of gaps was lost or had changed nothing.
LEMMA TakeGaps ==
  ASSUME Types, Numbered, GapsCounted, Consume
  PROVE  /\ GapsCounted'
         /\ skipped' \in Nat /\ before' \in Nat \cup {None} /\ since' \in Nat \cup {None}
<1> DEFINE u == queue[1]
           hit == Effective(Landed(book, u).result)
<1>1. /\ u \in FeedTicks /\ out' = u /\ taken' = taken + 1 /\ lost' = lost
      /\ book' = Apply(book, u).book
      /\ DOMAIN queue = 1 .. Len(queue) /\ Len(queue) \in Nat /\ Len(queue) > 0
      /\ \A i \in DOMAIN queue' : /\ queue'[i] = queue[i + 1] /\ i + 1 \in DOMAIN queue
                                  /\ 1 < i + 1
      /\ \A i \in DOMAIN queue : queue[i] \in FeedTicks
  BY TakeFacts DEF adapterVars
<1>2. /\ IsTick(u) /\ u.symbol = Symbol /\ u.sequence \in Nat /\ u.lost \in Nat
      /\ \A i \in DOMAIN queue : queue[i].lost \in Nat
  BY <1>1, TickParts
<1>3. IsBook(book)
  BY DEF Types
<1>4. CountsChanged(book, u, book') /\ Apply(book, u).result = Landed(book, u).result
  BY <1>1, <1>2, <1>3, ApplyEffect
<1>5. /\ skipped' = IF hit THEN skipped ELSE skipped + 1
      /\ before' = IF hit /\ before = None THEN u.lost ELSE before
      /\ since' = IF hit THEN u.lost ELSE since
  BY <1>1, <1>4 DEF Consume
<1>6. /\ book.sequence \in Nat /\ book.sequence_gaps \in Nat
      /\ book.sequence_reorders \in Nat /\ book.sequence_initialized \in BOOLEAN
  BY <1>3 DEF IsBook, AnyBook
<1>7. /\ taken \in Nat /\ skipped \in Nat /\ lost \in Nat
      /\ before \in Nat \cup {None} /\ since \in Nat \cup {None}
  BY DEF Types
<1>8. /\ u.sequence = taken + 1 + u.lost /\ u.lost <= lost
      /\ \A i \in DOMAIN queue' : u.lost <= queue'[i].lost
  <2>1. 1 \in DOMAIN queue
    BY <1>1
  <2>2. ASSUME NEW i \in DOMAIN queue' PROVE u.lost <= queue'[i].lost
    <3>1. i + 1 \in DOMAIN queue /\ 1 < i + 1 /\ queue'[i] = queue[i + 1]
      BY <1>1, <2>1
    <3> QED
      BY <2>1, <3>1 DEF Numbered
  <2> QED
    BY <2>1, <2>2 DEF Numbered
<1>9. book.sequence_initialized => since <= u.lost /\ \A i \in DOMAIN queue' : since <= queue'[i].lost
  BY <1>1 DEF GapsCounted
<1> HIDE DEF u, hit
<1>10. /\ skipped' \in Nat /\ before' \in Nat \cup {None} /\ since' \in Nat \cup {None}
  BY <1>2, <1>5, <1>7
<1>11. CASE ~ hit
  <2>1. /\ book'.sequence_initialized = book.sequence_initialized
        /\ book'.sequence = book.sequence
        /\ book'.sequence_gaps = book.sequence_gaps
        /\ book'.sequence_reorders = book.sequence_reorders
    BY <1>4, <1>11 DEF CountsChanged, hit
  <2>2. skipped' = skipped + 1 /\ before' = before /\ since' = since
    BY <1>5, <1>11
  <2> QED
    BY <1>1, <1>6, <1>7, <1>9, <1>10, <2>1, <2>2 DEF GapsCounted, None
<1>12. CASE hit
  <2>1. /\ book'.sequence_initialized
        /\ book'.sequence = u.sequence
        /\ book'.sequence_gaps = IF Skips(book, u) THEN book.sequence_gaps + 1
                                                   ELSE book.sequence_gaps
        /\ book'.sequence_reorders = IF GoesBack(book, u)
                                       THEN book.sequence_reorders + 1
                                       ELSE book.sequence_reorders
    BY <1>4, <1>12 DEF CountsChanged, hit
  <2>2. skipped' = skipped /\ since' = u.lost
        /\ before' = IF before = None THEN u.lost ELSE before
    BY <1>5, <1>12
  <2>3. CASE book.sequence_initialized
    <3>1. /\ before \in Nat /\ since \in Nat /\ before <= since /\ since <= u.lost
          /\ book.sequence <= taken + since
          /\ book.sequence_gaps + taken - (book.sequence - since)
               <= skipped + (since - before)
          /\ before < since => book.sequence_gaps > 0
          /\ book.sequence_reorders = 0
      BY <1>9, <2>3 DEF GapsCounted
    <3>2. before' = before /\ book'.sequence_reorders = 0
      BY <1>2, <1>6, <1>7, <1>8, <2>1, <2>2, <3>1 DEF None, GoesBack
    <3>3. Skips(book, u) <=> u.sequence > book.sequence + 1
      BY <1>2, <1>6, <2>3 DEF Skips
    <3>4. /\ book'.sequence_gaps + taken' - (book'.sequence - since')
               <= skipped' + (since' - before')
          /\ before' < since' => book'.sequence_gaps > 0
          /\ book'.sequence <= taken' + since' /\ before' <= since'
      <4>1. book'.sequence_gaps = IF u.sequence > book.sequence + 1
                                    THEN book.sequence_gaps + 1 ELSE book.sequence_gaps
        BY <2>1, <3>3
      <4> DEFINE gaps == book.sequence_gaps
                 seq == book.sequence
                 now == u.lost
                 next == u.sequence
                 counted == book'.sequence_gaps
      <4>2. /\ gaps \in Nat /\ seq \in Nat /\ now \in Nat
            /\ seq <= taken + since /\ since <= now
            /\ gaps + taken - (seq - since) <= skipped + (since - before)
            /\ before < since => gaps > 0
            /\ next = taken + 1 + now
            /\ counted = IF next > seq + 1 THEN gaps + 1 ELSE gaps
        BY <1>2, <1>6, <1>8, <3>1, <4>1
      <4> HIDE DEF gaps, seq, now, next, counted
      <4>3. /\ counted + (taken + 1) - (next - now) <= skipped + (now - before)
            /\ before < now => counted > 0
            /\ next <= taken + 1 + now /\ before <= now
        BY <1>7, <3>1, <4>2, GapArithmetic
      <4> QED
        BY <1>1, <2>1, <2>2, <3>2, <4>3 DEF now, next, counted
    <3> QED
      BY <1>1, <1>2, <1>7, <1>8, <2>1, <2>2, <3>1, <3>2, <3>4 DEF GapsCounted
  <2>4. CASE ~ book.sequence_initialized
    <3>1. before = None /\ book.sequence_gaps = 0 /\ book.sequence_reorders = 0
      BY <2>4 DEF GapsCounted
    <3>2. before' = u.lost /\ book'.sequence_gaps = 0 /\ book'.sequence_reorders = 0
      BY <2>1, <2>2, <2>4, <3>1 DEF Skips, GoesBack
    <3> QED
      <4>1. /\ before' \in Nat /\ since' \in Nat /\ before' = since' /\ since' <= lost'
            /\ \A i \in DOMAIN queue' : since' <= queue'[i].lost
        BY <1>1, <1>2, <1>8, <2>2, <3>2
      <4>2. book'.sequence = taken' + since'
        BY <1>1, <1>8, <2>1, <2>2
      <4>3. taken' \in Nat
        BY <1>1, <1>7
      <4>4. book'.sequence_gaps + taken' - (book'.sequence - since')
              <= skipped' + (since' - before')
        <5> DEFINE x == since'
                   y == taken'
                   z == skipped'
        <5>1. x \in Nat /\ y \in Nat /\ z \in Nat
          BY <1>10, <4>1, <4>3
        <5> HIDE DEF x, y, z
        <5>2. 0 + y - ((y + x) - x) <= z + (x - x)
          BY <5>1
        <5> QED
          BY <3>2, <4>1, <4>2, <5>2 DEF x, y, z
      <4>5. book'.sequence <= taken' + since'
        <5>1. \A x, y \in Nat : y + x <= y + x
          OBVIOUS
        <5> QED
          BY <4>1, <4>2, <4>3, <5>1, Zenon
      <4> QED
        BY <1>10, <2>1, <3>2, <4>1, <4>4, <4>5 DEF GapsCounted
  <2> QED
    BY <1>6, <2>3, <2>4
<1> QED
  BY <1>10, <1>11, <1>12

\* The book takes over the snapshot id of the tick, which no later tick undercuts.
LEMMA TakeSnapshots ==
  ASSUME Types, SnapshotsInOrder, Consume
  PROVE  SnapshotsInOrder'
<1> DEFINE u == queue[1]
<1>1. /\ u \in FeedTicks /\ book' = Apply(book, u).book
      /\ DOMAIN queue = 1 .. Len(queue) /\ Len(queue) \in Nat /\ Len(queue) > 0
      /\ DOMAIN queue' = 1 .. Len(queue) - 1
      /\ \A i \in DOMAIN queue' : queue'[i] = queue[i + 1] /\ i + 1 \in DOMAIN queue
      /\ \A i \in DOMAIN queue : queue[i] \in FeedTicks
      /\ outbox' = outbox /\ market' = market /\ snapshot' = snapshot
  BY TakeFacts DEF adapterVars
<1>2. IsBook(book)
  BY DEF Types
<1>3. \A s \in Sides :
        book'.snapshot_id[s] = IF s = u.side /\ u.is_snapshot THEN u.snapshot_id
                                                              ELSE book.snapshot_id[s]
  BY <1>1, <1>2, OwnSide, OtherSide
<1>4. /\ 1 \in DOMAIN queue /\ u.side \in Sides /\ u.snapshot_id <= snapshot
      /\ u.snapshot_id \in Nat /\ snapshot \in Nat
  BY <1>1, TickParts DEF SnapshotsInOrder, Types
<1>5. ASSUME NEW s \in Sides
      PROVE  /\ book'.snapshot_id[s] = NoSnapshotId \/ book'.snapshot_id[s] <= snapshot
             /\ Left(outbox, s) = Items(market, s) =>
                  /\ Fresh(book'.snapshot_id[s], snapshot)
                  /\ \A i \in DOMAIN queue' : Older(queue'[i], s, snapshot)
  <2>1. /\ book.snapshot_id[s] = NoSnapshotId \/ book.snapshot_id[s] <= snapshot
        /\ Left(outbox, s) = Items(market, s) =>
             /\ Fresh(book.snapshot_id[s], snapshot)
             /\ \A i \in DOMAIN queue : Older(queue[i], s, snapshot)
    BY DEF SnapshotsInOrder
  <2>2. book'.snapshot_id[s] = NoSnapshotId \/ book'.snapshot_id[s] <= snapshot
    BY <1>3, <1>4, <2>1
  <2>3. ASSUME Left(outbox, s) = Items(market, s)
        PROVE  Fresh(book'.snapshot_id[s], snapshot)
    <3>1. Older(u, s, snapshot) /\ Fresh(book.snapshot_id[s], snapshot)
      BY <1>4, <2>1, <2>3
    <3> QED
      BY <1>3, <3>1 DEF Older, Fresh
  <2>4. ASSUME Left(outbox, s) = Items(market, s), NEW i \in DOMAIN queue'
        PROVE  Older(queue'[i], s, snapshot)
    BY <1>1, <2>1, <2>4
  <2> QED
    BY <2>2, <2>3, <2>4
<1>6. ASSUME NEW i \in DOMAIN queue'
      PROVE  /\ queue'[i].snapshot_id <= snapshot
             /\ Starts(queue'[i]) =>
                  /\ Fresh(book'.snapshot_id[queue'[i].side], queue'[i].snapshot_id)
                  /\ \A j \in 1 .. i - 1 :
                       Older(queue'[j], queue'[i].side, queue'[i].snapshot_id)
  <2> DEFINE v == queue[i + 1]
  <2>1. i + 1 \in DOMAIN queue /\ queue'[i] = v /\ v \in FeedTicks /\ v.side \in Sides
        /\ 1 \in 1 .. i + 1 - 1 /\ i \in Nat
    BY <1>1, TickParts
  <2>2. /\ v.snapshot_id <= snapshot
        /\ Starts(v) => /\ Fresh(book.snapshot_id[v.side], v.snapshot_id)
                        /\ \A j \in 1 .. i + 1 - 1 : Older(queue[j], v.side, v.snapshot_id)
    BY <2>1 DEF SnapshotsInOrder
  <2> HIDE DEF v
  <2>3. ASSUME Starts(v) PROVE Fresh(book'.snapshot_id[v.side], v.snapshot_id)
    <3>1. Older(u, v.side, v.snapshot_id) /\ Fresh(book.snapshot_id[v.side], v.snapshot_id)
      BY <2>1, <2>2, <2>3
    <3> QED
      BY <1>3, <2>1, <3>1 DEF Older, Fresh
  <2>4. ASSUME Starts(v), NEW j \in 1 .. i - 1
        PROVE  Older(queue'[j], v.side, v.snapshot_id)
    <3>1. j \in DOMAIN queue' /\ j + 1 \in 1 .. i + 1 - 1
      BY <1>1, <2>1
    <3> QED
      BY <1>1, <2>2, <2>4, <3>1
  <2> QED
    BY <2>1, <2>2, <2>3, <2>4
<1> QED
  BY <1>1, <1>5, <1>6 DEF SnapshotsInOrder

\* Every tick in the ring follows the one that was published before it, also when
\* that one has left the ring.
LEMMA TakeHistory ==
  ASSUME Types, HistoryHolds, Consume
  PROVE  HistoryHolds'
<1>1. /\ DOMAIN queue = 1 .. Len(queue) /\ Len(queue) \in Nat /\ Len(queue) > 0
      /\ DOMAIN queue' = 1 .. Len(queue) - 1 /\ Len(queue') = Len(queue) - 1
      /\ \A i \in DOMAIN queue' : queue'[i] = queue[i + 1] /\ i + 1 \in DOMAIN queue
      /\ out' = queue[1] /\ taken' = taken + 1 /\ taken \in Nat
      /\ UNCHANGED adapterVars
  BY TakeFacts DEF Types
<1>2. \A i \in 1 .. Len(queue) : Previous(i)' = Previous(i + 1)
  <2>1. TAKE i \in 1 .. Len(queue)
  <2>2. CASE i = 1
    BY <1>1, <2>2 DEF Previous
  <2>3. CASE i # 1
    <3>1. i - 1 \in DOMAIN queue' /\ i + 1 - 1 = i /\ i - 1 + 1 = i /\ i + 1 # 1
      BY <1>1, <2>3
    <3>2. queue'[i - 1] = queue[i]
      BY <1>1, <3>1
    <3> QED
      BY <2>3, <3>1, <3>2 DEF Previous
  <2> QED
    BY <2>2, <2>3
<1>3. ASSUME NEW i \in DOMAIN queue'
      PROVE  Sound(queue'[i]) /\ Follows(taken' + i > 1, Previous(i)', queue'[i])
  <2>1. i + 1 \in DOMAIN queue /\ queue'[i] = queue[i + 1] /\ i \in 1 .. Len(queue)
    BY <1>1
  <2>2. Sound(queue[i + 1]) /\ Follows(taken + (i + 1) > 1, Previous(i + 1), queue[i + 1])
    BY <2>1 DEF HistoryHolds
  <2>3. Previous(i)' = Previous(i + 1)
    BY <1>2, <2>1
  <2>4. (taken + (i + 1) > 1) = (taken' + i > 1)
    BY <1>1, <2>1
  <2> QED
    BY <2>1, <2>2, <2>3, <2>4
<1>4. ASSUME NEW s \in Sides
      PROVE  Carries(taken' + Len(queue') > 0, Last', Now', s)
  <2>1. Carries(taken + Len(queue) > 0, Last, Now, s)
    BY DEF HistoryHolds
  <2>2. (taken + Len(queue) > 0) = (taken' + Len(queue') > 0)
    BY <1>1
  <2>3. Now' = Now
    BY <1>1 DEF Now, adapterVars
  <2>4. Last' = Last
    <3>1. CASE Len(queue) = 1
      BY <1>1, <3>1 DEF Last
    <3>2. CASE Len(queue) > 1
      <4>1. Len(queue) - 1 \in DOMAIN queue' /\ Len(queue) # 0 /\ Len(queue') # 0
        BY <1>1, <3>2
      <4>2. queue'[Len(queue')] = queue[Len(queue)]
        BY <1>1, <4>1
      <4> QED
        BY <4>1, <4>2 DEF Last
    <3> QED
      BY <1>1, <3>1, <3>2
  <2> QED
    BY <2>1, <2>2, <2>3, <2>4
<1> QED
  BY <1>3, <1>4 DEF HistoryHolds

\* All that taking a tick keeps.
LEMMA TakeStep ==
  ASSUME PipelineInv, Consume
  PROVE  /\ queue' \in Seq(FeedTicks) /\ Len(queue') <= RingSize
         /\ refusals' \in 0 .. Wrap - 1
         /\ IsBook(book') /\ taken' = taken + 1 /\ skipped' \in Nat
         /\ before' \in Nat \cup {None} /\ since' \in Nat \cup {None}
         /\ UNCHANGED adapterVars
         /\ Numbered' /\ GapsCounted' /\ SnapshotsInOrder' /\ HistoryHolds' /\ BookShows'
<1>1. /\ Types /\ Numbered /\ GapsCounted /\ SnapshotsBounded /\ SnapshotsInOrder
      /\ HistoryHolds /\ BookShows
  BY DEF PipelineInv
<1> DEFINE u == queue[1]
<1>2. /\ u \in FeedTicks /\ out' = u /\ 1 \in DOMAIN queue
      /\ queue' \in Seq(FeedTicks) /\ Len(queue') = Len(queue) - 1 /\ Len(queue) \in Nat
      /\ refusals' = refusals /\ taken' = taken + 1 /\ book' = Apply(book, u).book
      /\ UNCHANGED adapterVars
  BY <1>1, TakeFacts
<1>3. IsBook(book')
  BY <1>1, <1>2, TickParts, ApplyKeepsBook DEF Types
<1>4. /\ Numbered' /\ GapsCounted' /\ SnapshotsInOrder' /\ HistoryHolds'
      /\ skipped' \in Nat /\ before' \in Nat \cup {None} /\ since' \in Nat \cup {None}
  BY <1>1, TakeNumbered, TakeGaps, TakeSnapshots, TakeHistory
<1>5. \A s \in Sides : Shows(book', u, s)
  <2> DEFINE known == taken + 1 > 1
  <2>1. Sound(u) /\ Follows(known, out, u)
    BY <1>1, <1>2 DEF HistoryHolds, Previous
  <2>2. u.snapshot_id <= MaxSeq /\ (Starts(u) => Fresh(book.snapshot_id[u.side], u.snapshot_id))
    <3>1. /\ u.snapshot_id <= snapshot /\ snapshot <= MaxSeq
          /\ Starts(u) => Fresh(book.snapshot_id[u.side], u.snapshot_id)
      BY <1>1, <1>2 DEF SnapshotsInOrder, SnapshotsBounded
    <3>2. u.snapshot_id \in Nat /\ snapshot \in Nat
      BY <1>1, <1>2, TickParts DEF Types
    <3> QED
      BY <3>1, <3>2, PipelineAssumption
  <2>3. known => out \in FeedTicks /\ \A s \in Sides : Shows(book, out, s)
    BY <1>1 DEF BookShows, Types
  <2>4. IsBook(book) /\ known \in BOOLEAN
    BY <1>1 DEF Types
  <2> HIDE DEF u, known
  <2> QED
    BY <1>2, <2>1, <2>2, <2>3, <2>4, TakeShows
<1>6. BookShows'
  <2>1. Sound(u) /\ taken' # 0
    BY <1>1, <1>2 DEF HistoryHolds, Types
  <2> HIDE DEF u
  <2> QED
    BY <1>2, <1>5, <2>1 DEF BookShows
<1> HIDE DEF u
<1>7. Len(queue') <= RingSize
  BY <1>1, <1>2, PipelineAssumption DEF Types
<1>8. refusals' \in 0 .. Wrap - 1
  BY <1>1, <1>2 DEF Types
<1> QED
  BY <1>2, <1>3, <1>4, <1>6, <1>7, <1>8

------------------------------------------------------------------------------
(***************************************************************************)
(* The adapter says something of side s: the market moves there, or a      *)
(* level of the snapshot is sent.                                          *)
(***************************************************************************)
Says(s, level, m, rest) ==
  /\ s \in Sides /\ level \in AllLevels
  /\ m \in Markets /\ rest \in SUBSET (Sides \X AllLevels)
  /\ \A r \in Sides : r # s => m[r] = market[r] /\ Left(rest, r) = Left(outbox, r)
  /\ \/ /\ outbox = {} /\ rest = {}
        /\ m[s] = [market[s] EXCEPT ![level.price] = level.qty]
     \/ /\ level \in Left(outbox, s) /\ m = market
        /\ Left(rest, s) = Left(outbox, s) \ {level}

\* A move of the market is sent as it happens.
LEMMA QuoteSays ==
  ASSUME Types, NEW s \in Sides, NEW price \in Prices, NEW qty \in Qtys,
         Quote(s, price, qty)
  PROVE  \E m : Says(s, Level(price, qty), m, {}) /\ Send(s, Level(price, qty), m, {})
<1> DEFINE m == [market EXCEPT ![s][price] = qty]
           level == Level(price, qty)
<1>1. outbox = {} /\ m \in Markets /\ Send(s, level, m, {})
  BY DEF Quote
<1>2. market \in [Sides -> [Prices -> Qtys]]
  BY DEF Types, Markets
<1>3. level \in AllLevels /\ level.price = price /\ level.qty = qty
  BY DEF Level, AllLevels
<1>4. /\ m[s] = [market[s] EXCEPT ![price] = qty]
      /\ \A r \in Sides : r # s => m[r] = market[r]
  BY <1>2
<1> HIDE DEF m, level
<1>5. Says(s, level, m, {})
  BY <1>1, <1>3, <1>4 DEF Says
<1> QED
  BY <1>1, <1>5 DEF level

\* A level of a snapshot is one that was still to be sent.
LEMMA SnapshotSays ==
  ASSUME Types, NEW item \in outbox
  PROVE  Says(item[1], item[2], market, outbox \ {item})
<1>1. /\ item \in Sides \X AllLevels /\ item[1] \in Sides /\ item[2] \in AllLevels
      /\ item = <<item[1], item[2]>>
      /\ outbox \in SUBSET (Sides \X AllLevels) /\ market \in Markets
  BY DEF Types
<1>2. \A r \in Sides : r # item[1] => Left(outbox \ {item}, r) = Left(outbox, r)
  BY <1>1 DEF Left
<1>3. item[2] \in Left(outbox, item[1])
  BY <1>1 DEF Left
<1>4. Left(outbox \ {item}, item[1]) = Left(outbox, item[1]) \ {item[2]}
  BY <1>1 DEF Left
<1> QED
  BY <1>1, <1>2, <1>3, <1>4 DEF Says

\* Sent in part is sent: a side that has still all of a snapshot to come is not
\* the one that was just sent a level of.
LEMMA SaysStarts ==
  ASSUME Types, \A r \in Sides : OutboxOf(r),
         NEW s, NEW level, NEW m, NEW rest, Says(s, level, m, rest)
  PROVE  /\ \A r \in Sides : /\ Left(rest, r) \subseteq Items(m, r)
                             /\ Left(rest, r) = Items(m, r)
                                  => r # s /\ Left(outbox, r) = Items(market, r)
         /\ outbox # {} => /\ level \in Items(m, s) \ Left(rest, s)
                           /\ Left(rest, s) \cup {level} = Left(outbox, s)
                           /\ m = market
<1>1. Left({}, s) = {}
  BY DEF Left
<1>2. m \in Markets /\ s \in Sides
  BY DEF Says
<1>3. Items(m, s) # {}
  BY <1>2, ItemsOfMarket
<1>4. ASSUME NEW r \in Sides, r # s
      PROVE  Left(rest, r) = Left(outbox, r) /\ Items(m, r) = Items(market, r)
  BY <1>4, SideOfMarket DEF Says
<1>5. /\ Left(rest, s) \subseteq Items(m, s) /\ Left(rest, s) # Items(m, s)
      /\ outbox # {} => /\ level \in Items(m, s) \ Left(rest, s)
                        /\ Left(rest, s) \cup {level} = Left(outbox, s)
                        /\ m = market
  <2>1. CASE outbox = {} /\ rest = {}
    BY <1>1, <1>3, <2>1
  <2>2. CASE /\ level \in Left(outbox, s) /\ m = market
             /\ Left(rest, s) = Left(outbox, s) \ {level}
    <3>1. Left(outbox, s) \subseteq Items(m, s)
      BY <1>2, <2>2 DEF OutboxOf
    <3> QED
      BY <2>2, <3>1
  <2> QED
    BY <2>1, <2>2 DEF Says
<1> QED
  BY <1>4, <1>5 DEF OutboxOf

\* What a full ring refuses is lost, and known to be.
LEMMA DropKeeps ==
  ASSUME PipelineInv, NEW s, NEW level, NEW m, NEW rest, Says(s, level, m, rest),
         Drop(s), nextSeq <= MaxSeq, nextSeq' = nextSeq + 1, market' = m, outbox' = rest,
         UNCHANGED <<snapshot, engineVars>>
  PROVE  PipelineInv'
<1>1. /\ Types /\ Numbered /\ Counted /\ GapsCounted /\ SnapshotsBounded
      /\ SnapshotsInOrder /\ HistoryHolds /\ BookShows /\ \A r \in Sides : OutboxOf(r)
  BY DEF PipelineInv
<1>2. /\ queue' = queue /\ out' = out /\ refusals' = (refusals + 1) % Wrap
      /\ told' = [told EXCEPT ![s] = "lost"] /\ lost' = lost + 1
      /\ book' = book /\ ticks' = ticks /\ n' = n /\ pc' = pc /\ taken' = taken
      /\ skipped' = skipped /\ before' = before /\ since' = since /\ snapshot' = snapshot
  BY DEF Drop, Ring!Refuse, engineVars, history
<1>3. s \in Sides /\ told \in [Sides -> Statuses]
  BY <1>1 DEF Says, Types
<1>4. told'[s] = "lost" /\ \A r \in Sides : r # s => told'[r] = told[r]
  BY <1>2, <1>3
<1>5. Types'
  <2>1. refusals' \in 0 .. Wrap - 1
    BY <1>1, <1>2, PipelineAssumption, DivisionWithRemainder DEF Types
  <2> QED
    BY <1>1, <1>2, <1>3, <2>1 DEF Types, Says, Statuses
<1>6. Numbered' /\ GapsCounted'
  <2>1. /\ lost \in Nat /\ nextSeq \in Nat /\ taken \in Nat /\ queue \in Seq(FeedTicks)
        /\ \A i \in DOMAIN queue : queue[i] \in FeedTicks
    BY <1>1 DEF Types
  <2>2. \A i \in DOMAIN queue : queue[i].lost \in Nat
    BY <2>1, TickParts
  <2>3. Numbered'
    BY <1>1, <1>2, <2>1, <2>2 DEF Numbered
  <2>4. GapsCounted'
    BY <1>1, <1>2, <2>1, <2>2 DEF GapsCounted
  <2> QED
    BY <2>3, <2>4
<1>7. Counted'
  BY <1>1, <1>2 DEF Counted
<1>8. ASSUME NEW r \in Sides PROVE OutboxOf(r)'
  <2>1. Left(rest, r) \subseteq Items(m, r)
    BY <1>1, SaysStarts
  <2>2. CASE r = s
    BY <1>4, <2>1, <2>2 DEF OutboxOf
  <2>3. CASE r # s
    BY <1>1, <1>4, <2>1, <2>3 DEF OutboxOf, Says
  <2> QED
    BY <2>2, <2>3
<1>9. SnapshotsBounded'
  BY <1>1, <1>2, PipelineAssumption DEF SnapshotsBounded, Types
<1>10. SnapshotsInOrder'
  <2>1. \A r \in Sides : Left(rest, r) = Items(m, r) => Left(outbox, r) = Items(market, r)
    BY <1>1, SaysStarts
  <2> QED
    BY <1>1, <1>2, <2>1 DEF SnapshotsInOrder
<1>11. HistoryHolds'
  <2>1. \A i \in DOMAIN queue : Previous(i)' = Previous(i)
    BY <1>2 DEF Previous
  <2>2. Last' = Last
    BY <1>2 DEF Last
  <2>3. ASSUME NEW r \in Sides PROVE Carries(taken' + Len(queue') > 0, Last', Now', r)
    <3>1. CASE r = s
      BY <1>4, <3>1 DEF Carries, Now
    <3>2. CASE r # s
      <4>1. Carries(taken + Len(queue) > 0, Last, Now, r)
        BY <1>1 DEF HistoryHolds
      <4>2. /\ Now'.told[r] = Now.told[r] /\ Now'.market[r] = Now.market[r]
            /\ Now'.snapshot_id = Now.snapshot_id
            /\ Left(Now'.rest, r) = Left(Now.rest, r)
        BY <1>2, <1>4, <3>2 DEF Now, Says
      <4>3. Items(Now'.market, r) = Items(Now.market, r)
        BY <4>2, SideOfMarket
      <4> QED
        BY <1>2, <2>2, <4>1, <4>2, <4>3 DEF Carries
    <3> QED
      BY <3>1, <3>2
  <2> QED
    BY <1>1, <1>2, <2>1, <2>3 DEF HistoryHolds
<1>12. BookShows'
  BY <1>1, <1>2 DEF BookShows, Shows
<1> QED
  BY <1>5, <1>6, <1>7, <1>8, <1>9, <1>10, <1>11, <1>12 DEF PipelineInv

\* The tick that is published.
LEMMA PublishedTick ==
  ASSUME PipelineInv, NEW s, NEW level, NEW m, NEW rest, Says(s, level, m, rest),
         NEW knows \in [Sides -> Statuses],
         NEW new, new = Tick(s, level, m, knows, rest)
  PROVE  /\ new \in FeedTicks /\ new.side = s /\ Of(new) = level
         /\ new.price = level.price /\ new.qty = level.qty
         /\ new.sequence = nextSeq /\ new.lost = lost
         /\ new.market = m /\ new.told = knows /\ new.rest = rest
         /\ new.is_snapshot = (outbox # {})
         /\ new.snapshot_id = IF outbox = {} THEN 0 ELSE snapshot
         /\ new.snapshot_id <= snapshot
<1>1. /\ nextSeq \in Nat /\ snapshot \in Nat /\ lost \in Nat
      /\ s \in Sides /\ level \in AllLevels /\ m \in Markets
      /\ rest \in SUBSET (Sides \X AllLevels)
  BY DEF PipelineInv, Types, Says
<1>2. level.price \in Prices /\ level.qty \in Qtys /\ level = Level(level.price, level.qty)
  BY <1>1 DEF AllLevels, Level
<1>3. /\ new.side = s /\ new.price = level.price /\ new.qty = level.qty
      /\ new.sequence = nextSeq /\ new.lost = lost
      /\ new.market = m /\ new.told = knows /\ new.rest = rest
      /\ new.is_snapshot = (outbox # {})
      /\ new.snapshot_id = IF outbox = {} THEN 0 ELSE snapshot
  BY DEF Tick
<1>4. new \in FeedTicks
  <2> DEFINE x == outbox # {}
             y == IF outbox = {} THEN 0 ELSE snapshot
  <2>1. x \in BOOLEAN /\ y \in Nat
    BY <1>1
  <2>2. new = [symbol |-> Symbol, side |-> s, price |-> level.price, qty |-> level.qty,
               sequence |-> nextSeq, ts_recv_ns |-> 1, is_snapshot |-> x,
               snapshot_id |-> y, market |-> m, told |-> knows, lost |-> lost,
               rest |-> rest]
    BY DEF Tick
  <2> HIDE DEF x, y
  <2> QED
    BY <1>1, <1>2, <2>1, <2>2 DEF FeedTicks
<1> QED
  BY <1>1, <1>2, <1>3, <1>4 DEF Of

\* The ring with one more tick.
LEMMA PublishFacts ==
  ASSUME Types, NEW new \in FeedTicks, Ring!Publish(new)
  PROVE  /\ queue' \in Seq(FeedTicks) /\ Len(queue') <= RingSize
         /\ Len(queue) \in Nat /\ Len(queue') = Len(queue) + 1
         /\ DOMAIN queue = 1 .. Len(queue) /\ DOMAIN queue' = 1 .. Len(queue) + 1
         /\ \A i \in DOMAIN queue : queue'[i] = queue[i] /\ queue[i] \in FeedTicks
         /\ queue'[Len(queue) + 1] = new
         /\ out' = out /\ refusals' = refusals
<1>1. /\ queue \in Seq(FeedTicks) /\ Len(queue) \in Nat /\ DOMAIN queue = 1 .. Len(queue)
      /\ \A i \in DOMAIN queue : queue[i] \in FeedTicks
  BY DEF Types
<1>2. /\ Len(queue) < RingSize /\ queue' = Append(queue, new)
      /\ out' = out /\ refusals' = refusals
  BY DEF Ring!Publish
<1> QED
  BY <1>1, <1>2, PipelineAssumption

\* The new tick is numbered after the others, and was lost no tick since.
LEMMA PublishNumbered ==
  ASSUME Types, Numbered, GapsCounted, NEW new \in FeedTicks, Ring!Publish(new),
         new.sequence = nextSeq, new.lost = lost, nextSeq' = nextSeq + 1, lost' = lost,
         book' = book, taken' = taken, skipped' = skipped, before' = before, since' = since
  PROVE  Numbered' /\ GapsCounted'
<1>1. /\ Len(queue) \in Nat /\ Len(queue') = Len(queue) + 1
      /\ DOMAIN queue = 1 .. Len(queue) /\ DOMAIN queue' = 1 .. Len(queue) + 1
      /\ \A i \in DOMAIN queue : queue'[i] = queue[i] /\ queue[i].lost \in Nat
      /\ queue'[Len(queue) + 1] = new
  BY PublishFacts, TickParts
<1>2. lost \in Nat /\ nextSeq \in Nat /\ taken \in Nat
  BY DEF Types
<1>3. ASSUME NEW i \in DOMAIN queue'
      PROVE  /\ queue'[i].sequence = taken + i + queue'[i].lost
             /\ queue'[i].lost <= lost
             /\ \A j \in DOMAIN queue' : i < j => queue'[i].lost <= queue'[j].lost
             /\ book.sequence_initialized => since <= queue'[i].lost
  <2>1. CASE i \in DOMAIN queue
    <3>1. /\ queue'[i] = queue[i] /\ queue[i].sequence = taken + i + queue[i].lost
          /\ queue[i].lost <= lost
          /\ book.sequence_initialized => since <= queue[i].lost
      BY <1>1, <2>1 DEF Numbered, GapsCounted
    <3>2. ASSUME NEW j \in DOMAIN queue', i < j PROVE queue[i].lost <= queue'[j].lost
      <4>1. CASE j \in DOMAIN queue
        BY <1>1, <2>1, <3>2, <4>1 DEF Numbered
      <4>2. CASE j = Len(queue) + 1
        BY <1>1, <3>1, <4>2
      <4> QED
        BY <1>1, <4>1, <4>2
    <3> QED
      BY <3>1, <3>2
  <2>2. CASE i = Len(queue) + 1
    <3>1. queue'[i] = new /\ new.sequence = taken + i + new.lost
      BY <1>1, <1>2, <2>2 DEF Numbered
    <3>2. \A j \in DOMAIN queue' : ~ (i < j)
      BY <1>1, <2>2
    <3>3. book.sequence_initialized => since <= lost
      BY DEF GapsCounted
    <3> QED
      BY <1>2, <3>1, <3>2, <3>3
  <2> QED
    BY <1>1, <2>1, <2>2
<1>4. nextSeq' - 1 = taken' + Len(queue') + lost'
  BY <1>1, <1>2 DEF Numbered
<1>5. Numbered'
  BY <1>3, <1>4 DEF Numbered
<1>6. GapsCounted'
  BY <1>3 DEF GapsCounted
<1> QED
  BY <1>5, <1>6

\* A tick that starts a snapshot on its side is newer than all in the ring.
LEMMA PublishSnapshots ==
  ASSUME PipelineInv, NEW s, NEW level, NEW m, NEW rest, Says(s, level, m, rest),
         NEW knows \in [Sides -> Statuses],
         NEW new, new = Tick(s, level, m, knows, rest), Ring!Publish(new),
         market' = m, outbox' = rest, snapshot' = snapshot, book' = book
  PROVE  SnapshotsInOrder'
<1>1. Types /\ SnapshotsInOrder /\ \A r \in Sides : OutboxOf(r)
  BY DEF PipelineInv
<1>2. /\ new \in FeedTicks /\ new.side = s /\ Of(new) = level
      /\ new.market = m /\ new.rest = rest
      /\ new.is_snapshot = (outbox # {})
      /\ new.snapshot_id = IF outbox = {} THEN 0 ELSE snapshot
      /\ new.snapshot_id <= snapshot
  BY PublishedTick
<1>3. /\ Len(queue) \in Nat
      /\ DOMAIN queue = 1 .. Len(queue) /\ DOMAIN queue' = 1 .. Len(queue) + 1
      /\ \A i \in DOMAIN queue : queue'[i] = queue[i]
      /\ queue'[Len(queue) + 1] = new
  BY <1>1, <1>2, PublishFacts
<1>4. /\ \A r \in Sides : Left(rest, r) = Items(m, r)
                            => r # s /\ Left(outbox, r) = Items(market, r)
      /\ outbox # {} => Left(rest, s) \cup {level} = Left(outbox, s) /\ m = market
  BY <1>1, SaysStarts
<1>5. s \in Sides
  BY DEF Says
<1>6. ASSUME NEW r \in Sides
      PROVE  /\ book.snapshot_id[r] = NoSnapshotId \/ book.snapshot_id[r] <= snapshot
             /\ Left(rest, r) = Items(m, r) =>
                  /\ Fresh(book.snapshot_id[r], snapshot)
                  /\ \A i \in DOMAIN queue' : Older(queue'[i], r, snapshot)
  <2>1. /\ book.snapshot_id[r] = NoSnapshotId \/ book.snapshot_id[r] <= snapshot
        /\ Left(outbox, r) = Items(market, r) =>
             /\ Fresh(book.snapshot_id[r], snapshot)
             /\ \A i \in DOMAIN queue : Older(queue[i], r, snapshot)
    BY <1>1 DEF SnapshotsInOrder
  <2>2. ASSUME Left(rest, r) = Items(m, r), NEW i \in DOMAIN queue'
        PROVE  Older(queue'[i], r, snapshot)
    <3>1. CASE i \in DOMAIN queue
      BY <1>3, <1>4, <2>1, <2>2, <3>1
    <3>2. CASE i = Len(queue) + 1
      BY <1>2, <1>3, <1>4, <2>2, <3>2 DEF Older
    <3> QED
      BY <1>3, <3>1, <3>2
  <2> QED
    BY <1>4, <2>1, <2>2
<1>7. ASSUME NEW i \in DOMAIN queue'
      PROVE  /\ queue'[i].snapshot_id <= snapshot
             /\ Starts(queue'[i]) =>
                  /\ Fresh(book.snapshot_id[queue'[i].side], queue'[i].snapshot_id)
                  /\ \A j \in 1 .. i - 1 :
                       Older(queue'[j], queue'[i].side, queue'[i].snapshot_id)
  <2>1. \A j \in 1 .. i - 1 : j \in DOMAIN queue
    BY <1>3
  <2>2. CASE i \in DOMAIN queue
    BY <1>1, <1>3, <2>1, <2>2 DEF SnapshotsInOrder
  <2>3. CASE i = Len(queue) + 1
    <3>1. ASSUME Starts(new)
          PROVE  /\ Fresh(book.snapshot_id[s], new.snapshot_id)
                 /\ \A j \in DOMAIN queue : Older(queue[j], s, new.snapshot_id)
      <4>1. outbox # {} /\ Left(rest, s) \cup {level} = Items(m, s)
        BY <1>2, <3>1 DEF Starts
      <4>2. Left(outbox, s) = Items(market, s) /\ new.snapshot_id = snapshot
        BY <1>2, <1>4, <4>1
      <4> QED
        BY <1>1, <1>5, <4>2 DEF SnapshotsInOrder
    <3> QED
      BY <1>2, <1>3, <2>1, <2>3, <3>1
  <2> QED
    BY <1>3, <2>2, <2>3
<1> QED
  BY <1>6, <1>7 DEF SnapshotsInOrder

\* What the adapter knows once the ring has taken a tick of side s: the snapshot
\* of that side is whole when nothing of it is left.
LEMMA PublishTold ==
  ASSUME Types, \A r \in Sides : OutboxOf(r),
         NEW s, NEW level, NEW m, NEW rest, Says(s, level, m, rest),
         Publish(s, level, m, rest)
  PROVE  /\ told' \in [Sides -> Statuses]
         /\ \A r \in Sides : r # s => told'[r] = told[r]
         /\ told[s] = "lost" => told'[s] = "lost"
         /\ told[s] = "whole" => told'[s] = "whole" /\ outbox = {}
         /\ told[s] = "batch" => /\ outbox # {}
                                 /\ told'[s] = IF Left(rest, s) = {} THEN "whole" ELSE "batch"
         /\ \A r \in Sides : /\ told'[r] = "whole" => Left(rest, r) = {}
                             /\ told'[r] = "batch" => Left(rest, r) # {} /\ outbox # {}
<1>1. /\ s \in Sides /\ told \in [Sides -> Statuses] /\ rest \in SUBSET (Sides \X AllLevels)
      /\ told' = [told EXCEPT ![s] =
                    IF @ = "batch" /\ ~ \E l \in rest : l[1] = s THEN "whole" ELSE @]
  BY DEF Types, Says, Publish
<1>2. (\E l \in rest : l[1] = s) <=> Left(rest, s) # {}
  <2>1. \A l \in rest : l = <<l[1], l[2]>> /\ l[2] \in AllLevels
    BY <1>1
  <2> QED
    BY <2>1 DEF Left
<1>3. /\ told' \in [Sides -> Statuses]
      /\ \A r \in Sides : r # s => told'[r] = told[r]
      /\ told'[s] = IF told[s] = "batch" /\ Left(rest, s) = {} THEN "whole" ELSE told[s]
  BY <1>1, <1>2 DEF Statuses
<1>4. \A r : Left({}, r) = {}
  BY DEF Left
<1>5. \A r \in Sides : /\ told[r] = "whole" => Left(outbox, r) = {}
                       /\ told[r] = "batch" => Left(outbox, r) # {} /\ outbox # {}
  BY <1>4 DEF OutboxOf
<1>6. told[s] = "whole" => outbox = {} /\ Left(rest, s) = {}
  <2>1. told[s] = "whole" => Left(outbox, s) = {}
    BY <1>1, <1>5
  <2> QED
    BY <1>4, <2>1 DEF Says
<1>7. \A r \in Sides : r # s => Left(rest, r) = Left(outbox, r)
  BY DEF Says
<1> QED
  BY <1>1, <1>3, <1>5, <1>6, <1>7

\* The tick that is published follows the one published before.
LEMMA PublishedFollows ==
  ASSUME PipelineInv, NEW s, NEW level, NEW m, NEW rest, Says(s, level, m, rest),
         Publish(s, level, m, rest),
         NEW new, new = Tick(s, level, m, told', rest), NEW known, NEW last,
         \A r \in Sides : Carries(known, last, Now, r)
  PROVE  /\ Sound(new)
         /\ Follows(known, last, new)
<1>1. Types /\ \A r \in Sides : OutboxOf(r)
  BY DEF PipelineInv
<1>2. /\ told' \in [Sides -> Statuses]
      /\ \A r \in Sides : r # s => told'[r] = told[r]
      /\ told[s] = "lost" => told'[s] = "lost"
      /\ told[s] = "whole" => told'[s] = "whole" /\ outbox = {}
      /\ told[s] = "batch" => outbox # {}
      /\ \A r \in Sides : /\ told'[r] = "whole" => Left(rest, r) = {}
                          /\ told'[r] = "batch" => Left(rest, r) # {} /\ outbox # {}
  BY <1>1, PublishTold
<1>3. /\ new.side = s /\ Of(new) = level /\ new.price = level.price /\ new.qty = level.qty
      /\ new.market = m /\ new.told = told' /\ new.rest = rest
      /\ new.is_snapshot = (outbox # {})
      /\ new.snapshot_id = IF outbox = {} THEN 0 ELSE snapshot
  BY <1>2, PublishedTick
<1>4. /\ \A r \in Sides : Left(rest, r) \subseteq Items(m, r)
      /\ outbox # {} => /\ level \in Items(m, s) \ Left(rest, s)
                        /\ Left(rest, s) \cup {level} = Left(outbox, s)
                        /\ m = market
  BY <1>1, SaysStarts
<1>5. s \in Sides /\ told[s] \in Statuses
  BY <1>1 DEF Says, Types
<1>6. Sound(new)
  BY <1>2, <1>3, <1>4, <1>5 DEF Sound
<1>7. ASSUME NEW r \in Sides, r # s PROVE Carries(known, last, new, r)
  <2>1. m[r] = market[r] /\ Left(rest, r) = Left(outbox, r) /\ Items(m, r) = Items(market, r)
    BY <1>7, SideOfMarket DEF Says
  <2>2. told'[r] = told[r] /\ (told'[r] = "batch" => outbox # {})
    BY <1>2, <1>7
  <2>3. Carries(known, last, Now, r)
    OBVIOUS
  <2> QED
    BY <1>3, <2>1, <2>2, <2>3 DEF Carries, Now
<1>8. Extends(known, last, new)
  <2>1. Carries(known, last, Now, s)
    BY <1>5
  <2>2. CASE told[s] = "lost"
    BY <1>2, <1>3, <2>2 DEF Extends
  <2>3. CASE told[s] = "whole"
    <3>1. known /\ last.told[s] = "whole" /\ last.market[s] = market[s]
      BY <2>1, <2>3 DEF Carries, Now
    <3>2. outbox = {} /\ told'[s] = "whole"
      BY <1>2, <2>3
    <3>3. m[s] = [market[s] EXCEPT ![level.price] = level.qty]
      <4>1. Left({}, s) = {}
        BY DEF Left
      <4> QED
        BY <3>2, <4>1 DEF Says
    <3> QED
      BY <1>3, <3>1, <3>2, <3>3 DEF Extends
  <2>4. CASE told[s] = "batch"
    <3>1. outbox # {}
      BY <1>2, <2>4
    <3>2. CASE Left(outbox, s) = Items(market, s)
      BY <1>3, <1>4, <3>1, <3>2 DEF Extends, Starts
    <3>3. CASE /\ known /\ last.told[s] = "batch" /\ last.market[s] = market[s]
               /\ last.snapshot_id = snapshot /\ Left(last.rest, s) = Left(outbox, s)
      BY <1>3, <1>4, <3>1, <3>3 DEF Extends
    <3> QED
      BY <2>1, <2>4, <3>2, <3>3 DEF Carries, Now
  <2> QED
    BY <1>5, <2>2, <2>3, <2>4 DEF Statuses
<1> QED
  BY <1>3, <1>6, <1>7, <1>8 DEF Follows

\* ... and carries all that the adapter knows now.
LEMMA PublishHistory ==
  ASSUME PipelineInv, NEW s, NEW level, NEW m, NEW rest, Says(s, level, m, rest),
         Publish(s, level, m, rest), market' = m, outbox' = rest, snapshot' = snapshot,
         taken' = taken
  PROVE  HistoryHolds'
<1> DEFINE new == Tick(s, level, m, told', rest)
<1>1. Types /\ HistoryHolds /\ \A r \in Sides : OutboxOf(r)
  BY DEF PipelineInv
<1>2. /\ told' \in [Sides -> Statuses]
      /\ \A r \in Sides : told'[r] = "batch" => outbox # {}
  BY <1>1, PublishTold
<1>3. /\ new \in FeedTicks
      /\ new.market = m /\ new.told = told' /\ new.rest = rest
      /\ new.snapshot_id = IF outbox = {} THEN 0 ELSE snapshot
  <2> DEFINE it == Tick(s, level, m, told', rest)
  <2> HIDE DEF new
  <2>1. /\ it \in FeedTicks
        /\ it.market = m /\ it.told = told' /\ it.rest = rest
        /\ it.snapshot_id = IF outbox = {} THEN 0 ELSE snapshot
    <3>1. it = Tick(s, level, m, told', rest)
      OBVIOUS
    <3> HIDE DEF it
    <3> QED
      BY <1>2, <3>1, PublishedTick
  <2> QED
    BY <2>1 DEF new
<1>4. Ring!Publish(new)
  BY DEF Publish
<1>5. new = Tick(s, level, m, told', rest)
  OBVIOUS
<1> HIDE DEF new
<1>6. /\ Len(queue) \in Nat /\ Len(queue') = Len(queue) + 1
      /\ DOMAIN queue = 1 .. Len(queue) /\ DOMAIN queue' = 1 .. Len(queue) + 1
      /\ \A i \in DOMAIN queue : queue'[i] = queue[i]
      /\ queue'[Len(queue) + 1] = new /\ out' = out
  BY <1>1, <1>3, <1>4, PublishFacts
<1>7. ASSUME NEW i \in DOMAIN queue
      PROVE  Previous(i)' = Previous(i)
  <2>1. CASE i = 1
    BY <1>6, <2>1 DEF Previous
  <2>2. CASE i # 1
    <3>1. i - 1 \in DOMAIN queue
      BY <1>6, <2>2
    <3> QED
      BY <1>6, <2>2, <3>1 DEF Previous
  <2> QED
    BY <2>1, <2>2
<1>8. ASSUME NEW i, i = Len(queue) + 1 PROVE Previous(i)' = Last
  <2>1. CASE Len(queue) = 0
    BY <1>6, <1>8, <2>1 DEF Previous, Last
  <2>2. CASE Len(queue) # 0
    <3>1. i - 1 = Len(queue) /\ i # 1 /\ Len(queue) \in DOMAIN queue
      BY <1>6, <1>8, <2>2
    <3> QED
      BY <1>6, <2>2, <3>1 DEF Previous, Last
  <2> QED
    BY <2>1, <2>2
<1>9. Sound(new) /\ Follows(taken + Len(queue) > 0, Last, new)
  <2> DEFINE known == taken + Len(queue) > 0
             last == Last
  <2>1. \A r \in Sides : Carries(known, last, Now, r)
    BY <1>1 DEF HistoryHolds
  <2> HIDE DEF known, last
  <2>2. Sound(new) /\ Follows(known, last, new)
    BY <1>5, <2>1, PublishedFollows
  <2> QED
    BY <2>2 DEF known, last
<1>10. ASSUME NEW i \in DOMAIN queue'
       PROVE  Sound(queue'[i]) /\ Follows(taken' + i > 1, Previous(i)', queue'[i])
  <2>1. CASE i \in DOMAIN queue
    BY <1>1, <1>6, <1>7, <2>1 DEF HistoryHolds
  <2>2. CASE i = Len(queue) + 1
    <3>1. (taken' + i > 1) = (taken + Len(queue) > 0) /\ queue'[i] = new
      BY <1>1, <1>6, <2>2 DEF Types
    <3>2. Previous(i)' = Last
      BY <1>8, <2>2
    <3> QED
      BY <1>9, <3>1, <3>2
  <2> QED
    BY <1>6, <2>1, <2>2
<1>11. ASSUME NEW r \in Sides
       PROVE  Carries(taken' + Len(queue') > 0, Last', Now', r)
  <2>1. taken' + Len(queue') > 0
    BY <1>1, <1>6 DEF Types
  <2>2. Last' = new
    BY <1>6 DEF Last
  <2>3. /\ Now'.told = told' /\ Now'.market = m /\ Now'.rest = rest
        /\ Now'.snapshot_id = snapshot
    BY DEF Now
  <2> QED
    BY <1>2, <1>3, <2>1, <2>2, <2>3 DEF Carries
<1> QED
  BY <1>10, <1>11 DEF HistoryHolds

\* A publish keeps the invariant.
LEMMA PublishKeeps ==
  ASSUME PipelineInv, NEW s, NEW level, NEW m, NEW rest, Says(s, level, m, rest),
         Publish(s, level, m, rest), nextSeq <= MaxSeq,
         nextSeq' = nextSeq + 1, market' = m, outbox' = rest,
         UNCHANGED <<snapshot, engineVars>>
  PROVE  PipelineInv'
<1>1. /\ Types /\ Numbered /\ Counted /\ GapsCounted /\ SnapshotsBounded
      /\ BookShows /\ \A r \in Sides : OutboxOf(r)
  BY DEF PipelineInv
<1>2. /\ told' \in [Sides -> Statuses]
      /\ \A r \in Sides : /\ told'[r] = "whole" => Left(rest, r) = {}
                          /\ told'[r] = "batch" => Left(rest, r) # {}
  BY <1>1, PublishTold
<1> DEFINE new == Tick(s, level, m, told', rest)
<1>3. new = Tick(s, level, m, told', rest) /\ Ring!Publish(new) /\ lost' = lost
  BY DEF Publish
<1> HIDE DEF new
<1>4. new \in FeedTicks /\ new.sequence = nextSeq /\ new.lost = lost
  BY <1>2, <1>3, PublishedTick
<1>5. /\ book' = book /\ ticks' = ticks /\ n' = n /\ pc' = pc /\ taken' = taken
      /\ skipped' = skipped /\ before' = before /\ since' = since /\ snapshot' = snapshot
  BY DEF engineVars, history
<1>6. /\ queue' \in Seq(FeedTicks) /\ Len(queue') <= RingSize
      /\ out' = out /\ refusals' = refusals
  BY <1>1, <1>3, <1>4, PublishFacts
<1>7. Types'
  BY <1>1, <1>2, <1>3, <1>5, <1>6 DEF Types, Says
<1>8. Numbered' /\ GapsCounted'
  BY <1>1, <1>3, <1>4, <1>5, PublishNumbered
<1>9. Counted' /\ BookShows'
  BY <1>1, <1>5, <1>6 DEF Counted, BookShows, Shows
<1>10. ASSUME NEW r \in Sides PROVE OutboxOf(r)'
  <2>1. Left(rest, r) \subseteq Items(m, r)
    BY <1>1, SaysStarts
  <2> QED
    BY <1>2, <2>1 DEF OutboxOf
<1>11. SnapshotsBounded'
  BY <1>1, <1>5, PipelineAssumption DEF SnapshotsBounded, Types
<1>12. SnapshotsInOrder'
  BY <1>2, <1>3, <1>5, PublishSnapshots
<1>13. HistoryHolds'
  BY <1>5, PublishHistory
<1> QED
  BY <1>7, <1>8, <1>9, <1>10, <1>11, <1>12, <1>13 DEF PipelineInv

\* So does whatever is sent, accepted or not.
LEMMA SendKeeps ==
  ASSUME PipelineInv, NEW s, NEW level, NEW m, NEW rest, Says(s, level, m, rest),
         Send(s, level, m, rest)
  PROVE  PipelineInv'
<1>1. /\ nextSeq <= MaxSeq /\ nextSeq' = nextSeq + 1 /\ market' = m /\ outbox' = rest
      /\ UNCHANGED <<snapshot, engineVars>>
      /\ Publish(s, level, m, rest) \/ Drop(s)
  BY DEF Send
<1>2. CASE Publish(s, level, m, rest)
  BY <1>1, <1>2, PublishKeeps
<1>3. CASE Drop(s)
  BY <1>1, <1>3, DropKeeps
<1> QED
  BY <1>1, <1>2, <1>3

\* A snapshot that begins is newer than all that was sent, and all of it is to
\* come.
LEMMA ResyncKeeps ==
  ASSUME PipelineInv, Resync
  PROVE  PipelineInv'
<1>1. /\ Types /\ Numbered /\ Counted /\ GapsCounted /\ SnapshotsBounded
      /\ SnapshotsInOrder /\ HistoryHolds /\ BookShows
  BY DEF PipelineInv
<1>2. /\ outbox = {} /\ nextSeq <= MaxSeq
      /\ outbox' = UNION {{<<s, level>> : level \in Items(market, s)} : s \in Sides}
      /\ snapshot' = snapshot + 1 /\ told' = [s \in Sides |-> "batch"]
      /\ market' = market /\ nextSeq' = nextSeq /\ lost' = lost
      /\ queue' = queue /\ out' = out /\ refusals' = refusals
      /\ book' = book /\ ticks' = ticks /\ n' = n /\ pc' = pc
      /\ taken' = taken /\ skipped' = skipped /\ before' = before /\ since' = since
  BY DEF Resync, ringVars, engineVars, history
<1>3. market \in Markets /\ \A s \in Sides : Items(market, s) \subseteq AllLevels
                                             /\ Items(market, s) # {}
  BY <1>1, ItemsOfMarket DEF Types
<1>4. \A s \in Sides : Left(outbox', s) = Items(market, s)
  BY <1>2, <1>3 DEF Left
<1>5. outbox' # {} /\ outbox' \in SUBSET (Sides \X AllLevels)
  <2>1. "Bid" \in Sides
    BY DEF Sides
  <2>2. PICK any : any \in Items(market, "Bid")
    BY <1>3, <2>1
  <2>3. <<"Bid", any>> \in outbox'
    BY <1>2, <2>1, <2>2
  <2>4. ASSUME NEW item \in outbox' PROVE item \in Sides \X AllLevels
    <3>1. PICK s \in Sides : item \in {<<s, level>> : level \in Items(market, s)}
      BY <1>2
    <3>2. PICK it \in Items(market, s) : item = <<s, it>>
      BY <3>1
    <3> QED
      BY <1>3, <3>2
  <2> QED
    BY <2>3, <2>4
<1>6. Types'
  BY <1>1, <1>2, <1>5 DEF Types, Statuses
<1>7. Numbered' /\ Counted' /\ GapsCounted' /\ BookShows'
  BY <1>1, <1>2 DEF Numbered, Counted, GapsCounted, BookShows, Shows
<1>8. \A s \in Sides : OutboxOf(s)'
  BY <1>2, <1>3, <1>4 DEF OutboxOf
<1>9. SnapshotsBounded'
  BY <1>1, <1>2, <1>5, PipelineAssumption DEF SnapshotsBounded, Types
<1>10. SnapshotsInOrder'
  <2>1. snapshot \in Nat /\ \A i \in DOMAIN queue : queue[i].snapshot_id \in Nat
    <3>1. \A i \in DOMAIN queue : queue[i] \in FeedTicks
      BY <1>1 DEF Types
    <3> QED
      BY <1>1, <3>1, TickParts DEF Types
  <2>2. \A s \in Sides : book.snapshot_id[s] \in Nat
    BY <1>1, PipelineAssumption DEF Types, IsBook, AnyBook
  <2>3. ASSUME NEW s \in Sides
        PROVE  /\ book.snapshot_id[s] = NoSnapshotId \/ book.snapshot_id[s] <= snapshot'
               /\ Fresh(book.snapshot_id[s], snapshot')
               /\ \A i \in DOMAIN queue : Older(queue[i], s, snapshot')
    BY <1>1, <1>2, <2>1, <2>2 DEF SnapshotsInOrder, Fresh, Older
  <2>4. ASSUME NEW i \in DOMAIN queue
        PROVE  /\ queue[i].snapshot_id <= snapshot'
               /\ Starts(queue[i]) =>
                    /\ Fresh(book.snapshot_id[queue[i].side], queue[i].snapshot_id)
                    /\ \A j \in 1 .. i - 1 :
                         Older(queue[j], queue[i].side, queue[i].snapshot_id)
    BY <1>1, <1>2, <2>1 DEF SnapshotsInOrder
  <2> QED
    BY <1>2, <2>3, <2>4 DEF SnapshotsInOrder
<1>11. HistoryHolds'
  <2>1. \A i \in DOMAIN queue : Previous(i)' = Previous(i)
    BY <1>2 DEF Previous
  <2>2. \A s \in Sides : Carries(taken' + Len(queue') > 0, Last', Now', s)
    BY <1>2, <1>4 DEF Carries, Now
  <2> QED
    BY <1>1, <1>2, <2>1, <2>2 DEF HistoryHolds
<1> QED
  BY <1>6, <1>7, <1>8, <1>9, <1>10, <1>11 DEF PipelineInv

\* An adapter that spins has said nothing.
LEMMA SpinKeeps ==
  ASSUME PipelineInv, Spin
  PROVE  PipelineInv'
<1>1. /\ queue' = queue /\ out' = out /\ refusals' = (refusals + 1) % Wrap
      /\ UNCHANGED <<adapterVars, engineVars>>
  BY DEF Spin, Ring!Refuse
<1>2. refusals' \in 0 .. Wrap - 1
  BY <1>1, PipelineAssumption, DivisionWithRemainder DEF PipelineInv, Types
<1> USE <1>1 DEF PipelineInv, adapterVars, engineVars, history
<1>3. Types'
  BY <1>2 DEF Types
<1>4. Numbered' /\ Counted' /\ GapsCounted'
  BY DEF Numbered, Counted, GapsCounted
<1>5. (\A s \in Sides : OutboxOf(s)') /\ SnapshotsBounded' /\ SnapshotsInOrder'
  BY DEF OutboxOf, SnapshotsBounded, SnapshotsInOrder
<1>6. HistoryHolds' /\ BookShows'
  <2>1. \A i \in DOMAIN queue : Previous(i)' = Previous(i)
    BY DEF Previous
  <2>2. Last' = Last /\ Now' = Now
    BY DEF Last, Now
  <2> QED
    BY <2>1, <2>2 DEF HistoryHolds, BookShows, Shows
<1> QED
  BY <1>3, <1>4, <1>5, <1>6

------------------------------------------------------------------------------
(***************************************************************************)
(* The engine counts.                                                      *)
(***************************************************************************)

\* One more tick, counted at once: the difference is the same.
LEMMA RunOneCounted ==
  ASSUME Types, Counted, pc = "idle", taken' = taken + 1, ticks' = ticks + 1,
         UNCHANGED <<n, pc>>
  PROVE  Counted'
<1>1. taken \in Nat /\ ticks \in Nat /\ n \in Nat
  BY PipelineAssumption DEF Types
<1>2. taken' - ticks' - n' = taken - ticks - n
  BY <1>1
<1> QED
  BY <1>2 DEF Counted

\* One more tick of a batch: the same again, but for a count of 2^32 that wraps.
LEMMA BatchTickCounted ==
  ASSUME Types, Counted, pc = "batch", taken' = taken + 1, n' = (n + 1) % BatchWrap,
         UNCHANGED <<ticks, pc>>
  PROVE  Counted' /\ n' \in 0 .. BatchWrap - 1
<1>1. /\ taken \in Nat /\ ticks \in Nat /\ n \in 0 .. BatchWrap - 1
      /\ BatchWrap \in Nat /\ BatchWrap > 0
  BY PipelineAssumption DEF Types
<1>2. CASE n + 1 < BatchWrap
  <2>1. n' = n + 1
    <3>1. n + 1 = BatchWrap * 0 + (n + 1) /\ n + 1 \in 0 .. BatchWrap - 1
      BY <1>1, <1>2
    <3> QED
      BY <1>1, <3>1, RemainderUnique
  <2>2. taken' - ticks' - n' = taken - ticks - n
    BY <1>1, <2>1
  <2> QED
    BY <1>1, <1>2, <2>1, <2>2 DEF Counted
<1>3. CASE n + 1 = BatchWrap
  <2>1. n' = 0
    <3>1. BatchWrap = BatchWrap * 1 + 0 /\ 0 \in 0 .. BatchWrap - 1
      BY <1>1
    <3> QED
      BY <1>1, <1>3, <3>1, RemainderUnique
  <2>2. taken' - ticks' - n' = (taken - ticks - n) + BatchWrap * 1
    BY <1>1, <1>3, <2>1
  <2>3. taken - ticks - n \in Int
    BY <1>1
  <2>4. ((taken - ticks - n) + BatchWrap * 1) % BatchWrap = (taken - ticks - n) % BatchWrap
    <3> DEFINE d == taken - ticks - n
               q == d \div BatchWrap
               r == d % BatchWrap
    <3>1. q \in Int /\ r \in 0 .. BatchWrap - 1 /\ d = BatchWrap * q + r
      BY <1>1, <2>3, DivisionWithRemainder
    <3> HIDE DEF d, q, r
    <3>2. q + 1 \in Int /\ d + BatchWrap * 1 = BatchWrap * (q + 1) + r
      BY <1>1, <3>1
    <3>3. (d + BatchWrap * 1) % BatchWrap = r
      BY <1>1, <3>1, <3>2, RemainderUnique
    <3> QED
      BY <3>3 DEF d, r
  <2> QED
    BY <1>1, <2>1, <2>2, <2>4 DEF Counted
<1> QED
  BY <1>1, <1>2, <1>3

\* A tick taken keeps the invariant, however the engine counts it.
LEMMA ConsumeKeeps ==
  ASSUME PipelineInv, Consume, Counted',
         ticks' \in Nat, n' \in 0 .. BatchWrap - 1, pc' \in {"idle", "batch"}
  PROVE  PipelineInv'
<1>1. /\ queue' \in Seq(FeedTicks) /\ Len(queue') <= RingSize
      /\ refusals' \in 0 .. Wrap - 1
      /\ IsBook(book') /\ taken' = taken + 1 /\ skipped' \in Nat
      /\ before' \in Nat \cup {None} /\ since' \in Nat \cup {None}
      /\ UNCHANGED adapterVars
      /\ Numbered' /\ GapsCounted' /\ SnapshotsInOrder' /\ HistoryHolds' /\ BookShows'
  BY TakeStep
<1>2. Types /\ SnapshotsBounded /\ \A s \in Sides : OutboxOf(s)
  BY DEF PipelineInv
<1>3. Types'
  BY <1>1, <1>2 DEF Types, adapterVars
<1>4. SnapshotsBounded' /\ \A s \in Sides : OutboxOf(s)'
  BY <1>1, <1>2 DEF SnapshotsBounded, OutboxOf, adapterVars
<1> QED
  BY <1>1, <1>3, <1>4 DEF PipelineInv

\* A batch that begins or ends moves only the counts.
LEMMA CountKeeps ==
  ASSUME PipelineInv, Counted', ticks' \in Nat, n' \in 0 .. BatchWrap - 1,
         pc' \in {"idle", "batch"}, UNCHANGED <<book, history, ringVars, adapterVars>>
  PROVE  PipelineInv'
<1> USE DEF PipelineInv, adapterVars, ringVars, history
<1>1. Types'
  BY DEF Types
<1>2. Numbered' /\ GapsCounted'
  BY DEF Numbered, GapsCounted
<1>3. (\A s \in Sides : OutboxOf(s)') /\ SnapshotsBounded' /\ SnapshotsInOrder'
  BY DEF OutboxOf, SnapshotsBounded, SnapshotsInOrder
<1>4. HistoryHolds' /\ BookShows'
  <2>1. \A i \in DOMAIN queue : Previous(i)' = Previous(i)
    BY DEF Previous
  <2>2. Last' = Last /\ Now' = Now
    BY DEF Last, Now
  <2> QED
    BY <2>1, <2>2 DEF HistoryHolds, BookShows, Shows
<1> QED
  BY <1>1, <1>2, <1>3, <1>4

------------------------------------------------------------------------------
(***************************************************************************)
(* The inductive invariant.                                                *)
(***************************************************************************)

\* A feed that has not begun.
LEMMA PipelineInit == Init => PipelineInv
<1> SUFFICES ASSUME Init PROVE PipelineInv
  OBVIOUS
<1>1. /\ queue = << >> /\ out = NoTick /\ refusals = 0 /\ book = NewBook
      /\ ticks = 0 /\ n = 0 /\ pc = "idle" /\ outbox = {} /\ snapshot = 0 /\ nextSeq = 1
      /\ told = [s \in Sides |-> "lost"] /\ lost = 0 /\ taken = 0 /\ skipped = 0
      /\ before = None /\ since = None /\ market \in Markets
  BY DEF Init, Ring!Init
<1>2. queue \in Seq(FeedTicks) /\ Len(queue) = 0 /\ DOMAIN queue = {}
  BY <1>1
<1>3. IsBook(book)
  BY <1>1, NewBookIsBook
<1>4. Types
  BY <1>1, <1>2, <1>3, PipelineAssumption DEF Types, Statuses
<1>5. Numbered /\ GapsCounted
  BY <1>1, <1>2 DEF Numbered, GapsCounted, NewBook
<1>6. Counted
  <2>1. 0 % BatchWrap = 0
    BY PipelineAssumption
  <2> QED
    BY <1>1, <2>1 DEF Counted
<1>7. \A s \in Sides : Left(outbox, s) = {} /\ Items(market, s) # {}
  BY <1>1, ItemsOfMarket DEF Left
<1>8. \A s \in Sides : OutboxOf(s)
  BY <1>1, <1>7 DEF OutboxOf
<1>9. SnapshotsBounded
  BY <1>1, PipelineAssumption DEF SnapshotsBounded
<1>10. SnapshotsInOrder
  BY <1>1, <1>2, <1>7 DEF SnapshotsInOrder, NewBook
<1>11. HistoryHolds /\ BookShows
  BY <1>1, <1>2 DEF HistoryHolds, BookShows, Carries, Now
<1> QED
  BY <1>4, <1>5, <1>6, <1>8, <1>9, <1>10, <1>11 DEF PipelineInv

\* Every step keeps the invariant.
LEMMA PipelineStep == PipelineInv /\ [Next]_vars => PipelineInv'
<1> SUFFICES ASSUME PipelineInv, [Next]_vars PROVE PipelineInv'
  OBVIOUS
<1>0. Types /\ Counted
  BY DEF PipelineInv
<1>1. ASSUME NEW s \in Sides, NEW price \in Prices, NEW qty \in Qtys, Quote(s, price, qty)
      PROVE  PipelineInv'
  BY <1>0, <1>1, QuoteSays, SendKeeps
<1>2. CASE Resync
  BY <1>2, ResyncKeeps
<1>3. CASE SnapshotLevel
  <2>1. PICK item \in outbox : Send(item[1], item[2], market, outbox \ {item})
    BY <1>3 DEF SnapshotLevel
  <2> QED
    BY <1>0, <2>1, SnapshotSays, SendKeeps
<1>4. CASE Spin
  BY <1>4, SpinKeeps
<1>5. CASE RunOne
  <2>1. Consume /\ taken' = taken + 1 /\ ticks' = ticks + 1 /\ UNCHANGED <<n, pc>> /\ pc = "idle"
    BY <1>5 DEF RunOne, Consume
  <2>2. Counted'
    BY <1>0, <2>1, RunOneCounted
  <2> QED
    BY <1>0, <2>1, <2>2, ConsumeKeeps DEF Types
<1>6. CASE BeginBatch
  <2>1. /\ pc = "idle" /\ pc' = "batch" /\ n' = 0 /\ ticks' = ticks
        /\ UNCHANGED <<book, history, ringVars, adapterVars>> /\ taken' = taken
    BY <1>6 DEF BeginBatch, history
  <2>2. Counted'
    BY <1>0, <2>1 DEF Counted
  <2>3. 0 \in 0 .. BatchWrap - 1
    BY PipelineAssumption
  <2> QED
    BY <1>0, <2>1, <2>2, <2>3, CountKeeps DEF Types
<1>7. CASE BatchTick
  <2>1. /\ Consume /\ taken' = taken + 1 /\ n' = (n + 1) % BatchWrap
        /\ UNCHANGED <<ticks, pc>> /\ pc = "batch"
    BY <1>7 DEF BatchTick, Consume
  <2>2. Counted' /\ n' \in 0 .. BatchWrap - 1
    BY <1>0, <2>1, BatchTickCounted
  <2> QED
    BY <1>0, <2>1, <2>2, ConsumeKeeps DEF Types
<1>8. CASE EndBatch
  <2>1. /\ ticks' = ticks + n /\ n' = 0 /\ pc' = "idle"
        /\ UNCHANGED <<book, history, ringVars, adapterVars>> /\ taken' = taken
    BY <1>8 DEF EndBatch, history
  <2>2. ticks \in Nat /\ n \in 0 .. BatchWrap - 1 /\ BatchWrap \in Nat /\ taken \in Nat
    BY <1>0, PipelineAssumption DEF Types
  <2>3. taken' - ticks' - n' = taken - ticks - n /\ ticks' \in Nat /\ n' \in 0 .. BatchWrap - 1
    BY <2>1, <2>2
  <2>4. Counted'
    BY <1>0, <2>1, <2>3 DEF Counted
  <2> QED
    BY <2>1, <2>3, <2>4, CountKeeps
<1>9. CASE UNCHANGED vars
  <2>1. /\ UNCHANGED <<book, history, ringVars, adapterVars>>
        /\ ticks' = ticks /\ n' = n /\ pc' = pc /\ taken' = taken
    BY <1>9 DEF vars, engineVars, history
  <2>2. Counted'
    BY <1>0, <2>1 DEF Counted
  <2> QED
    BY <1>0, <2>1, <2>2, CountKeeps DEF Types
<1> QED
  BY <1>1, <1>2, <1>3, <1>4, <1>5, <1>6, <1>7, <1>8, <1>9 DEF Next, Adapter, Engine

\* The invariant holds throughout.
LEMMA PipelineInvariant == Spec => []PipelineInv
  BY PipelineInit, PipelineStep, PTL DEF Spec

------------------------------------------------------------------------------
(***************************************************************************)
(* The theorems.                                                           *)
(***************************************************************************)

\* The types of the composition of ring, engine and adapter: the ring is never
\* over its capacity, the market never crossed, and the sides of the book are
\* sides.
THEOREM PipelineTypeCorrect == Spec => []TypeOK
<1>1. PipelineInv => TypeOK
  BY DEF PipelineInv, Types, TypeOK, IsBook, AnyBook, IsSide, Statuses
<1> QED
  BY <1>1, PipelineInvariant, PTL

\* Every tick of the feed is in the ring, dropped at a full ring, or taken and
\* counted, in the order of the feed, for any capacity and any width of the count
\* that run_batch returns.
THEOREM Accounted == Spec => []NothingUnaccounted
<1>1. PipelineInv => NothingUnaccounted
  <2> SUFFICES ASSUME PipelineInv PROVE NothingUnaccounted
    OBVIOUS
  <2>1. Types /\ Numbered /\ Counted /\ GapsCounted
    BY DEF PipelineInv
  <2>2. \A i \in DOMAIN queue : queue[i].lost \in Nat /\ i \in Nat /\ i > 0
    <3>1. \A i \in DOMAIN queue : queue[i] \in FeedTicks /\ i \in Nat /\ i > 0
      BY <2>1 DEF Types
    <3> QED
      BY <3>1, TickParts
  <2>3. /\ taken \in Nat /\ book.sequence \in Nat /\ book.sequence_initialized \in BOOLEAN
        /\ since \in Nat \cup {None}
    BY <2>1 DEF Types, IsBook, AnyBook
  <2>4. ASSUME NEW i \in DOMAIN queue, NEW j \in DOMAIN queue, i < j
        PROVE  queue[i].sequence < queue[j].sequence
    <3>1. /\ queue[i].sequence = taken + i + queue[i].lost
          /\ queue[j].sequence = taken + j + queue[j].lost
          /\ queue[i].lost <= queue[j].lost
      BY <2>1, <2>4 DEF Numbered
    <3>2. i \in Nat /\ j \in Nat /\ queue[i].lost \in Nat /\ queue[j].lost \in Nat
      BY <2>2
    <3> QED
      BY <2>3, <2>4, <3>1, <3>2
  <2>5. ASSUME NEW i \in DOMAIN queue PROVE book.sequence < queue[i].sequence
    BY <2>1, <2>2, <2>3 DEF Numbered, GapsCounted
  <2> QED
    BY <2>1, <2>4, <2>5 DEF NothingUnaccounted, Numbered, Counted
<1> QED
  BY <1>1, PipelineInvariant, PTL

\* A tick lost between two that changed the book is counted as a gap, a gap is a
\* tick lost or one that changed nothing, and nothing is ever a reorder.
THEOREM LossesShow == Spec => []GapsAreLosses
<1>1. PipelineInv => GapsAreLosses
  <2> SUFFICES ASSUME PipelineInv PROVE GapsAreLosses
    OBVIOUS
  <2>1. Types /\ GapsCounted
    BY DEF PipelineInv
  <2>2. /\ book.sequence \in Nat /\ book.sequence_gaps \in Nat
        /\ book.sequence_initialized \in BOOLEAN
        /\ taken \in Nat /\ skipped \in Nat
    BY <2>1 DEF Types, IsBook, AnyBook
  <2>3. CASE book.sequence_initialized
    BY <2>1, <2>2, <2>3 DEF GapsCounted, GapsAreLosses
  <2>4. CASE ~ book.sequence_initialized
    BY <2>1, <2>2, <2>4 DEF GapsCounted, GapsAreLosses, None
  <2> QED
    BY <2>2, <2>3, <2>4
<1> QED
  BY <1>1, PipelineInvariant, PTL

\* What BookShows says of the last tick taken.
LEMMA WholeSides ==
  PipelineInv => /\ WholeSideIsTheMarket
                 /\ out # NoTick => out.market \in Markets
<1> SUFFICES ASSUME PipelineInv
             PROVE  /\ WholeSideIsTheMarket
                    /\ out # NoTick => out.market \in Markets
  OBVIOUS
<1>1. BookShows
  BY DEF PipelineInv
<1> QED
  BY <1>1, TickParts DEF BookShows, Shows, WholeSideIsTheMarket

\* A side all of whose ticks since its last snapshot got through shows the market:
\* the interplay of the snapshot ids, the order of the ring, apply_delta and what
\* was lost before, or on the other side.
THEOREM WholeSideShowsMarket == Spec => []WholeSideIsTheMarket
  BY WholeSides, PipelineInvariant, PTL

\* A market is not crossed, so neither is a book with both sides whole, and best()
\* and spread() say what the market would.
THEOREM QuotesAreRight == Spec => []QuotesAreTheMarket
<1>1. PipelineInv => QuotesAreTheMarket
  <2> SUFFICES ASSUME PipelineInv, out # NoTick, \A s \in Sides : out.told[s] = "whole"
               PROVE  /\ ~ IsCrossed(book)
                      /\ LET bids == Quoted(out.market, "Bid")
                             asks == Quoted(out.market, "Ask")
                         IN  IF bids = {} \/ asks = {}
                               THEN Spread(book) = NoSpread
                               ELSE \E bid \in bids, ask \in asks :
                                      /\ Spread(book) = ask - bid
                                      /\ \A b \in bids, a \in asks : a - b >= ask - bid
    BY DEF QuotesAreTheMarket
  <2> DEFINE m == out.market
             bids == Quoted(m, "Bid")
             asks == Quoted(m, "Ask")
             bid == book.sides["Bid"]
             ask == book.sides["Ask"]
  <2>1. m \in Markets /\ "Bid" \in Sides /\ "Ask" \in Sides
    BY WholeSides DEF Sides
  <2>2. Levels(bid) = Shown(m, "Bid") /\ Levels(ask) = Shown(m, "Ask")
    BY <2>1, WholeSides DEF WholeSideIsTheMarket
  <2>3. Good(bid, TRUE) /\ Good(ask, FALSE)
    <3>1. /\ IsSide(bid) /\ IsSorted(bid, "Bid" = "Bid")
          /\ IsSide(ask) /\ IsSorted(ask, "Ask" = "Bid")
      BY <2>1 DEF PipelineInv, Types, IsBook, AnyBook, IsSide
    <3>2. ("Bid" = "Bid") = TRUE /\ ("Ask" = "Bid") = FALSE
      OBVIOUS
    <3> QED
      BY <3>1, <3>2 DEF Good
  <2>4. \A b \in bids, a \in asks : b < a /\ b \in Nat /\ a \in Nat
    BY <2>1, SideAssumption DEF Markets, Quoted
  <2> HIDE DEF m, bid, ask
  <2>5. /\ bid.count \in Nat /\ ask.count \in Nat
        /\ bids = {bid.levels[i].price : i \in 0 .. bid.count - 1}
        /\ asks = {ask.levels[i].price : i \in 0 .. ask.count - 1}
    <3>1. bid.count \in Nat /\ ask.count \in Nat
      BY <2>3, SideParts DEF Good
    <3>2. \A s : Quoted(m, s) = {level.price : level \in Shown(m, s)}
      <4>1. ASSUME NEW s PROVE Quoted(m, s) \subseteq {level.price : level \in Shown(m, s)}
        <5>1. ASSUME NEW p \in Quoted(m, s)
              PROVE  \E level \in Shown(m, s) : p = level.price
          <6>1. Level(p, m[s][p]) \in Shown(m, s) /\ Level(p, m[s][p]).price = p
            BY DEF Shown, Level
          <6> QED
            BY <6>1
        <5> QED
          BY <5>1
      <4>2. ASSUME NEW s, NEW level \in Shown(m, s) PROVE level.price \in Quoted(m, s)
        BY DEF Shown, Level
      <4> QED
        BY <4>1, <4>2
    <3>3. /\ bids = {level.price : level \in Levels(bid)}
          /\ asks = {level.price : level \in Levels(ask)}
      BY <2>2, <3>2
    <3> QED
      BY <3>1, <3>3 DEF Levels
  <2>6. CASE bid.count = 0 \/ ask.count = 0
    <3>1. bids = {} \/ asks = {}
      BY <2>5, <2>6
    <3>2. ~ IsCrossed(book) /\ Spread(book) = NoSpread
      BY <2>6 DEF IsCrossed, Spread, Best, bid, ask
    <3> QED
      BY <3>1, <3>2 DEF m
  <2>7. CASE bid.count > 0 /\ ask.count > 0
    <3> DEFINE b0 == bid.levels[0].price
               a0 == ask.levels[0].price
    <3>1. 0 \in 0 .. bid.count - 1 /\ 0 \in 0 .. ask.count - 1
      BY <2>5, <2>7
    <3>2. b0 \in bids /\ a0 \in asks
      BY <2>5, <3>1
    <3>3. b0 < a0 /\ b0 \in Nat /\ a0 \in Nat
      BY <2>4, <3>2
    <3>4. /\ \A i \in 0 .. bid.count - 1 : i > 0 => b0 > bid.levels[i].price
          /\ \A i \in 0 .. ask.count - 1 : i > 0 => a0 < ask.levels[i].price
      BY <2>3, <3>1 DEF Good, IsSorted, Before
    <3>5. /\ \A b \in bids : b <= b0
          /\ \A a \in asks : a0 <= a
      <4>1. ASSUME NEW b \in bids PROVE b <= b0
        <5>1. PICK i \in 0 .. bid.count - 1 : b = bid.levels[i].price
          BY <2>5
        <5>2. b \in Nat
          BY <2>4, <3>2
        <5> QED
          BY <2>5, <3>3, <3>4, <5>1, <5>2
      <4>2. ASSUME NEW a \in asks PROVE a0 <= a
        <5>1. PICK i \in 0 .. ask.count - 1 : a = ask.levels[i].price
          BY <2>5
        <5>2. a \in Nat
          BY <2>4, <3>2
        <5> QED
          BY <2>5, <3>3, <3>4, <5>1, <5>2
      <4> QED
        BY <4>1, <4>2
    <3>6. Best(bid) = {bid.levels[0]} /\ Best(ask) = {ask.levels[0]}
      BY <2>7 DEF Best
    <3>7. ~ IsCrossed(book) /\ Spread(book) = a0 - b0
      BY <3>3, <3>6 DEF IsCrossed, Spread, bid, ask
    <3>8. \A b \in bids, a \in asks : a - b >= a0 - b0
      BY <2>4, <3>3, <3>5
    <3> HIDE DEF a0, b0
    <3>9. \E x \in bids, y \in asks : /\ Spread(book) = y - x
                                      /\ \A b \in bids, a \in asks : a - b >= y - x
      BY <3>2, <3>7, <3>8
    <3> QED
      BY <3>2, <3>7, <3>9 DEF m
  <2> QED
    BY <2>5, <2>6, <2>7
<1> QED
  BY <1>1, PipelineInvariant, PTL

------------------------------------------------------------------------------
(***************************************************************************)
(* The ring of the pipeline.  SpscDisruptor implements the queue of which  *)
(* these are the ticks, so that the two fit together.                      *)
(***************************************************************************)
Queue == INSTANCE BoundedQueue WITH Ticks <- FeedTicks, Capacity <- RingSize

\* Whatever is sent is a tick of the feed.
LEMMA SendIsPublish ==
  ASSUME Types, Types', NEW s, NEW level, NEW m, NEW rest, Send(s, level, m, rest)
  PROVE  Queue!Next
<1>1. CASE Drop(s)
  BY <1>1 DEF Drop, Ring!Refuse, Queue!Refuse, Queue!Next
<1>2. CASE Publish(s, level, m, rest)
  <2> DEFINE new == Tick(s, level, m, told', rest)
  <2>1. Ring!Publish(new)
    BY <1>2 DEF Publish
  <2> HIDE DEF new
  <2>2. queue \in Seq(FeedTicks) /\ queue' \in Seq(FeedTicks) /\ queue' = Append(queue, new)
    BY <2>1 DEF Types, Ring!Publish
  <2>3. Len(queue') = Len(queue) + 1 /\ queue'[Len(queue) + 1] = new
    BY <2>2
  <2>4. new \in FeedTicks
    BY <2>2, <2>3
  <2> QED
    BY <2>1, <2>4 DEF Ring!Publish, Queue!Publish, Queue!Next
<1> QED
  BY <1>1, <1>2 DEF Send

\* One case per action; only Send, Spin and Consume touch the ring.
LEMMA StepOfQueue ==
  ASSUME PipelineInv, PipelineInv', [Next]_vars
  PROVE  [Queue!Next]_(Queue!vars)
<1>0. Types /\ Types'
  BY DEF PipelineInv
<1>1. ASSUME NEW s \in Sides, NEW price \in Prices, NEW qty \in Qtys, Quote(s, price, qty)
      PROVE  Queue!Next
  <2>1. \E m : Send(s, Level(price, qty), m, {})
    BY <1>1 DEF Quote
  <2> QED
    BY <1>0, <2>1, SendIsPublish
<1>2. CASE SnapshotLevel
  <2>1. \E item \in outbox : Send(item[1], item[2], market, outbox \ {item})
    BY <1>2 DEF SnapshotLevel
  <2> QED
    BY <1>0, <2>1, SendIsPublish
<1>3. CASE Spin
  BY <1>3 DEF Spin, Ring!Refuse, Queue!Refuse, Queue!Next
<1>4. CASE Consume
  BY <1>4 DEF Consume, Ring!Take, Queue!Take, Queue!Next
<1>5. CASE UNCHANGED ringVars
  BY <1>5 DEF ringVars, Queue!vars
<1> QED
  BY <1>1, <1>2, <1>3, <1>4, <1>5
     DEF Next, Adapter, Engine, Resync, RunOne, BeginBatch, BatchTick, EndBatch, vars

\* The adapter and the engine do nothing to the ring but publish, be refused and
\* take: what SpscDisruptor was shown to implement is all that the pipeline uses.
THEOREM RingIsBoundedQueue == Spec => Queue!Spec
<1>1. Init => Queue!Init
  BY DEF Init, Ring!Init, Queue!Init
<1> QED
  BY <1>1, StepOfQueue, PipelineInvariant, PTL DEF Spec, Queue!Spec

=============================================================================
