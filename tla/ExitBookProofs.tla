----------------------------- MODULE ExitBookProofs -----------------------------
(***************************************************************************)
(* Proofs about what an exit does to the venues' books and to the rows, for*)
(* any sizes, floors and bounds and any number of callers of which one     *)
(* replaces the task at a time: which orders may rest (NoOrderOutlivesExit)*)
(* that the rows account for every fill (RowsMatchAtRest), that what they  *)
(* call closed is flat (ClosedMeansFlat), that no hedge is sold            *)
(* (SpotCoversPerp) and no naked spot left unreported (NakedSpotIsReported)*)
(* and what all of it is to who sees the account only (LegsDown).          *)
(***************************************************************************)
EXTENDS ExitProofs

\* No fault that leaves an order of an exit without a task that knows it.
NoOrphans ==
    ExitFaults \cap {"slow_stops", "cut_request", "place_ambiguous", "poll_fails", "cancel_fails"} = {}

\* No outcome of a taker leg stays unknown.
LegsKnown == taker => "leg_ambiguous" \notin ExitFaults

\* What the venue filled and the rows do not say yet.
Unseen(f) == IF f.oid = 0 THEN 0 ELSE exec[f.oid] - f.seen
LegFlight(l) == IF l.at \in {"done", "ambiguous"} THEN l.fill ELSE 0
SaleFlight(s) == IF s.at \in {"sent", "ambiguous"} THEN s.fill ELSE 0
PerpFlight(f) == LegFlight(f.perpLeg)
SpotFlight(f) == SaleFlight(f.sale) + LegFlight(f.spotLeg)

\* By how much the rows exceed the venue and what is on its way to them.
PerpOver == dbPerp - vPerp - (Unseen(Current) + PerpFlight(Current))
SpotOver == dbSpot - vSpot - SpotFlight(Current)

\* An order fills no more than its size, and none that the venue never had; the
\* one at hand is for what the rows say is left above the floor.
Orders ==
    /\ \A o \in Order : exec[o] <= oqty[o]
    /\ \A o \in Order : ost[o] \in {"none", "sent", "rejected"} => exec[o] = 0
    /\ \A o \in Order : o > placed => ost[o] = "none"
    /\ Current.oid # 0 => oqty[Current.oid] - Current.seen <= dbPerp - Current.floor

\* A passive run is one that was asked for, or someone is about to cancel it.
Wanted ==
    Current.kind = "passive" /\ ~Current.dying =>
        mode = "passive" \/ \E c \in Callers : caller[c].pc \in {"stops", "cancel"}

\* The order that rests is the one of the task that works.
Owned ==
    /\ \A o \in Order : OrderLive(o) => Current.oid = o
    /\ Current.oid # 0 /\ Current.pc # "placing" => ost[Current.oid] \in {"open", "filled"}
    /\ Wanted

\* What makes the rows exact.
PerpClean == NoOrphans /\ adl = 0 /\ LegsKnown
SpotClean == ExitFaults \cap {"sale_ambiguous", "cut_request"} = {} /\ LegsKnown

\* The rows never say less than the venues hold, and say it exactly unless an
\* outcome was lost.
Books ==
    /\ PerpOver >= 0 /\ (PerpClean => PerpOver = 0)
    /\ SpotOver >= 0 /\ (SpotClean => SpotOver = 0)

\* No buy-back opens a long.
ShortKept == PerpClean => vPerp >= 0

BookInv == Orders /\ (NoOrphans => Owned) /\ Books /\ ShortKept

-------------------------------------------------------------------------------
LEMMA FlightNat ==
    ASSUME NEW f \in TaskType
    PROVE  /\ PerpFlight(f) \in Nat /\ SpotFlight(f) \in Nat
           /\ LegFlight(f.perpLeg) \in Nat /\ LegFlight(f.spotLeg) \in Nat /\ SaleFlight(f.sale) \in Nat
<1>1. f.perpLeg.fill \in Nat /\ f.spotLeg.fill \in Nat /\ f.sale.fill \in Nat
  BY DEF TaskType, LegType, SaleType
<1>2. /\ LegFlight(f.perpLeg) \in Nat /\ LegFlight(f.spotLeg) \in Nat /\ SaleFlight(f.sale) \in Nat
  BY <1>1 DEF LegFlight, SaleFlight
<1> QED
  BY <1>2 DEF PerpFlight, SpotFlight

LEMMA NothingInFlight ==
    /\ LegFlight(NoLeg) = 0 /\ SaleFlight(NoSale) = 0
    /\ \A f : Calm(f) => PerpFlight(f) = 0 /\ SpotFlight(f) = 0
    /\ PerpFlight(Unborn) = 0 /\ SpotFlight(Unborn) = 0 /\ Unborn.oid = 0
<1>1. LegFlight(NoLeg) = 0 /\ SaleFlight(NoSale) = 0
  BY UnbornShape DEF LegFlight, SaleFlight
<1>2. \A f : Calm(f) => PerpFlight(f) = 0 /\ SpotFlight(f) = 0
  BY <1>1 DEF Calm, PerpFlight, SpotFlight
<1>3. Calm(Unborn)
  BY UnbornShape DEF Calm
<1> QED
  BY <1>1, <1>2, <1>3, UnbornShape

\* A reduce-only fill leaves the short what it is, or smaller.
LEMMA FillWithinShort ==
    ASSUME NEW need \in Int, NEW short \in Int, NEW k \in Nat,
           k <= Min({need, AtLeast0(short)}), short >= 0
    PROVE  short - k >= 0
<1>1. AtLeast0(short) = short
  <2>1. Max({0, short}) \in {0, short} /\ Max({0, short}) >= short
    BY LargerOf
  <2> QED
    BY <2>1 DEF AtLeast0
<1>2. Min({need, short}) \in {need, short} /\ Min({need, short}) <= short
  BY SmallerOf
<1>3. Min({need, short}) \in Int
  BY <1>2
<1> QED
  BY <1>1, <1>2, <1>3

LEMMA CurrentTyped ==
    ASSUME RegistryInv
    PROVE  Current \in TaskType
<1>1. Unborn \in TaskType
  BY UnbornOK DEF FrameOK
<1> QED
  BY <1>1 DEF Current, RegistryInv, Registry

LEMMA NextTyped ==
    ASSUME RegistryInv'
    PROVE  /\ Current' \in TaskType
           /\ dbPerp' \in Int /\ dbSpot' \in Int /\ vPerp' \in Int /\ vSpot' \in Nat /\ adl' \in Nat
<1>1. Unborn \in TaskType
  BY UnbornOK DEF FrameOK
<1> QED
  BY <1>1 DEF Current, RegistryInv, Registry, World

\* The order at hand, and what it has filled.
LEMMA OrderAtHand ==
    ASSUME RegistryInv, ShapeInv
    PROVE  /\ Unseen(Current) \in Nat
           /\ Current.oid # 0 => /\ Current.oid \in Order /\ Current.kind = "passive" /\ HasTask
                                 /\ Current.seen \in Nat /\ exec[Current.oid] \in Nat
                                 /\ oqty[Current.oid] \in Nat /\ Current.floor \in Nat
                                 /\ Current.seen <= exec[Current.oid]
                                 /\ Unseen(Current) = exec[Current.oid] - Current.seen
                                 /\ PerpFlight(Current) = 0
<1>1. CASE Current.oid = 0
  BY <1>1 DEF Unseen
<1>2. CASE Current.oid # 0
  <2>1. latest \in TaskId /\ latest # 0 /\ Current = tasks[latest]
    BY <1>2, UnbornShape DEF Current, RegistryInv, Registry, TaskId
  <2>2. Current \in TaskType /\ FrameShape(Current)
    BY <2>1, ShapeOf
  <2>3. Current.kind = "passive" /\ Current.pc \notin {"dead", "sent"}
    BY <1>2, <2>2 DEF FrameShape
  <2>4. HasTask /\ PerpFlight(Current) = 0
    BY <2>1, <2>2, <2>3, NothingInFlight DEF HasTask, Alive, FrameShape, PerpFlight
  <2>5. Current.oid \in Order /\ Current.seen \in Nat /\ Current.floor \in Nat
    BY <1>2, <2>2 DEF TaskType
  <2>6. exec[Current.oid] \in Nat /\ oqty[Current.oid] \in Nat
    BY <2>5 DEF RegistryInv, World
  <2>7. Current.seen <= exec[Current.oid]
    BY <1>2 DEF ShapeInv
  <2>8. Unseen(Current) = exec[Current.oid] - Current.seen
    BY <1>2 DEF Unseen
  <2> QED
    BY <2>3, <2>4, <2>5, <2>6, <2>7, <2>8
<1> QED
  BY <1>1, <1>2

LEMMA BookInit == ExitInit => BookInv
<1> SUFFICES ASSUME ExitInit PROVE BookInv
  OBVIOUS
<1>1. Current = Unborn /\ Unborn.oid = 0 /\ Unborn.kind = "none"
  BY UnbornShape DEF ExitInit, Current
<1>2. Size \in Nat
  BY ExitAssumption
<1>3. Orders
  BY <1>1 DEF ExitInit, Orders
<1>4. Owned
  BY <1>1 DEF ExitInit, Owned, Wanted, OrderLive
<1>5. PerpOver = 0 /\ SpotOver = 0
  BY <1>1, <1>2, NothingInFlight DEF ExitInit, PerpOver, SpotOver, Unseen
<1>6. ShortKept
  BY <1>2 DEF ExitInit, ShortKept
<1> QED
  BY <1>3, <1>4, <1>5, <1>6 DEF BookInv, Books

\* The books after a step that loses no fill, or is allowed to.
LEMMA BooksStep ==
    ASSUME Books, adl \in Nat, adl' \in Nat, adl' >= adl, taker => taker',
           PerpOver' = PerpOver \/ (PerpOver' >= 0 /\ ~PerpClean'),
           SpotOver' = SpotOver \/ (SpotOver' >= 0 /\ ~SpotClean')
    PROVE  Books' /\ (PerpClean' => PerpClean)
<1>1. PerpClean' => PerpClean
  BY DEF PerpClean, LegsKnown, NoOrphans
<1>2. SpotClean' => SpotClean
  BY DEF SpotClean, LegsKnown
<1> QED
  BY <1>1, <1>2 DEF Books

\* A step of the task or of a caller that the venues and the figures of the rows do
\* not see: it keeps its order, or it drops one that nothing is left of.
LEMMA QuietStep ==
    ASSUME RegistryInv, RegistryInv', ShapeInv, BookInv,
           UNCHANGED <<book, vPerp, vSpot, adl, dbPerp, dbSpot>>, taker => taker',
           LET u == Current  v == Current' IN
           /\ \/ /\ v.oid = u.oid
                 /\ u.oid # 0 => /\ v.seen = u.seen /\ v.floor = u.floor
                                 /\ u.pc = "placing" =>
                                        v.pc = "placing" \/ ost[u.oid] \in {"open", "filled"}
              \/ v.oid = 0 /\ (~NoOrphans \/ (Unseen(u) = 0 /\ ~OrderLive(u.oid)))
           /\ PerpFlight(v) = PerpFlight(u) \/ (~PerpClean' /\ PerpFlight(v) = 0)
           /\ SpotFlight(v) = SpotFlight(u) \/ (~SpotClean' /\ SpotFlight(v) = 0)
           /\ NoOrphans => Wanted'
    PROVE  BookInv'
<1> DEFINE u == Current
           v == Current'
<1>1. /\ Unseen(u) \in Nat /\ PerpFlight(u) \in Nat /\ SpotFlight(u) \in Nat
      /\ PerpFlight(v) \in Nat /\ SpotFlight(v) \in Nat
      /\ u.oid # 0 => u.oid \in Order
  BY OrderAtHand, CurrentTyped, NextTyped, FlightNat
<1>2. UNCHANGED <<ost, oqty, exec, placed, vPerp, vSpot, adl, dbPerp, dbSpot>>
  BY DEF book
<1>3. /\ vPerp \in Int /\ vSpot \in Int /\ dbPerp \in Int /\ dbSpot \in Int /\ adl \in Nat
  BY DEF RegistryInv, World
<1>4. Unseen(Current)' = Unseen(u) \/ (Unseen(Current)' = 0 /\ ~PerpClean') \/ (Unseen(Current)' = 0 /\ Unseen(u) = 0)
  BY <1>2 DEF Unseen, PerpClean, NoOrphans
<1>5. PerpOver' = PerpOver \/ (PerpOver' >= 0 /\ ~PerpClean')
  <2>1. /\ PerpOver = dbPerp - vPerp - (Unseen(u) + PerpFlight(u))
        /\ PerpOver' = dbPerp - vPerp - (Unseen(Current)' + PerpFlight(v))
        /\ PerpOver >= 0
    BY <1>2 DEF PerpOver, BookInv, Books
  <2> QED
    BY <1>1, <1>3, <1>4, <2>1
<1>6. SpotOver' = SpotOver \/ (SpotOver' >= 0 /\ ~SpotClean')
  <2>1. /\ SpotOver = dbSpot - vSpot - SpotFlight(u)
        /\ SpotOver' = dbSpot - vSpot - SpotFlight(v)
        /\ SpotOver >= 0
    BY <1>2 DEF SpotOver, BookInv, Books
  <2> QED
    BY <1>1, <1>3, <2>1
<1>7. Books' /\ (PerpClean' => PerpClean)
  BY <1>2, <1>3, <1>5, <1>6, BooksStep DEF BookInv
<1>8. Orders'
  BY <1>2 DEF BookInv, Orders
<1>9. NoOrphans => Owned'
  <2>1. SUFFICES ASSUME NoOrphans PROVE Owned'
    OBVIOUS
  <2>2. Owned /\ Wanted'
    BY <2>1 DEF BookInv
  <2>3. \A o \in Order : OrderLive(o)' => v.oid = o
    BY <1>2, <2>1, <2>2 DEF Owned, OrderLive
  <2>4. v.oid # 0 /\ v.pc # "placing" => ost'[v.oid] \in {"open", "filled"}
    BY <1>2, <2>2 DEF Owned
  <2> QED
    BY <2>2, <2>3, <2>4 DEF Owned
<1>10. ShortKept'
  BY <1>2, <1>7 DEF ShortKept, BookInv
<1>11. (NoOrphans => Owned)'
  BY <1>9 DEF NoOrphans
<1> QED
  BY <1>7, <1>8, <1>10, <1>11 DEF BookInv

-------------------------------------------------------------------------------
\* The steps of a passive exit.

\* A task that is not in the middle of something runs while no caller is about to
\* cancel it.
LEMMA NobodyCancels ==
    ASSUME RegistryInv, ShapeInv, NEW i \in TaskId, tasks[i].pc \in {"start", "top", "accrue"},
           EventLoopFree \/ tasks[i].pc \in NoAwait \/ RequestOut(i), NoOrphans
    PROVE  \A c \in Callers : caller[c].pc \notin {"stops", "cancel"}
<1>1. tasks[i].sale = NoSale
  BY TopCalm DEF Calm
<1>2. ~RequestOut(i) /\ tasks[i].pc \notin NoAwait
  BY <1>1, UnbornShape DEF RequestOut, Selling, NoAwait
<1> QED
  BY <1>2 DEF EventLoopFree, NoOrphans

\* The task and the mode stay what they are, and nobody moves.
LEMMA WantedStays ==
    ASSUME BookInv, NoOrphans, UNCHANGED <<mode, caller>>, Current'.kind = Current.kind,
           Current'.dying <=> Current.dying
    PROVE  Wanted'
  BY DEF BookInv, Owned, Wanted

\* A run ends on an error, or because its mode was changed under it, only when
\* something has gone wrong.
LEMMA EndsInTrouble ==
    ASSUME RegistryInv, ShapeInv, BookInv, NEW i \in TaskId, ModeChanged(i) \/ PollFails(i),
           EventLoopFree \/ tasks[i].pc \in NoAwait \/ RequestOut(i)
    PROVE  ~NoOrphans
<1>1. CASE PollFails(i)
  BY <1>1 DEF PollFails, NoOrphans
<1>2. CASE ModeChanged(i)
  <2>1. SUFFICES ASSUME NoOrphans PROVE FALSE
    OBVIOUS
  <2>2. Current = tasks[i] /\ tasks[i].pc = "top" /\ tasks[i].kind = "passive"
    BY <1>2, ModeChangedEffect DEF ModeChanged, AtTop
  <2>3. ~tasks[i].dying
    BY <2>2, ShapeOf DEF FrameShape
  <2>4. mode = "passive"
    BY <2>1, <2>2, <2>3, NobodyCancels DEF BookInv, Owned, Wanted
  <2> QED
    BY <1>2, <2>4 DEF ModeChanged
<1> QED
  BY <1>1, <1>2

LEMMA ModeChangedBook ==
    ASSUME RegistryInv, RegistryInv', ShapeInv, BookInv, NEW i \in TaskId,
           ModeChanged(i) \/ PollFails(i),
           EventLoopFree \/ tasks[i].pc \in NoAwait \/ RequestOut(i)
    PROVE  BookInv'
<1>1. /\ Current' = Unborn /\ Current = tasks[i]
      /\ UNCHANGED <<book, vPerp, vSpot, adl, dbPerp, dbSpot, taker>>
  BY ModeChangedEffect DEF ModeChanged, PollFails, venue, rows
<1>2. tasks[i].pc = "top"
  BY DEF ModeChanged, PollFails, AtTop
<1>3. Calm(Current)
  BY <1>1, <1>2, TopCalm
<1>4. ~NoOrphans
  BY EndsInTrouble
<1> QED
  BY <1>1, <1>3, <1>4, NothingInFlight, QuietStep

LEMMA PlaceRepliesBook ==
    ASSUME RegistryInv, RegistryInv', ShapeInv, BookInv, NEW i \in TaskId, PlaceReplies(i)
    PROVE  BookInv'
<1> DEFINE u == Current
           v == Current'
<1>1. /\ UNCHANGED <<book, vPerp, vSpot, adl, dbPerp, dbSpot, taker, mode, caller>>
  BY DEF PlaceReplies, venue, rows
<1>2. /\ u.kind = "passive" /\ Calm(u) /\ u.oid # 0 /\ ~u.dying
      /\ v.kind = "passive" /\ v.floor = u.floor /\ ~v.dying /\ Calm(v)
      /\ \/ v.oid = u.oid /\ v.seen = u.seen /\ ost[u.oid] \in {"open", "filled"}
         \/ v.oid = 0 /\ (ost[u.oid] = "rejected" \/ "place_ambiguous" \in ExitFaults)
  BY PlaceRepliesEffect
<1>3. PerpFlight(v) = PerpFlight(u) /\ SpotFlight(v) = SpotFlight(u)
  BY <1>2, NothingInFlight
<1>4. NoOrphans => Wanted'
  BY <1>1, <1>2, WantedStays
<1>5. v.oid = 0 => ~NoOrphans \/ (Unseen(u) = 0 /\ ~OrderLive(u.oid))
  <2>1. SUFFICES ASSUME v.oid = 0, NoOrphans PROVE Unseen(u) = 0 /\ ~OrderLive(u.oid)
    OBVIOUS
  <2>2. ost[u.oid] = "rejected"
    BY <1>2, <2>1 DEF NoOrphans
  <2>3. u.oid \in Order /\ exec[u.oid] = 0 /\ u.seen \in Nat /\ Unseen(u) = exec[u.oid] - u.seen /\ Unseen(u) \in Nat
    BY <1>2, <2>2, OrderAtHand DEF BookInv, Orders
  <2> QED
    BY <2>2, <2>3 DEF OrderLive
<1> QED
  BY <1>1, <1>2, <1>3, <1>4, <1>5, QuietStep

\* The steps between the order and the sale, and the sale's own end.
LEMMA KeepsOrderBook ==
    ASSUME RegistryInv, RegistryInv', ShapeInv, BookInv, NEW i \in TaskId,
           \/ RestNothing(i) \/ SkipSale(i) \/ BeginSale(i) \/ SaleOver(i) \/ CheckSale(i)
           \/ SaleAwaited(i)
    PROVE  BookInv'
<1> DEFINE u == Current
           v == Current'
<1>1. UNCHANGED <<book, vPerp, vSpot, adl, dbPerp, dbSpot, taker, mode, caller>>
  BY DEF RestNothing, SkipSale, BeginSale, SaleOver, CheckSale, SaleAwaited, venue, rows
<1>2. /\ u = tasks[i] /\ tasks[i].pc \in {"top", "sell", "selling", "check", "wait"}
      /\ \/ Keeps(v, u)
         \/ v = Unborn /\ u.dying
      /\ v.perpLeg = NoLeg /\ v.spotLeg = NoLeg /\ u.perpLeg = NoLeg /\ u.spotLeg = NoLeg
      /\ SaleFlight(v.sale) = SaleFlight(u.sale) \/ (v.sale = NoSale /\ u.sale.at = "ambiguous")
  <2>1. CASE RestNothing(i)
    BY <2>1, RestNothingEffect, NothingInFlight DEF Calm, RestNothing, AtTop
  <2>2. CASE SkipSale(i)
    BY <2>2, SkipSaleEffect, NothingInFlight, UnbornShape DEF Calm
  <2>3. CASE BeginSale(i)
    BY <2>3, BeginSaleEffect, NothingInFlight DEF Calm, SaleFlight
  <2>4. CASE SaleOver(i)
    BY <2>4, SaleOverEffect, NothingInFlight, UnbornShape DEF Calm, SaleFlight
  <2>5. CASE CheckSale(i)
    <3>1. u.sale.at = "none" => u.sale = NoSale
      BY <2>5, CheckSaleEffect, ShapeOf DEF FrameShape
    <3>2. u.sale \in SaleType
      BY <2>5, CheckSaleEffect, ShapeOf
    <3> QED
      BY <2>5, <3>1, <3>2, CheckSaleEffect, NothingInFlight DEF SaleFlight, SaleType
  <2>6. CASE SaleAwaited(i)
    BY <2>6, SaleAwaitedEffect, NothingInFlight, UnbornShape DEF Calm, SaleFlight
  <2> QED
    BY <2>1, <2>2, <2>3, <2>4, <2>5, <2>6
<1>3. u.sale.at = "ambiguous" => "sale_ambiguous" \in ExitFaults
  BY <1>2, ShapeOf DEF FrameShape
<1>4. u.dying => u.oid = 0
  BY <1>2, ShapeOf DEF FrameShape
<1>5. /\ v.oid = u.oid
      /\ u.oid # 0 => v.seen = u.seen /\ v.floor = u.floor
  BY <1>2, <1>4, UnbornShape DEF Keeps
<1>6. /\ PerpFlight(v) = PerpFlight(u)
      /\ SpotFlight(v) = SpotFlight(u) \/ (~SpotClean' /\ SpotFlight(v) = 0)
  BY <1>2, <1>3, NothingInFlight DEF PerpFlight, SpotFlight, SpotClean
<1>7. NoOrphans => Wanted'
  <2>1. CASE Keeps(v, u)
    BY <1>1, <2>1, WantedStays DEF Keeps
  <2>2. CASE v = Unborn
    BY <2>2, UnbornShape DEF Wanted
  <2> QED
    BY <1>2, <2>1, <2>2
<1> QED
  BY <1>1, <1>2, <1>5, <1>6, <1>7, QuietStep

-------------------------------------------------------------------------------
\* The steps of a run without an order.

\* A run that has no order, and none of whose fills this step books or loses but
\* for a sale whose outcome is unknown.
LEMMA NoOrderBook ==
    ASSUME RegistryInv, RegistryInv', ShapeInv, BookInv, NEW i \in TaskId,
           \/ Start(i) \/ Complete(i) \/ Accrued(i) \/ Finished(i) \/ TimesOut(i)
           \/ (\E legs \in SUBSET {"perp", "spot"} : SendLegs(i, legs))
           \/ (\E q \in 1..Size : Tranche(i, q))
           \/ TrancheOver(i) \/ LegAmbiguous(i)
    PROVE  BookInv'
<1> DEFINE u == Current
           v == Current'
<1>1. UNCHANGED <<book, vPerp, vSpot, adl, dbPerp, dbSpot>>
  BY DEF Start, Complete, Accrued, Finished, TimesOut, SendLegs, Tranche, TrancheOver,
         LegAmbiguous, venue, rows
<1>3. taker => taker'
  <2>1. CASE Start(i)
    BY <2>1, StartEffect
  <2>2. CASE ~Start(i)
    <3>1. UNCHANGED taker
      BY <2>2 DEF Complete, Accrued, Finished, TimesOut, SendLegs, Tranche, TrancheOver,
                  LegAmbiguous
    <3> QED
      BY <3>1
  <2> QED
    BY <2>1, <2>2
<1>2. /\ u = tasks[i] /\ u.oid = 0 /\ v.oid = 0 /\ (NoOrphans => Wanted')
      /\ PerpFlight(v) = PerpFlight(u)
      /\ SpotFlight(v) = SpotFlight(u) \/ (~SpotClean' /\ SpotFlight(v) = 0)
  <2>1. CASE Start(i)
    <3>1. UNCHANGED <<mode, caller>>
      BY <2>1 DEF Start
    <3> QED
      BY <2>1, <3>1, StartEffect, NothingInFlight DEF Wanted
  <2>2. CASE Complete(i)
    <3>1. u = tasks[i] /\ u.oid = 0 /\ Calm(u)
      BY <2>2, CompleteEffect
    <3>2. CASE v = Unborn
      BY <3>1, <3>2, NothingInFlight, UnbornShape DEF Wanted
    <3>3. CASE Keeps(v, u) /\ Calm(v) /\ UNCHANGED mode
      <4>1. UNCHANGED <<mode, caller>>
        BY <2>2, <3>3 DEF Complete
      <4> QED
        BY <3>1, <3>3, <4>1, NothingInFlight, WantedStays DEF Keeps
    <3> QED
      BY <2>2, <3>2, <3>3, CompleteEffect
  <2>3. CASE Accrued(i)
    BY <2>3, AccruedEffect, NothingInFlight, UnbornShape DEF Wanted
  <2>4. CASE Finished(i) \/ TimesOut(i)
    BY <2>4, FinishedEffect, NothingInFlight DEF Wanted, Keeps
  <2>5. CASE \E legs \in SUBSET {"perp", "spot"} : SendLegs(i, legs)
    <3>1. PICK legs \in SUBSET {"perp", "spot"} : SendLegs(i, legs)
      BY <2>5
    <3>2. /\ u = tasks[i] /\ u.kind = "now" /\ Calm(u) /\ u.oid = 0 /\ Keeps(v, u)
          /\ v.sale = NoSale /\ v.perpLeg.fill = 0 /\ v.spotLeg.fill = 0
      BY <3>1, SendLegsEffect
    <3>3. PerpFlight(v) = 0 /\ SpotFlight(v) = 0
      BY <3>2, NothingInFlight DEF PerpFlight, SpotFlight, LegFlight
    <3> QED
      BY <3>2, <3>3, NothingInFlight DEF Wanted, Keeps
  <2>6. CASE \E q \in 1..Size : Tranche(i, q)
    <3>1. PICK q \in 1..Size : Tranche(i, q)
      BY <2>6
    <3>2. /\ u = tasks[i] /\ u.kind = "selldown" /\ Calm(u) /\ u.oid = 0 /\ Keeps(v, u)
          /\ v.perpLeg = NoLeg /\ v.spotLeg = NoLeg /\ v.sale.at = "send"
      BY <3>1, TrancheEffect
    <3>3. PerpFlight(v) = 0 /\ SpotFlight(v) = 0
      BY <3>2, NothingInFlight DEF PerpFlight, SpotFlight, SaleFlight
    <3> QED
      BY <3>2, <3>3, NothingInFlight DEF Wanted, Keeps
  <2>7. CASE TrancheOver(i)
    <3>1. /\ u = tasks[i] /\ u.kind = "selldown" /\ u.oid = 0
          /\ u.perpLeg = NoLeg /\ u.spotLeg = NoLeg
          /\ \/ v = Unborn /\ u.sale.at = "ambiguous"
             \/ u.sale.at = "done" /\ Keeps(v, u) /\ Calm(v)
      BY <2>7, TrancheOverEffect
    <3>2. u.sale.at = "ambiguous" => "sale_ambiguous" \in ExitFaults
      BY <3>1, ShapeOf DEF FrameShape
    <3>3. PerpFlight(u) = 0 /\ PerpFlight(v) = 0 /\ SpotFlight(v) = 0
      BY <3>1, NothingInFlight DEF PerpFlight
    <3>4. u.sale.at = "done" => SpotFlight(u) = 0
      BY <3>1, NothingInFlight DEF SpotFlight, SaleFlight
    <3>5. v.oid = 0 /\ v.kind # "passive"
      BY <3>1, UnbornShape DEF Keeps
    <3> QED
      BY <3>1, <3>2, <3>3, <3>4, <3>5 DEF Wanted, SpotClean
  <2>8. CASE LegAmbiguous(i)
    <3>1. /\ u = tasks[i] /\ u.kind = "now" /\ u.sale = NoSale /\ u.oid = 0
          /\ Keeps(v, u) /\ v.sale = NoSale
          /\ \/ /\ u.perpLeg.at = "done" /\ v.perpLeg.at = "ambiguous"
                /\ v.perpLeg.fill = u.perpLeg.fill /\ v.spotLeg = u.spotLeg
             \/ /\ u.spotLeg.at = "done" /\ v.spotLeg.at = "ambiguous"
                /\ v.spotLeg.fill = u.spotLeg.fill /\ v.perpLeg = u.perpLeg
      BY <2>8, LegAmbiguousEffect
    <3>2. LegFlight(v.perpLeg) = LegFlight(u.perpLeg) /\ LegFlight(v.spotLeg) = LegFlight(u.spotLeg)
      BY <3>1 DEF LegFlight
    <3>3. PerpFlight(v) = PerpFlight(u) /\ SpotFlight(v) = SpotFlight(u)
      BY <3>1, <3>2 DEF PerpFlight, SpotFlight
    <3> QED
      BY <3>1, <3>3 DEF Wanted, Keeps
  <2> QED
    BY <2>1, <2>2, <2>3, <2>4, <2>5, <2>6, <2>7, <2>8
<1> QED
  BY <1>1, <1>2, <1>3, QuietStep

\* A sale that is refused, or whose outcome is unknown.
LEMMA SaleRefusedBook ==
    ASSUME RegistryInv, RegistryInv', ShapeInv, BookInv, NEW i \in TaskId,
           SaleRefused(i) \/ SaleAmbiguous(i)
    PROVE  BookInv'
<1> DEFINE u == Current
           v == Current'
<1>1. UNCHANGED <<book, vPerp, vSpot, adl, dbPerp, dbSpot, taker, mode, caller>>
  BY DEF SaleRefused, SaleAmbiguous, venue, rows
<1>2. /\ Keeps(v, u) /\ v.pc = u.pc
      /\ v.perpLeg = NoLeg /\ v.spotLeg = NoLeg /\ u.perpLeg = NoLeg /\ u.spotLeg = NoLeg
      /\ SaleFlight(v.sale) = SaleFlight(u.sale)
  <2>1. CASE SaleRefused(i)
    BY <2>1, SaleRefusedEffect DEF SaleFlight
  <2>2. CASE SaleAmbiguous(i)
    BY <2>2, SaleAmbiguousEffect DEF SaleFlight
  <2> QED
    BY <2>1, <2>2
<1>3. PerpFlight(v) = PerpFlight(u) /\ SpotFlight(v) = SpotFlight(u)
  BY <1>2 DEF PerpFlight, SpotFlight
<1>4. NoOrphans => Wanted'
  BY <1>1, <1>2, WantedStays DEF Keeps
<1> QED
  BY <1>1, <1>2, <1>3, <1>4, QuietStep DEF Keeps

-------------------------------------------------------------------------------
\* The steps of the callers.

LEMMA CancelTaskBook ==
    ASSUME RegistryInv, RegistryInv', ShapeInv, BookInv, OneReplacer, NEW c \in Callers,
           CancelTask(c)
    PROVE  BookInv'
<1> DEFINE u == Current
           v == Current'
<1>1. UNCHANGED <<book, vPerp, vSpot, adl, dbPerp, dbSpot, taker>>
  BY DEF CancelTask, venue, rows
<1>2. /\ HasTask /\ ~u.dying
      /\ (u.pc \in {"placing", "sent"} => "cut_request" \in ExitFaults)
      /\ (u.kind = "selldown" /\ u.sale.at = "sent" => "cut_request" \in ExitFaults)
      /\ \/ v = Unborn /\ u.oid = 0 /\ (u.kind = "passive" => u.pc = "accrue")
         \/ /\ u.kind = "passive" /\ u.pc \in {"top", "cancel", "selling", "placing"}
            /\ v.kind = "passive" /\ v.dying /\ v.floor = u.floor /\ v.seen = u.seen
            /\ v.sale = u.sale
            /\ v.perpLeg = NoLeg /\ v.spotLeg = NoLeg
            /\ u.perpLeg = NoLeg /\ u.spotLeg = NoLeg
            /\ v.oid = IF u.pc = "placing" THEN 0 ELSE u.oid
  BY CancelTaskEffect
<1>3. latest \in TaskId /\ u = tasks[latest]
  BY <1>2 DEF HasTask, Current, RegistryInv, Registry
<1>4. u \in TaskType /\ FrameShape(u)
  BY <1>3, ShapeOf
<1>5. CASE v = Unborn /\ u.oid = 0 /\ (u.kind = "passive" => u.pc = "accrue")
  <2>1. PerpFlight(v) = 0 /\ SpotFlight(v) = 0 /\ v.oid = 0 /\ Wanted'
    BY <1>5, NothingInFlight, UnbornShape DEF Wanted
  <2>2. PerpFlight(u) = 0 \/ ~PerpClean'
    <3>1. CASE u.pc = "sent"
      BY <1>2, <3>1 DEF PerpClean, NoOrphans
    <3>2. CASE u.pc # "sent"
      BY <1>4, <3>2, NothingInFlight DEF FrameShape, PerpFlight
    <3> QED
      BY <3>1, <3>2
  <2>3. SpotFlight(u) = 0 \/ ~SpotClean'
    <3>1. CASE u.pc = "sent"
      BY <1>2, <3>1 DEF SpotClean
    <3>2. CASE u.sale.at = "ambiguous"
      BY <1>4, <3>2 DEF FrameShape, SpotClean
    <3>3. CASE u.sale.at = "sent"
      <4>1. u.kind = "selldown"
        BY <1>2, <1>4, <1>5, <3>3 DEF FrameShape, TaskType
      <4> QED
        BY <1>2, <3>3, <4>1 DEF SpotClean
    <3>4. CASE u.pc # "sent" /\ u.sale.at \notin {"sent", "ambiguous"}
      BY <1>4, <3>4, NothingInFlight DEF FrameShape, SpotFlight, SaleFlight
    <3> QED
      BY <3>1, <3>2, <3>3, <3>4
  <2> QED
    BY <1>1, <1>5, <2>1, <2>2, <2>3, QuietStep
<1>6. CASE /\ u.kind = "passive" /\ u.pc \in {"top", "cancel", "selling", "placing"}
           /\ v.kind = "passive" /\ v.dying /\ v.floor = u.floor /\ v.seen = u.seen
           /\ v.sale = u.sale
           /\ v.perpLeg = NoLeg /\ v.spotLeg = NoLeg
           /\ u.perpLeg = NoLeg /\ u.spotLeg = NoLeg
           /\ v.oid = IF u.pc = "placing" THEN 0 ELSE u.oid
  <2>1. PerpFlight(v) = PerpFlight(u) /\ SpotFlight(v) = SpotFlight(u) /\ Wanted'
    BY <1>6 DEF PerpFlight, SpotFlight, Wanted
  <2>2. u.pc = "placing" => ~NoOrphans
    BY <1>2 DEF NoOrphans
  <2> QED
    BY <1>1, <1>6, <2>1, <2>2, QuietStep
<1> QED
  BY <1>2, <1>5, <1>6

LEMMA SpawnBook ==
    ASSUME RegistryInv, RegistryInv', ShapeInv, BookInv, OneReplacer, NEW c \in Callers, Spawn(c)
    PROVE  BookInv'
<1>1. UNCHANGED <<book, vPerp, vSpot, adl, dbPerp, dbSpot, taker>>
  BY DEF Spawn, venue, rows
<1>2. /\ Current = Unborn /\ Current'.oid = 0 /\ Calm(Current')
      /\ Current'.kind \in {"exit", "selldown"}
  BY SpawnEffect
<1> QED
  BY <1>1, <1>2, NothingInFlight, UnbornShape, QuietStep DEF Wanted

\* A caller that changes the mode of a run is on its way to cancel it.
LEMMA AsksBook ==
    ASSUME RegistryInv, RegistryInv', ShapeInv, BookInv, NEW c \in Callers,
           \/ \E m \in Modes, f \in Floors : AskExit(c, m, f)
           \/ AskStandDown(c)
           \/ StopsCancelled(c)
           \/ StoodDown(c)
    PROVE  BookInv'
<1>1. UNCHANGED <<book, vPerp, vSpot, adl, dbPerp, dbSpot, taker>>
  BY DEF AskExit, AskStandDown, StopsCancelled, StoodDown, venue, rows
<1>2. Current' = Current
  BY AsksEffect
<1>3. caller \in [Callers -> CallerType]
  BY DEF RegistryInv, Registry
<1>4. NoOrphans => Wanted'
  <2>1. SUFFICES ASSUME NoOrphans, Current.kind = "passive", ~Current.dying
                 PROVE  mode' = "passive" \/ \E d \in Callers : caller'[d].pc \in {"stops", "cancel"}
    BY <1>2 DEF Wanted
  <2>2. mode = "passive" \/ \E d \in Callers : caller[d].pc \in {"stops", "cancel"}
    BY <2>1 DEF BookInv, Owned, Wanted
  <2>3. CASE \/ \E m \in Modes, f \in Floors : AskExit(c, m, f)
             \/ AskStandDown(c)
             \/ StopsCancelled(c)
    <3>1. \E pc \in {"stops", "cancel"} : \E op, floor : CallerGoes(c, pc, op, floor, 0)
      BY <2>3 DEF AskExit, AskStandDown, StopsCancelled
    <3>2. caller'[c].pc \in {"stops", "cancel"}
      BY <1>3, <3>1 DEF CallerGoes
    <3> QED
      BY <3>2
  <2>4. CASE StoodDown(c)
    <3>1. ~HasTask
      BY <2>4 DEF StoodDown, MayProceed, HasTask, RegistryInv, Registry
    <3> QED
      BY <2>1, <3>1, NoTaskUnborn, UnbornShape
  <2> QED
    BY <2>3, <2>4
<1> QED
  BY <1>1, <1>2, <1>4, QuietStep

LEMMA ArmStopsBook ==
    ASSUME RegistryInv, RegistryInv', ShapeInv, BookInv, ArmStops
    PROVE  BookInv'
<1>1. UNCHANGED <<book, vPerp, vSpot, adl, dbPerp, dbSpot, taker, mode, caller>>
  BY DEF ArmStops, rows, process
<1>2. Current' = Current
  BY ArmStopsEffect
<1> QED
  BY <1>1, <1>2, WantedStays, QuietStep

-------------------------------------------------------------------------------
\* The steps that the venues or the rows see.

LEMMA BookFigures ==
    ASSUME RegistryInv, RegistryInv', ShapeInv, BookInv
    PROVE  /\ Unseen(Current) \in Nat /\ PerpFlight(Current) \in Nat /\ SpotFlight(Current) \in Nat
           /\ PerpFlight(Current') \in Nat /\ SpotFlight(Current') \in Nat
           /\ dbPerp \in Int /\ dbSpot \in Int /\ vPerp \in Int /\ vSpot \in Int /\ adl \in Nat
           /\ dbPerp' \in Int /\ dbSpot' \in Int /\ vPerp' \in Int /\ vSpot' \in Int /\ adl' \in Nat
           /\ PerpOver \in Int /\ PerpOver >= 0 /\ SpotOver \in Int /\ SpotOver >= 0
<1>1. /\ Unseen(Current) \in Nat /\ PerpFlight(Current) \in Nat /\ SpotFlight(Current) \in Nat
      /\ PerpFlight(Current') \in Nat /\ SpotFlight(Current') \in Nat
  BY OrderAtHand, CurrentTyped, NextTyped, FlightNat
<1>2. /\ dbPerp \in Int /\ dbSpot \in Int /\ vPerp \in Int /\ vSpot \in Int /\ adl \in Nat
      /\ dbPerp' \in Int /\ dbSpot' \in Int /\ vPerp' \in Int /\ vSpot' \in Int /\ adl' \in Nat
  BY NextTyped DEF RegistryInv, World
<1> QED
  BY <1>1, <1>2 DEF BookInv, Books, PerpOver, SpotOver

\* The parts of the invariant, from what a step makes of the figures.
LEMMA BookFrom ==
    ASSUME RegistryInv, RegistryInv', ShapeInv, BookInv, adl' >= adl, taker => taker',
           Orders', NoOrphans => Owned',
           PerpOver' = PerpOver \/ (PerpOver' >= 0 /\ ~PerpClean'),
           SpotOver' = SpotOver \/ (SpotOver' >= 0 /\ ~SpotClean'),
           PerpClean /\ vPerp >= 0 => vPerp' >= 0
    PROVE  BookInv'
<1>1. Books' /\ (PerpClean' => PerpClean)
  BY BookFigures, BooksStep DEF BookInv
<1>2. ShortKept'
  BY <1>1 DEF BookInv, ShortKept
<1>3. (NoOrphans => Owned)'
  BY DEF NoOrphans
<1> QED
  BY <1>1, <1>2, <1>3 DEF BookInv

\* What a cancel makes of the orders, and of the one it is for when it cannot fail.
LEMMA CancelsOrder ==
    ASSUME RegistryInv, NEW p \in Order \cup {0}, Cancels(p)
    PROVE  /\ ost \in [Order -> {"none", "sent", "open", "filled", "cancelled", "rejected"}]
           /\ \A o \in Order : ost'[o] = ost[o] \/ (o = p /\ ost[o] = "open" /\ ost'[o] = "cancelled")
           /\ NoOrphans /\ p # 0 => ost'[p] # "open"
<1>1. ost \in [Order -> {"none", "sent", "open", "filled", "cancelled", "rejected"}]
  BY DEF RegistryInv, World
<1>2. 0 \notin Order
  BY DEF Order
<1> QED
  BY <1>1, <1>2 DEF Cancels, NoOrphans

\* The order comes down before the last of the spot is sold; by what the rows say
\* there was nothing left of it to fill.
LEMMA EndPhaseBook ==
    ASSUME RegistryInv, RegistryInv', ShapeInv, BookInv, NEW i \in TaskId, EndPhase(i)
    PROVE  BookInv'
<1> DEFINE u == Current
           v == Current'
<1>1. /\ UNCHANGED <<oqty, exec, placed, vPerp, vSpot, adl, dbPerp, dbSpot, taker, mode, caller>>
      /\ mode = "passive" /\ Remaining(i) = 0
      /\ Cancels(tasks[i].oid)
  BY DEF EndPhase, rows
<1>2. /\ u = tasks[i] /\ u.kind = "passive" /\ u.pc = "top" /\ Calm(u)
      /\ v.kind = "passive" /\ v.oid = 0 /\ Calm(v)
  BY EndPhaseEffect
<1>3. dbPerp - u.floor <= 0
  <2>1. dbPerp - u.floor \in Int
    BY BookFigures, CurrentTyped DEF TaskType
  <2> QED
    BY <1>1, <1>2, <2>1, AtLeast0Nat DEF Remaining
<1>4. Unseen(u) = 0
  <2>1. CASE u.oid = 0
    BY <2>1 DEF Unseen
  <2>2. CASE u.oid # 0
    <3>1. /\ u.oid \in Order /\ u.seen \in Nat /\ exec[u.oid] \in Nat /\ oqty[u.oid] \in Nat
          /\ u.floor \in Nat /\ u.seen <= exec[u.oid] /\ Unseen(u) = exec[u.oid] - u.seen
      BY <2>2, OrderAtHand
    <3>2. exec[u.oid] <= oqty[u.oid] /\ oqty[u.oid] - u.seen <= dbPerp - u.floor
      BY <2>2, <3>1 DEF BookInv, Orders
    <3>3. dbPerp \in Int
      BY BookFigures
    <3> QED
      BY <1>3, <3>1, <3>2, <3>3
  <2> QED
    BY <2>1, <2>2
<1>5. Unseen(Current)' = 0
  BY <1>2 DEF Unseen
<1>6. PerpOver' = PerpOver /\ SpotOver' = SpotOver
  BY <1>1, <1>2, <1>4, <1>5, NothingInFlight DEF PerpOver, SpotOver
<1>7. u.oid \in Order \cup {0}
  BY CurrentTyped DEF TaskType
<1>8. /\ \A o \in Order : ost'[o] = ost[o] \/ (o = u.oid /\ ost[o] = "open" /\ ost'[o] = "cancelled")
      /\ NoOrphans /\ u.oid # 0 => ost'[u.oid] # "open"
  BY <1>1, <1>2, <1>7, CancelsOrder
<1>9. Orders'
  BY <1>1, <1>2, <1>8 DEF BookInv, Orders
<1>10. NoOrphans => Owned'
  <2>1. SUFFICES ASSUME NoOrphans PROVE Owned'
    OBVIOUS
  <2>2. ASSUME NEW o \in Order, OrderLive(o)'
        PROVE  FALSE
    <3>1. OrderLive(o)
      BY <1>8, <2>2 DEF OrderLive
    <3>2. u.oid = o /\ o # 0 /\ ost[o] \in {"open", "filled"}
      BY <1>2, <2>1, <3>1 DEF BookInv, Owned, Order
    <3> QED
      BY <1>8, <2>1, <2>2, <3>2 DEF OrderLive
  <2>3. Wanted'
    BY <1>1 DEF Wanted
  <2> QED
    BY <1>2, <2>2, <2>3 DEF Owned
<1>11. adl' >= adl /\ (PerpClean /\ vPerp >= 0 => vPerp' >= 0)
  BY <1>1, BookFigures
<1> QED
  BY <1>1, <1>6, <1>9, <1>10, <1>11, BookFrom

LEMMA PlaceBook ==
    ASSUME RegistryInv, RegistryInv', ShapeInv, BookInv, NEW i \in TaskId, NEW q \in 1..Size,
           Place(i, q)
    PROVE  BookInv'
<1> DEFINE u == Current
           v == Current'
<1>1. /\ UNCHANGED <<exec, vPerp, vSpot, adl, dbPerp, dbSpot, taker, mode, caller>>
      /\ mode = "passive" /\ q <= Remaining(i) /\ placed' = placed + 1
      /\ ost' = [ost EXCEPT ![placed'] = "sent"]
      /\ oqty' = [oqty EXCEPT ![placed'] = q]
  BY DEF Place, rows
<1>2. /\ u = tasks[i] /\ u.kind = "passive" /\ u.pc = "top" /\ Calm(u) /\ u.oid = 0
      /\ v.kind = "passive" /\ v.pc = "placing" /\ v.floor = u.floor
      /\ v.oid = placed' /\ placed' \in Order /\ v.seen = 0 /\ Calm(v)
  BY PlaceEffect
<1>3. /\ ost \in [Order -> {"none", "sent", "open", "filled", "cancelled", "rejected"}]
      /\ oqty \in [Order -> Nat] /\ exec \in [Order -> Nat] /\ placed \in Nat /\ q \in Nat \ {0}
  BY ExitAssumption DEF RegistryInv, World
<1>4. q <= dbPerp - u.floor
  <2>1. dbPerp - u.floor \in Int
    BY BookFigures, CurrentTyped DEF TaskType
  <2> QED
    BY <1>1, <1>2, <1>3, <2>1, AtLeast0Nat DEF Remaining
<1>5. ost[placed'] = "none" /\ exec[placed'] = 0
  BY <1>1, <1>2, <1>3 DEF BookInv, Orders
<1>6. Unseen(u) = 0 /\ Unseen(Current)' = 0
  BY <1>1, <1>2, <1>5 DEF Unseen
<1>7. PerpOver' = PerpOver /\ SpotOver' = SpotOver
  BY <1>1, <1>2, <1>6, NothingInFlight DEF PerpOver, SpotOver
<1>8. Orders'
  <2>1. \A o \in Order : exec'[o] <= oqty'[o]
    BY <1>1, <1>3, <1>5 DEF BookInv, Orders
  <2>2. \A o \in Order : ost'[o] \in {"none", "sent", "rejected"} => exec'[o] = 0
    BY <1>1, <1>3, <1>5 DEF BookInv, Orders
  <2>3. \A o \in Order : o > placed' => ost'[o] = "none"
    BY <1>1, <1>3 DEF BookInv, Orders, Order
  <2>4. oqty'[v.oid] - v.seen <= dbPerp' - v.floor
    <3>1. oqty'[v.oid] = q
      BY <1>1, <1>2, <1>3
    <3> QED
      BY <1>1, <1>2, <1>3, <1>4, <3>1
  <2> QED
    BY <2>1, <2>2, <2>3, <2>4 DEF Orders
<1>9. NoOrphans => Owned'
  <2>1. SUFFICES ASSUME NoOrphans PROVE Owned'
    OBVIOUS
  <2>2. \A o \in Order : ~OrderLive(o)
    BY <1>2, <2>1 DEF BookInv, Owned, Order
  <2>3. \A o \in Order : OrderLive(o)' => o = placed'
    BY <1>1, <1>3, <2>2 DEF OrderLive
  <2>4. Wanted'
    BY <1>1 DEF Wanted
  <2> QED
    BY <1>2, <2>3, <2>4 DEF Owned
<1>10. adl' >= adl /\ (PerpClean /\ vPerp >= 0 => vPerp' >= 0)
  BY <1>1, BookFigures
<1> QED
  BY <1>1, <1>7, <1>8, <1>9, <1>10, BookFrom

\* A poll books what the order has filled, and what is left of it shrinks with the
\* rows.
LEMMA PollBook ==
    ASSUME RegistryInv, RegistryInv', ShapeInv, BookInv, NEW i \in TaskId,
           NEW reprice \in BOOLEAN, Poll(i, reprice)
    PROVE  BookInv'
<1> DEFINE u == Current
           v == Current'
<1>1. /\ UNCHANGED <<ost, oqty, exec, placed, vPerp, vSpot, adl, dbSpot, taker, mode, caller>>
      /\ mode = "passive" /\ dbPerp' = dbPerp - Newly(i)
  BY DEF Poll, venue, book
<1>2. /\ u = tasks[i] /\ HasTask /\ u.kind = "passive" /\ u.pc = "top" /\ Calm(u) /\ u.oid # 0
      /\ v.kind = "passive" /\ v.floor = u.floor /\ Calm(v)
      /\ \/ v.oid = u.oid /\ v.seen = exec[u.oid] /\ ost[u.oid] = "open"
         \/ v.oid = 0 /\ ost[u.oid] # "open"
  BY PollEffect
<1>3. /\ u.oid \in Order /\ u.seen \in Nat /\ exec[u.oid] \in Nat /\ oqty[u.oid] \in Nat
      /\ u.floor \in Nat /\ Unseen(u) = exec[u.oid] - u.seen
  BY <1>2, OrderAtHand
<1>4. Newly(i) = Unseen(u)
  BY <1>2, <1>3 DEF Newly
<1>5. Unseen(Current)' = 0
  BY <1>1, <1>2, <1>3 DEF Unseen
<1>6. PerpOver' = PerpOver /\ SpotOver' = SpotOver
  BY <1>1, <1>2, <1>4, <1>5, NothingInFlight, BookFigures DEF PerpOver, SpotOver
<1>7. Orders'
  <2>1. oqty[u.oid] - u.seen <= dbPerp - u.floor
    BY <1>2 DEF BookInv, Orders
  <2>2. v.oid # 0 => oqty'[v.oid] - v.seen <= dbPerp' - v.floor
    BY <1>1, <1>2, <1>3, <1>4, <2>1, BookFigures
  <2> QED
    BY <1>1, <2>2 DEF BookInv, Orders
<1>8. NoOrphans => Owned'
  <2>1. SUFFICES ASSUME NoOrphans PROVE Owned'
    OBVIOUS
  <2>2. \A o \in Order : OrderLive(o)' => u.oid = o
    BY <1>1, <2>1 DEF BookInv, Owned, OrderLive
  <2>3. ost[u.oid] \in {"open", "filled"}
    BY <1>2, <2>1 DEF BookInv, Owned
  <2>4. Wanted'
    BY <1>1 DEF Wanted
  <2> QED
    BY <1>1, <1>2, <2>2, <2>3, <2>4 DEF Owned, OrderLive
<1>9. adl' >= adl /\ (PerpClean /\ vPerp >= 0 => vPerp' >= 0)
  BY <1>1, BookFigures
<1> QED
  BY <1>1, <1>6, <1>7, <1>8, <1>9, BookFrom

LEMMA CancelOrderBook ==
    ASSUME RegistryInv, RegistryInv', ShapeInv, BookInv, NEW i \in TaskId, CancelOrder(i)
    PROVE  BookInv'
<1> DEFINE u == Current
           v == Current'
<1>1. /\ UNCHANGED <<oqty, exec, placed, vPerp, vSpot, adl, dbSpot, taker, mode, caller>>
      /\ dbPerp' = dbPerp - Newly(i)
      /\ Cancels(tasks[i].oid)
  BY DEF CancelOrder
<1>2. /\ u = tasks[i] /\ HasTask /\ u.kind = "passive" /\ u.pc = "cancel" /\ u.oid # 0
      /\ v.kind = "passive" /\ v.oid = 0 /\ (v.dying <=> u.dying)
      /\ v.sale = u.sale /\ v.perpLeg = NoLeg /\ v.spotLeg = NoLeg
  BY CancelOrderEffect
<1>3. u.perpLeg = NoLeg /\ u.spotLeg = NoLeg
  BY <1>2, ShapeOf DEF FrameShape
<1>4. Unseen(u) = exec[u.oid] - u.seen /\ u.oid \in Order
  BY <1>2, OrderAtHand
<1>5. Newly(i) = Unseen(u) /\ Unseen(Current)' = 0
  BY <1>2, <1>4 DEF Newly, Unseen
<1>6. PerpFlight(v) = PerpFlight(u) /\ SpotFlight(v) = SpotFlight(u)
  BY <1>2, <1>3 DEF PerpFlight, SpotFlight
<1>7. PerpOver' = PerpOver /\ SpotOver' = SpotOver
  BY <1>1, <1>5, <1>6, BookFigures DEF PerpOver, SpotOver
<1>8. /\ \A o \in Order : ost'[o] = ost[o] \/ (o = u.oid /\ ost[o] = "open" /\ ost'[o] = "cancelled")
      /\ NoOrphans => ost'[u.oid] # "open"
  BY <1>1, <1>2, <1>4, CancelsOrder
<1>9. Orders'
  BY <1>1, <1>2, <1>4, <1>8 DEF BookInv, Orders
<1>10. NoOrphans => Owned'
  <2>1. SUFFICES ASSUME NoOrphans PROVE Owned'
    OBVIOUS
  <2>2. ASSUME NEW o \in Order, OrderLive(o)'
        PROVE  FALSE
    <3>1. OrderLive(o)
      BY <1>8, <2>2 DEF OrderLive
    <3>2. u.oid = o /\ ost[o] \in {"open", "filled"}
      BY <1>2, <2>1, <3>1 DEF BookInv, Owned
    <3> QED
      BY <1>8, <2>1, <2>2, <3>2 DEF OrderLive
  <2>3. Wanted'
    BY <1>1, <1>2, <2>1, WantedStays
  <2> QED
    BY <1>2, <2>2, <2>3 DEF Owned
<1>11. adl' >= adl /\ (PerpClean /\ vPerp >= 0 => vPerp' >= 0)
  BY <1>1, BookFigures
<1> QED
  BY <1>1, <1>7, <1>9, <1>10, <1>11, BookFrom

\* A run, or a cleanup, goes on without what its order filled last.
LEMMA LastLookFailsBook ==
    ASSUME RegistryInv, RegistryInv', ShapeInv, BookInv, NEW i \in TaskId, LastLookFails(i)
    PROVE  BookInv'
<1> DEFINE u == Current
           v == Current'
<1>1. /\ UNCHANGED <<oqty, exec, placed, vPerp, vSpot, adl, dbPerp, dbSpot, taker, mode, caller>>
      /\ Cancels(tasks[i].oid) /\ ~NoOrphans
  BY DEF LastLookFails, rows, NoOrphans
<1>2. /\ u = tasks[i] /\ u.oid # 0 /\ v.oid = 0
      /\ PerpFlight(v) = PerpFlight(u) /\ SpotFlight(v) = SpotFlight(u)
  BY LastLookFailsEffect, NothingInFlight, UnbornShape DEF PerpFlight, SpotFlight, Calm
<1>3. Unseen(u) \in Nat /\ u.oid \in Order /\ Unseen(Current)' = 0
  BY <1>2, OrderAtHand DEF Unseen
<1>4. PerpOver' = PerpOver + Unseen(u) /\ SpotOver' = SpotOver
  BY <1>1, <1>2, <1>3, BookFigures DEF PerpOver, SpotOver
<1>5. PerpOver' >= 0 /\ ~PerpClean'
  BY <1>1, <1>3, <1>4, BookFigures DEF PerpClean, NoOrphans
<1>6. \A o \in Order : ost'[o] = ost[o] \/ (o = u.oid /\ ost[o] = "open" /\ ost'[o] = "cancelled")
  BY <1>1, <1>2, <1>3, CancelsOrder
<1>7. Orders'
  BY <1>1, <1>2, <1>6 DEF BookInv, Orders
<1>8. adl' >= adl /\ (PerpClean /\ vPerp >= 0 => vPerp' >= 0)
  BY <1>1, BookFigures
<1> QED
  BY <1>1, <1>4, <1>5, <1>7, <1>8, BookFrom

\* The venue sells, and later its reply is booked.
LEMMA SaleMovesBook ==
    ASSUME RegistryInv, RegistryInv', ShapeInv, BookInv, NEW i \in TaskId,
           (\E k \in 0..Size : SaleSends(i, k)) \/ SaleReplies(i)
    PROVE  BookInv'
<1> DEFINE u == Current
           v == Current'
<1>1. UNCHANGED <<book, vPerp, adl, dbPerp, taker, mode, caller>>
  BY DEF SaleSends, SaleReplies, venue, rows
<1>2. /\ Keeps(v, u) /\ v.pc = u.pc
      /\ v.perpLeg = NoLeg /\ v.spotLeg = NoLeg /\ u.perpLeg = NoLeg /\ u.spotLeg = NoLeg
      /\ SpotOver' = SpotOver
  <2>1. CASE \E k \in 0..Size : SaleSends(i, k)
    <3>1. PICK k \in 0..Size : SaleSends(i, k)
      BY <2>1
    <3>2. /\ Keeps(v, u) /\ v.pc = u.pc
          /\ v.perpLeg = NoLeg /\ v.spotLeg = NoLeg /\ u.perpLeg = NoLeg /\ u.spotLeg = NoLeg
          /\ u.sale.at = "send" /\ v.sale.at = "sent" /\ v.sale.fill = k /\ k \in Nat
      BY <3>1, SaleSendsEffect
    <3>3. vSpot' = vSpot - k /\ dbSpot' = dbSpot
      BY <3>1 DEF SaleSends, rows
    <3>4. SpotFlight(u) = 0 /\ SpotFlight(v) = k
      BY <3>2, NothingInFlight DEF SpotFlight, SaleFlight
    <3>5. SpotOver' = SpotOver
      BY <3>2, <3>3, <3>4, BookFigures DEF SpotOver
    <3> QED
      BY <3>2, <3>5
  <2>2. CASE SaleReplies(i)
    <3>1. /\ Keeps(v, u) /\ v.pc = u.pc
          /\ v.perpLeg = NoLeg /\ v.spotLeg = NoLeg /\ u.perpLeg = NoLeg /\ u.spotLeg = NoLeg
          /\ u.sale.at = "sent" /\ u.sale.fill \in Nat /\ v.sale.at \in {"send", "done"}
          /\ dbSpot' = dbSpot - u.sale.fill
      BY <2>2, SaleRepliesEffect
    <3>2. vSpot' = vSpot
      BY <2>2 DEF SaleReplies, venue
    <3>3. SpotFlight(u) = u.sale.fill /\ SpotFlight(v) = 0
      BY <3>1, NothingInFlight DEF SpotFlight, SaleFlight
    <3>4. SpotOver' = SpotOver
      BY <3>1, <3>2, <3>3, BookFigures DEF SpotOver
    <3> QED
      BY <3>1, <3>4
  <2> QED
    BY <2>1, <2>2
<1>3. UNCHANGED <<ost, oqty, exec, placed>> /\ v.oid = u.oid /\ v.seen = u.seen /\ v.floor = u.floor
  BY <1>1, <1>2 DEF book, Keeps
<1>4. PerpFlight(v) = PerpFlight(u) /\ Unseen(Current)' = Unseen(u)
  BY <1>2, <1>3 DEF PerpFlight, Unseen
<1>5. PerpOver' = PerpOver
  BY <1>1, <1>4 DEF PerpOver
<1>6. Orders'
  BY <1>1, <1>3 DEF BookInv, Orders
<1>7. NoOrphans => Owned'
  <2>1. SUFFICES ASSUME NoOrphans PROVE Owned'
    OBVIOUS
  <2>2. Owned /\ Wanted'
    BY <1>1, <1>2, <2>1, WantedStays DEF BookInv, Keeps
  <2>3. \A o \in Order : OrderLive(o)' => v.oid = o
    BY <1>3, <2>2 DEF Owned, OrderLive
  <2>4. v.oid # 0 /\ v.pc # "placing" => ost'[v.oid] \in {"open", "filled"}
    BY <1>2, <1>3, <2>2 DEF Owned
  <2> QED
    BY <2>2, <2>3, <2>4 DEF Owned
<1>8. adl' >= adl /\ (PerpClean /\ vPerp >= 0 => vPerp' >= 0)
  BY <1>1, BookFigures
<1> QED
  BY <1>1, <1>2, <1>5, <1>6, <1>7, <1>8, BookFrom

\* A run without an order: what is left to show is what it does to the figures.
LEMMA TakerBook ==
    ASSUME RegistryInv, RegistryInv', ShapeInv, BookInv, UNCHANGED <<book, taker>>, adl' >= adl,
           Current.oid = 0, Current'.oid = 0, Current'.kind # "passive",
           PerpOver' = PerpOver \/ (PerpOver' >= 0 /\ ~PerpClean'),
           SpotOver' = SpotOver \/ (SpotOver' >= 0 /\ ~SpotClean'),
           PerpClean /\ vPerp >= 0 => vPerp' >= 0
    PROVE  BookInv'
<1>1. UNCHANGED <<ost, oqty, exec, placed>>
  BY DEF book
<1>2. Orders'
  BY <1>1 DEF BookInv, Orders
<1>3. NoOrphans => Owned'
  BY <1>1 DEF BookInv, Owned, OrderLive, Wanted
<1> QED
  BY <1>2, <1>3, BookFrom

\* The legs of a taker close: a reduce-only buy never opens a long.
LEMMA LegBook ==
    ASSUME RegistryInv, RegistryInv', ShapeInv, BookInv, NEW i \in TaskId, NEW k \in 0..Size,
           PerpLeg(i, k) \/ SpotLeg(i, k)
    PROVE  BookInv'
<1> DEFINE u == Current
           v == Current'
<1>1. UNCHANGED <<book, adl, dbPerp, dbSpot, taker>>
  BY DEF PerpLeg, SpotLeg, rows
<1>2. CASE PerpLeg(i, k)
  <2>1. /\ u = tasks[i] /\ u.kind = "now" /\ u.sale = NoSale /\ u.oid = 0 /\ Keeps(v, u)
        /\ v.sale = NoSale /\ u.perpLeg.at = "sent" /\ v.perpLeg.at = "done"
        /\ v.perpLeg.fill = k /\ v.spotLeg = u.spotLeg /\ k \in Nat
    BY <1>2, PerpLegEffect
  <2>2. vPerp' = vPerp - k /\ vSpot' = vSpot /\ k <= Min({u.perpLeg.need, AtLeast0(vPerp)})
    BY <1>2, <2>1 DEF PerpLeg
  <2>3. PerpFlight(u) = 0 /\ PerpFlight(v) = k
    BY <2>1 DEF PerpFlight, LegFlight
  <2>4. SpotFlight(v) = SpotFlight(u)
    BY <2>1 DEF SpotFlight
  <2>5. v.oid = 0 /\ v.kind = "now"
    BY <2>1 DEF Keeps
  <2>6. Unseen(u) = 0 /\ Unseen(Current)' = 0
    BY <2>1, <2>5 DEF Unseen
  <2>7. PerpOver' = PerpOver /\ SpotOver' = SpotOver
    BY <1>1, <2>2, <2>3, <2>4, <2>6, BookFigures DEF PerpOver, SpotOver
  <2>8. vPerp >= 0 => vPerp' >= 0
    <3>1. u.perpLeg.need \in Int /\ vPerp \in Int
      BY <2>1, LegsOf, BookFigures DEF LegType
    <3> QED
      BY <2>1, <2>2, <3>1, FillWithinShort
  <2> QED
    BY <1>1, <2>1, <2>5, <2>7, <2>8, TakerBook, BookFigures
<1>3. CASE SpotLeg(i, k)
  <2>1. /\ u = tasks[i] /\ u.kind = "now" /\ u.sale = NoSale /\ u.oid = 0 /\ Keeps(v, u)
        /\ v.sale = NoSale /\ u.spotLeg.at = "sent" /\ v.spotLeg.at = "done"
        /\ v.spotLeg.fill = k /\ v.perpLeg = u.perpLeg /\ k \in Nat
    BY <1>3, SpotLegEffect
  <2>2. vPerp' = vPerp /\ vSpot' = vSpot - k
    BY <1>3 DEF SpotLeg
  <2>3. SpotFlight(u) = 0 /\ SpotFlight(v) = k
    BY <2>1, NothingInFlight DEF SpotFlight, LegFlight, SaleFlight
  <2>4. PerpFlight(v) = PerpFlight(u)
    BY <2>1 DEF PerpFlight
  <2>5. v.oid = 0 /\ v.kind = "now"
    BY <2>1 DEF Keeps
  <2>6. Unseen(u) = 0 /\ Unseen(Current)' = 0
    BY <2>1, <2>5 DEF Unseen
  <2>7. PerpOver' = PerpOver /\ SpotOver' = SpotOver
    BY <1>1, <2>2, <2>3, <2>4, <2>6, BookFigures DEF PerpOver, SpotOver
  <2> QED
    BY <1>1, <2>1, <2>2, <2>5, <2>7, TakerBook, BookFigures
<1> QED
  BY <1>2, <1>3

\* Both replies are booked, up to one that is unknown.
LEMMA GatherBook ==
    ASSUME RegistryInv, RegistryInv', ShapeInv, BookInv, NEW i \in TaskId, Gather(i)
    PROVE  BookInv'
<1> DEFINE u == Current
           v == Current'
           p == u.perpLeg
           s == u.spotLeg
           unknown == "ambiguous" \in {p.at, s.at}
<1>1. /\ u = tasks[i] /\ u.kind = "now" /\ u.sale = NoSale /\ u.oid = 0 /\ Keeps(v, u) /\ Calm(v)
      /\ p.at \in {"done", "ambiguous"} /\ s.at \in {"done", "ambiguous"}
      /\ p.fill \in Nat /\ s.fill \in Nat
      /\ unknown => "leg_ambiguous" \in ExitFaults
  BY GatherEffect
<1>2. /\ UNCHANGED <<book, adl, vPerp, vSpot, taker>>
      /\ dbPerp' = IF p.at = "done" THEN dbPerp - p.fill ELSE dbPerp
      /\ dbSpot' = IF unknown THEN dbSpot ELSE dbSpot - s.fill
  BY <1>1 DEF Gather, venue
<1>3. unknown => ~PerpClean' /\ ~SpotClean'
  <2>1. taker /\ taker'
    BY <1>1, <1>2 DEF ShapeInv
  <2> QED
    BY <1>1, <2>1 DEF PerpClean, SpotClean, LegsKnown
<1>4. PerpFlight(u) = p.fill /\ PerpFlight(v) = 0 /\ SpotFlight(u) = s.fill /\ SpotFlight(v) = 0
  BY <1>1, NothingInFlight DEF PerpFlight, SpotFlight, LegFlight
<1>5. v.oid = 0 /\ v.kind = "now"
  BY <1>1 DEF Keeps
<1>6. Unseen(u) = 0 /\ Unseen(Current)' = 0
  BY <1>1, <1>5 DEF Unseen
<1>7. PerpOver' = PerpOver \/ (PerpOver' >= 0 /\ ~PerpClean')
  <2>1. PerpOver = dbPerp - vPerp - (0 + p.fill) /\ PerpOver' = dbPerp' - vPerp - (0 + 0)
    BY <1>2, <1>4, <1>6 DEF PerpOver
  <2>2. dbPerp \in Int /\ vPerp \in Int /\ PerpOver >= 0
    BY BookFigures
  <2>3. CASE p.at = "done"
    BY <1>1, <1>2, <2>1, <2>2, <2>3
  <2>4. CASE p.at = "ambiguous"
    BY <1>1, <1>2, <1>3, <2>1, <2>2, <2>4
  <2> QED
    BY <1>1, <2>3, <2>4
<1>8. SpotOver' = SpotOver \/ (SpotOver' >= 0 /\ ~SpotClean')
  <2>1. SpotOver = dbSpot - vSpot - s.fill /\ SpotOver' = dbSpot' - vSpot - 0
    BY <1>2, <1>4 DEF SpotOver
  <2>2. dbSpot \in Int /\ vSpot \in Int /\ SpotOver >= 0
    BY BookFigures
  <2>3. CASE unknown
    BY <1>1, <1>2, <1>3, <2>1, <2>2, <2>3
  <2>4. CASE ~unknown
    BY <1>1, <1>2, <2>1, <2>2, <2>4
  <2> QED
    BY <2>3, <2>4
<1> QED
  BY <1>1, <1>2, <1>5, <1>7, <1>8, TakerBook, BookFigures

\* The hedge guard writes off what the venue closed by itself.
LEMMA GuardRebalanceBook ==
    ASSUME RegistryInv, RegistryInv', ShapeInv, BookInv, NEW c \in Callers, GuardRebalance(c)
    PROVE  BookInv'
<1>1. /\ UNCHANGED <<book, adl, vPerp, vSpot, dbSpot, taker>> /\ dbPerp' = vPerp
      /\ ~HasTask /\ dbPerp - vPerp > Tolerance
  BY DEF GuardRebalance, venue
<1>2. Current' = Current /\ Current = Unborn
  BY <1>1, AsksEffect, NoTaskUnborn
<1>3. Unseen(Current) = 0 /\ Unseen(Current)' = 0
  BY <1>2, UnbornShape DEF Unseen
<1>4. PerpFlight(Current) = 0 /\ SpotFlight(Current) = 0
  BY <1>2, NothingInFlight
<1>5. PerpOver = dbPerp - vPerp /\ PerpOver' = 0 /\ SpotOver' = SpotOver
  <2>1. PerpOver' = dbPerp' - vPerp' - (0 + 0)
    BY <1>2, <1>3, <1>4 DEF PerpOver
  <2> QED
    BY <1>1, <1>2, <1>3, <1>4, <2>1, BookFigures DEF PerpOver, SpotOver
<1>6. ~PerpClean'
  <2>1. PerpOver # 0
    BY <1>1, <1>5, BookFigures DEF Tolerance
  <2>2. ~PerpClean
    BY <2>1 DEF BookInv, Books
  <2> QED
    BY <1>1, <2>2 DEF PerpClean, LegsKnown, NoOrphans
<1> QED
  BY <1>1, <1>2, <1>5, <1>6, UnbornShape, TakerBook, BookFigures

-------------------------------------------------------------------------------
\* The venues.

\* An order is answered: it changes nothing of what was executed.
LEMMA VenueAnswersBook ==
    ASSUME RegistryInv, RegistryInv', ShapeInv, BookInv, NEW o \in Order,
           VenueAccept(o) \/ VenueReject(o)
    PROVE  BookInv'
<1>1. /\ UNCHANGED <<oqty, exec, placed, vPerp, vSpot, adl, dbPerp, dbSpot, taker, mode, caller>>
      /\ ost[o] = "sent"
      /\ \E at \in {"open", "rejected"} : ost' = [ost EXCEPT ![o] = at]
  BY DEF VenueAccept, VenueReject, rows, process
<1>2. Current' = Current
  BY VenueEffect DEF VenueStep, VenueAnswers
<1>3. ost \in [Order -> {"none", "sent", "open", "filled", "cancelled", "rejected"}]
  BY DEF RegistryInv, World
<1>4. Unseen(Current)' = Unseen(Current)
  BY <1>1, <1>2 DEF Unseen
<1>5. PerpOver' = PerpOver /\ SpotOver' = SpotOver
  BY <1>1, <1>2, <1>4 DEF PerpOver, SpotOver
<1>6. Orders'
  BY <1>1, <1>2, <1>3 DEF BookInv, Orders
<1>7. NoOrphans => Owned'
  <2>1. SUFFICES ASSUME NoOrphans PROVE Owned'
    OBVIOUS
  <2>2. Owned /\ Wanted'
    BY <1>1, <1>2, <2>1, WantedStays DEF BookInv
  <2>3. \A p \in Order : OrderLive(p)' => Current'.oid = p
    BY <1>1, <1>2, <1>3, <2>2 DEF Owned, OrderLive
  <2>4. Current.oid # 0 => Current.oid \in Order
    BY OrderAtHand
  <2>5. Current'.oid # 0 /\ Current'.pc # "placing" => ost'[Current'.oid] \in {"open", "filled"}
    BY <1>1, <1>2, <1>3, <2>2, <2>4 DEF Owned
  <2> QED
    BY <2>2, <2>3, <2>5 DEF Owned
<1>8. adl' >= adl /\ (PerpClean /\ vPerp >= 0 => vPerp' >= 0)
  BY <1>1, BookFigures
<1> QED
  BY <1>1, <1>5, <1>6, <1>7, <1>8, BookFrom

\* A fill of the order at hand is one more that its task will see; of another, one
\* that no row will say.
LEMMA VenueFillBook ==
    ASSUME RegistryInv, RegistryInv', ShapeInv, BookInv, NEW o \in Order, NEW k \in 1..Size,
           VenueFill(o, k)
    PROVE  BookInv'
<1> DEFINE u == Current
<1>1. /\ UNCHANGED <<oqty, placed, vSpot, adl, dbPerp, dbSpot, taker, mode, caller>>
      /\ ost[o] = "open" /\ exec[o] + k <= oqty[o] /\ vPerp' = vPerp - k
      /\ exec' = [exec EXCEPT ![o] = @ + k]
      /\ \E at \in {"open", "filled"} : ost' = [ost EXCEPT ![o] = at]
  BY DEF VenueFill, rows, process
<1>2. Current' = u
  BY VenueEffect DEF VenueStep
<1>3. /\ ost \in [Order -> {"none", "sent", "open", "filled", "cancelled", "rejected"}]
      /\ oqty \in [Order -> Nat] /\ exec \in [Order -> Nat] /\ k \in Nat \ {0}
  BY ExitAssumption DEF RegistryInv, World
<1>4. u.oid # 0 => /\ u.oid \in Order /\ u.seen \in Nat /\ u.floor \in Nat
                   /\ Unseen(u) = exec[u.oid] - u.seen /\ PerpFlight(u) = 0
  BY OrderAtHand
<1>5. SpotOver' = SpotOver
  BY <1>1, <1>2 DEF SpotOver
<1>6. /\ PerpOver' = PerpOver \/ (PerpOver' >= 0 /\ ~PerpClean')
      /\ PerpClean => vPerp' >= 0
  <2>1. CASE u.oid = o
    <3>1. exec'[o] = exec[o] + k /\ o # 0
      BY <1>1, <1>3 DEF Order
    <3>2. Unseen(Current)' = Unseen(u) + k
      BY <1>2, <1>3, <1>4, <2>1, <3>1 DEF Unseen
    <3>3. PerpOver' = PerpOver
      BY <1>1, <1>2, <1>3, <3>2, BookFigures DEF PerpOver
    <3>4. ASSUME PerpClean
          PROVE  vPerp' >= 0
      <4>1. dbPerp - vPerp - (Unseen(u) + 0) = 0
        BY <1>4, <2>1, <3>1, <3>4 DEF BookInv, Books, PerpOver
      <4>2. oqty[o] - u.seen <= dbPerp - u.floor
        BY <2>1, <3>1 DEF BookInv, Orders
      <4>3. Unseen(u) = exec[o] - u.seen /\ u.seen \in Nat /\ u.floor \in Nat
        BY <1>4, <2>1, <3>1
      <4>4. oqty[o] \in Nat /\ exec[o] \in Nat /\ k \in Nat /\ vPerp \in Int /\ dbPerp \in Int
        BY <1>3, BookFigures
      <4>5. vPerp' = vPerp - k /\ exec[o] + k <= oqty[o]
        BY <1>1
      <4>6. dbPerp - vPerp = exec[o] - u.seen
        BY <4>1, <4>3, <4>4
      <4>7. oqty[o] <= dbPerp + u.seen
        BY <4>2, <4>3, <4>4
      <4>8. vPerp - k >= 0
        BY <4>3, <4>4, <4>5, <4>6, <4>7
      <4> QED
        BY <4>5, <4>8
    <3> QED
      BY <3>3, <3>4
  <2>2. CASE u.oid # o
    <3>1. ~NoOrphans
      BY <1>1, <2>2 DEF BookInv, Owned, OrderLive
    <3>2. Unseen(Current)' = Unseen(u)
      BY <1>1, <1>2, <1>3, <1>4, <2>2 DEF Unseen
    <3>3. PerpOver' = PerpOver + k
      BY <1>1, <1>2, <1>3, <3>2, BookFigures DEF PerpOver
    <3>4. PerpOver' >= 0
      BY <1>3, <3>3, BookFigures
    <3>5. ~PerpClean /\ ~PerpClean'
      BY <3>1 DEF PerpClean, NoOrphans
    <3> QED
      BY <3>4, <3>5
  <2> QED
    BY <2>1, <2>2
<1>7. Orders'
  <2>1. \A p \in Order : exec'[p] <= oqty'[p]
    BY <1>1, <1>3 DEF BookInv, Orders
  <2>2. \A p \in Order : ost'[p] \in {"none", "sent", "rejected"} => exec'[p] = 0
    BY <1>1, <1>3 DEF BookInv, Orders
  <2>3. \A p \in Order : p > placed' => ost'[p] = "none"
    BY <1>1, <1>3 DEF BookInv, Orders
  <2>4. Current'.oid # 0 => oqty'[Current'.oid] - Current'.seen <= dbPerp' - Current'.floor
    BY <1>1, <1>2 DEF BookInv, Orders
  <2> QED
    BY <2>1, <2>2, <2>3, <2>4 DEF Orders
<1>8. NoOrphans => Owned'
  <2>1. SUFFICES ASSUME NoOrphans PROVE Owned'
    OBVIOUS
  <2>2. Owned /\ Wanted'
    BY <1>1, <1>2, <2>1, WantedStays DEF BookInv
  <2>3. \A p \in Order : OrderLive(p)' => Current'.oid = p
    BY <1>1, <1>2, <1>3, <2>2 DEF Owned, OrderLive
  <2>4. Current'.oid # 0 /\ Current'.pc # "placing" => ost'[Current'.oid] \in {"open", "filled"}
    BY <1>1, <1>2, <1>3, <1>4, <2>2 DEF Owned
  <2> QED
    BY <2>2, <2>3, <2>4 DEF Owned
<1>9. adl' >= adl
  BY <1>1, BookFigures
<1> QED
  BY <1>1, <1>5, <1>6, <1>7, <1>8, <1>9, BookFrom

\* The venue closes contracts by itself, and the rows do not know.
LEMMA VenueReducesBook ==
    ASSUME RegistryInv, RegistryInv', ShapeInv, BookInv, NEW k \in 1..Size, VenueReduces(k)
    PROVE  BookInv'
<1>1. /\ UNCHANGED <<book, vSpot, dbPerp, dbSpot, taker, mode, caller>>
      /\ adl' = adl + 1 /\ vPerp' = vPerp - k /\ k <= vPerp /\ k \in Nat
  BY ExitAssumption DEF VenueReduces, rows, process
<1>2. Current' = Current
  BY VenueEffect DEF VenueStep
<1>3. UNCHANGED <<ost, oqty, exec, placed>>
  BY <1>1 DEF book
<1>4. Unseen(Current)' = Unseen(Current)
  BY <1>2, <1>3 DEF Unseen
<1>5. PerpOver' >= 0 /\ ~PerpClean'
  <2>1. PerpOver' = PerpOver + k
    BY <1>1, <1>2, <1>4, BookFigures DEF PerpOver
  <2> QED
    BY <1>1, <2>1, BookFigures DEF PerpClean
<1>6. SpotOver' = SpotOver
  BY <1>1, <1>2 DEF SpotOver
<1>7. Orders'
  BY <1>1, <1>2, <1>3 DEF BookInv, Orders
<1>8. NoOrphans => Owned'
  <2>1. SUFFICES ASSUME NoOrphans PROVE Owned'
    OBVIOUS
  <2>2. Owned /\ Wanted'
    BY <1>1, <1>2, <2>1, WantedStays DEF BookInv
  <2> QED
    BY <1>2, <1>3, <2>2 DEF Owned, OrderLive
<1>9. adl' >= adl /\ vPerp' >= 0
  BY <1>1, BookFigures
<1> QED
  BY <1>1, <1>5, <1>6, <1>7, <1>8, <1>9, BookFrom

-------------------------------------------------------------------------------
LEMMA BookNext ==
    ASSUME RegistryInv, RegistryInv', ShapeInv, BookInv, OneReplacer, [ExitNext]_exitVars
    PROVE  BookInv'
<1>1. CASE VenueStep
  BY <1>1, VenueAnswersBook, VenueFillBook, VenueReducesBook DEF VenueStep, VenueAnswers
<1>2. CASE SaleStep
  BY <1>2, SaleMovesBook, SaleRefusedBook DEF SaleStep
<1>3. ASSUME NEW i \in TaskId, PassiveStep(i),
             EventLoopFree \/ tasks[i].pc \in NoAwait \/ RequestOut(i)
      PROVE  BookInv'
  BY <1>3, ModeChangedBook, EndPhaseBook, PlaceBook, PlaceRepliesBook, PollBook, CancelOrderBook,
     LastLookFailsBook,
     KeepsOrderBook
  DEF PassiveStep
<1>4. ASSUME NEW i \in TaskId, TakerStep(i) \/ TimesOut(i) PROVE BookInv'
  BY <1>4, NoOrderBook, LegBook, GatherBook DEF TakerStep
<1>5. CASE \E i \in TaskId : TaskStep(i) \/ Deadline(i)
  BY <1>3, <1>4, <1>5, NoOrderBook DEF TaskStep, Deadline
<1>6. CASE \E c \in Callers : CallerStep(c)
  BY <1>6, AsksBook, GuardRebalanceBook, CancelTaskBook, SpawnBook DEF CallerStep, CallerGoesOn
<1>7. CASE ArmStops
  BY <1>7, ArmStopsBook
<1>8. CASE UNCHANGED exitVars
  <2>1. UNCHANGED <<book, ost, oqty, exec, placed, vPerp, vSpot, adl, dbPerp, dbSpot, taker, mode,
                    caller, tasks, latest>>
    BY <1>8 DEF exitVars, venue, rows, book, process
  <2>2. Current' = Current
    BY <2>1 DEF Current
  <2> QED
    BY <2>1, <2>2, WantedStays, QuietStep
<1> QED
  BY <1>1, <1>2, <1>5, <1>6, <1>7, <1>8 DEF ExitNext

\* The rows never say less than the venues hold, the order that rests is the one
\* its task knows, and no buy-back is for more than what is left above the floor.
THEOREM BookInvariance == ExitSpec /\ []OneReplacer => []BookInv
<1>1. ExitInit => BookInv
  BY BookInit
<1>2. RegistryInv /\ RegistryInv' /\ ShapeInv /\ BookInv /\ OneReplacer /\ [ExitNext]_exitVars
          => BookInv'
  BY BookNext
<1> QED
  BY <1>1, <1>2, RegistryInvariance, ShapeInvariance, PTL DEF ExitSpec

LEMMA RestingOrderHasTask ==
    ASSUME RegistryInv, ShapeInv, BookInv, NoOrphans
    PROVE  NoOrderOutlivesExit
<1>1. SUFFICES ASSUME NEW o \in Order, OrderLive(o)
               PROVE  \E i \in TaskId : Alive(i) /\ tasks[i].oid = o
  BY DEF NoOrderOutlivesExit
<1>2. Current.oid = o /\ o # 0
  BY <1>1 DEF BookInv, Owned, Order
<1>3. HasTask
  BY <1>2, OrderAtHand
<1>4. latest \in TaskId /\ Current = tasks[latest] /\ Alive(latest)
  BY <1>3 DEF HasTask, Current, RegistryInv, Registry
<1> QED
  BY <1>2, <1>4

\* A maker buy-back is never left on the book by its task: the order that rests is
\* the one that the task at work, or its cleanup, takes down (_run_passive_exit and
\* its handler of CancelledError), as long as no request is cut off, no placing, poll
\* or cancel fails, and cancelling the stops takes less than a poll: each of these five
\* faults of NoOrphans leaves an order behind.
THEOREM OrdersAreTakenDown ==
    ASSUME NoOrphans
    PROVE  ExitSpec /\ []OneReplacer => []NoOrderOutlivesExit
<1>1. RegistryInv /\ ShapeInv /\ BookInv => NoOrderOutlivesExit
  BY RestingOrderHasTask
<1> QED
  BY <1>1, RegistryInvariance, ShapeInvariance, BookInvariance, PTL

LEMMA RowsAtRest ==
    ASSUME RegistryInv, ShapeInv, BookInv, NoOrphans,
           ExitFaults \cap {"sale_ambiguous", "leg_ambiguous"} = {}
    PROVE  RowsMatchAtRest
<1>1. SUFFICES ASSUME AtRest PROVE dbSpot = vSpot /\ (adl = 0 => dbPerp = vPerp)
  BY DEF RowsMatchAtRest
<1>2. ~HasTask
  BY <1>1 DEF AtRest, HasTask, RegistryInv, Registry
<1>3. Unseen(Current) = 0 /\ PerpFlight(Current) = 0 /\ SpotFlight(Current) = 0
  BY <1>2, NoTaskUnborn, NothingInFlight DEF Unseen
<1>4. SpotClean /\ (adl = 0 => PerpClean)
  BY DEF SpotClean, PerpClean, LegsKnown, NoOrphans
<1>5. /\ vPerp \in Int /\ vSpot \in Int /\ dbPerp \in Int /\ dbSpot \in Int
  BY DEF RegistryInv, World
<1> QED
  BY <1>3, <1>4, <1>5 DEF BookInv, Books, PerpOver, SpotOver

\* Every fill of every order, sale and leg is booked once: when nothing works on the
\* position its rows say what the venues hold, but for what the venue closed by
\* itself, in every behaviour in which no order is orphaned (NoOrphans: no cancel fails
\* among others) and no outcome is lost.
THEOREM RowsAreExactAtRest ==
    ASSUME NoOrphans, ExitFaults \cap {"sale_ambiguous", "leg_ambiguous"} = {}
    PROVE  ExitSpec /\ []OneReplacer => []RowsMatchAtRest
<1>1. RegistryInv /\ ShapeInv /\ BookInv => RowsMatchAtRest
  BY RowsAtRest
<1> QED
  BY <1>1, RegistryInvariance, ShapeInvariance, BookInvariance, PTL

-------------------------------------------------------------------------------
\* The close: what CLOSED in the rows stands for.

\* A run that books its profit has found both legs to be dust, and the rows of the
\* position do not change under it.
Accruing == Current.pc = "accrue" => Untradeable(dbPerp) /\ Untradeable(dbSpot)

\* A closed position is left alone.
Closed ==
    NoOrphans /\ state = "CLOSED" =>
        /\ ~HasTask
        /\ \A c \in Callers : caller[c].pc = "idle"
        /\ Untradeable(dbPerp) /\ Untradeable(dbSpot)

CloseInv == Accruing /\ Closed

\* Every step of a run needs one.
LEMMA TaskStepHasTask ==
    ASSUME RegistryInv, ShapeInv, NEW i \in TaskId,
           \/ TaskStep(i) \/ Deadline(i)
           \/ (\E k \in 0..Size : SaleSends(i, k)) \/ SaleRefused(i) \/ SaleReplies(i)
           \/ SaleAmbiguous(i)
    PROVE  HasTask
<1>1. PassiveStep(i) => HasTask
  BY ModeChangedEffect, EndPhaseEffect, RestNothingEffect, PlaceEffect, PlaceRepliesEffect,
     PollEffect, CancelOrderEffect, LastLookFailsEffect, SkipSaleEffect, BeginSaleEffect,
     SaleOverEffect, CheckSaleEffect, SaleAwaitedEffect
  DEF PassiveStep
<1>2. TakerStep(i) \/ TimesOut(i) => HasTask
  BY FinishedEffect, SendLegsEffect, PerpLegEffect, SpotLegEffect, LegAmbiguousEffect,
     GatherEffect, TrancheEffect, TrancheOverEffect
  DEF TakerStep
<1>3. TaskStep(i) \/ Deadline(i) => HasTask
  BY <1>1, <1>2, StartEffect, CompleteEffect, AccruedEffect DEF TaskStep, Deadline
<1> QED
  BY <1>3, SaleSendsEffect, SaleRefusedEffect, SaleRepliesEffect, SaleAmbiguousEffect

\* Nothing is at work on a closed position, and nobody goes to work on it.
LEMMA ClosedStays ==
    ASSUME RegistryInv, ShapeInv, Closed, NoOrphans, state = "CLOSED", [ExitNext]_exitVars
    PROVE  UNCHANGED <<tasks, latest, caller, state, dbPerp, dbSpot>>
<1>1. ~HasTask /\ \A c \in Callers : caller[c].pc = "idle"
  BY DEF Closed
<1>2. CASE VenueStep
  BY <1>2 DEF VenueStep, VenueAnswers, VenueAccept, VenueReject, VenueFill, VenueReduces, rows, process
<1>3. ~SaleStep
  BY <1>1, TaskStepHasTask DEF SaleStep
<1>4. ~(\E i \in TaskId : TaskStep(i) \/ Deadline(i))
  BY <1>1, TaskStepHasTask
<1>5. ASSUME NEW c \in Callers
      PROVE  ~CallerStep(c)
  BY <1>1 DEF CallerStep, CallerGoesOn, AskExit, AskStandDown, GuardRebalance, StopsCancelled,
              CancelTask, Spawn, StoodDown, MayProceed
<1>6. ~ArmStops
  BY DEF ArmStops
<1>7. CASE UNCHANGED exitVars
  BY <1>7 DEF exitVars, rows, process
<1> QED
  BY <1>2, <1>3, <1>4, <1>5, <1>6, <1>7 DEF ExitNext

LEMMA AccruingNext ==
    ASSUME RegistryInv, ShapeInv, Accruing, OneReplacer, [ExitNext]_exitVars
    PROVE  Accruing'
<1> DEFINE u == Current
           v == Current'
<1>1. CASE VenueStep
  <2>1. UNCHANGED <<dbPerp, dbSpot>>
    BY <1>1 DEF VenueStep, VenueAnswers, VenueAccept, VenueReject, VenueFill, VenueReduces, rows
  <2> QED
    BY <1>1, <2>1, VenueEffect DEF Accruing, Untradeable
<1>2. CASE SaleStep
  <2>1. PICK i \in TaskId : (\E k \in 0..Size : SaleSends(i, k)) \/ SaleRefused(i)
                            \/ SaleReplies(i) \/ SaleAmbiguous(i)
    BY <1>2 DEF SaleStep
  <2>2. u = tasks[i] /\ v.pc = u.pc /\ u.sale.at # "none"
    BY <2>1, SaleSendsEffect, SaleRefusedEffect, SaleRepliesEffect, SaleAmbiguousEffect
  <2>3. u.pc # "accrue"
    BY <2>2, ShapeOf DEF FrameShape
  <2> QED
    BY <2>2, <2>3 DEF Accruing
<1>3. ASSUME NEW i \in TaskId, PassiveStep(i) PROVE v.pc # "accrue"
  <2>1. CASE ModeChanged(i) \/ PollFails(i)
    BY <2>1, ModeChangedEffect, UnbornShape
  <2>2. CASE EndPhase(i) \/ RestNothing(i) \/ (\E q \in 1..Size : Place(i, q)) \/ PlaceReplies(i)
             \/ (\E reprice \in BOOLEAN : Poll(i, reprice)) \/ CancelOrder(i)
    BY <2>2, EndPhaseEffect, RestNothingEffect, PlaceEffect, PlaceRepliesEffect, PollEffect,
       CancelOrderEffect
  <2>3. CASE SkipSale(i) \/ BeginSale(i) \/ SaleOver(i) \/ CheckSale(i) \/ SaleAwaited(i)
    BY <2>3, SkipSaleEffect, BeginSaleEffect, SaleOverEffect, CheckSaleEffect, SaleAwaitedEffect,
       UnbornShape
  <2>4. CASE LastLookFails(i)
    BY <2>4, LastLookFailsEffect, UnbornShape
  <2> QED
    BY <1>3, <2>1, <2>2, <2>3, <2>4 DEF PassiveStep
<1>4. ASSUME NEW i \in TaskId, TakerStep(i) \/ TimesOut(i) PROVE v.pc # "accrue"
  BY <1>4, FinishedEffect, SendLegsEffect, PerpLegEffect, SpotLegEffect, LegAmbiguousEffect,
     GatherEffect, TrancheEffect, TrancheOverEffect, UnbornShape
  DEF TakerStep
<1>5. ASSUME NEW i \in TaskId, Complete(i) PROVE Accruing'
  <2>1. UNCHANGED <<dbPerp, dbSpot>>
    BY <1>5 DEF Complete
  <2> QED
    BY <1>5, <2>1, CompleteEffect, UnbornShape DEF Accruing, Untradeable
<1>6. CASE \E i \in TaskId : TaskStep(i) \/ Deadline(i)
  BY <1>3, <1>4, <1>5, <1>6, StartEffect, AccruedEffect, UnbornShape
  DEF TaskStep, Deadline, Accruing
<1>7. ASSUME NEW c \in Callers, CallerStep(c) PROVE Accruing'
  <2>1. CASE GuardRebalance(c)
    <3>1. v = u /\ ~HasTask
      BY <2>1, AsksEffect DEF GuardRebalance
    <3> QED
      BY <3>1, NoTaskUnborn, UnbornShape DEF Accruing
  <2>2. CASE \/ \E m \in Modes, f \in Floors : AskExit(c, m, f)
             \/ AskStandDown(c) \/ StopsCancelled(c) \/ StoodDown(c)
    <3>1. UNCHANGED <<dbPerp, dbSpot>>
      BY <2>2 DEF AskExit, AskStandDown, StopsCancelled, StoodDown, rows
    <3>2. v = u
      BY <2>2, AsksEffect
    <3> QED
      BY <3>1, <3>2 DEF Accruing, Untradeable
  <2>3. CASE CancelTask(c)
    BY <2>3, CancelTaskEffect, UnbornShape DEF Accruing
  <2>4. CASE Spawn(c)
    BY <2>4, SpawnEffect DEF Accruing
  <2> QED
    BY <1>7, <2>1, <2>2, <2>3, <2>4 DEF CallerStep, CallerGoesOn
<1>8. CASE ArmStops
  <2>1. UNCHANGED <<dbPerp, dbSpot>>
    BY <1>8 DEF ArmStops, rows
  <2> QED
    BY <1>8, <2>1, ArmStopsEffect DEF Accruing, Untradeable
<1>9. CASE UNCHANGED exitVars
  <2>1. UNCHANGED <<dbPerp, dbSpot, tasks, latest>>
    BY <1>9 DEF exitVars, rows, process
  <2> QED
    BY <2>1 DEF Accruing, Current, Untradeable
<1> QED
  BY <1>1, <1>2, <1>6, <1>7, <1>8, <1>9 DEF ExitNext

\* Only a run that has booked its profit closes the position, and nobody is on the
\* way to cancel it at that moment.
LEMMA ClosesByAccrual ==
    ASSUME [ExitNext]_exitVars, state # "CLOSED", state' = "CLOSED"
    PROVE  \E i \in TaskId : Accrued(i) /\ TaskStep(i)
<1>1. ASSUME VenueStep \/ SaleStep \/ ArmStops \/ UNCHANGED exitVars PROVE FALSE
  BY <1>1 DEF VenueStep, VenueAnswers, VenueAccept, VenueReject, VenueFill, VenueReduces, SaleStep,
     SaleSends, SaleRefused, SaleReplies, SaleAmbiguous, ArmStops, exitVars, rows
<1>2. ASSUME NEW c \in Callers, CallerStep(c) PROVE FALSE
  BY <1>2 DEF CallerStep, CallerGoesOn, AskExit, AskStandDown, GuardRebalance, StopsCancelled,
     CancelTask, Spawn, StoodDown, rows
<1>3. ASSUME NEW i \in TaskId, PassiveStep(i) PROVE FALSE
  BY <1>3 DEF PassiveStep, ModeChanged, EndPhase, RestNothing, Place, PlaceReplies, Poll, PollFails,
     CancelOrder, LastLookFails, SkipSale, BeginSale, SaleOver, CheckSale, SaleAwaited, rows
<1>4. ASSUME NEW i \in TaskId, TakerStep(i) \/ TimesOut(i) PROVE FALSE
  BY <1>4 DEF TakerStep, Finished, TimesOut, SendLegs, PerpLeg, SpotLeg, LegAmbiguous, Gather,
     Tranche, TrancheOver, rows
<1>5. ASSUME NEW i \in TaskId, Start(i) \/ Complete(i) PROVE FALSE
  BY <1>5 DEF Start, Complete
<1>6. CASE \E i \in TaskId : TaskStep(i) \/ Deadline(i)
  BY <1>3, <1>4, <1>5, <1>6 DEF TaskStep, Deadline
<1> QED
  BY <1>1, <1>2, <1>6 DEF ExitNext

LEMMA CloseNext ==
    ASSUME RegistryInv, RegistryInv', ShapeInv, CloseInv, OneReplacer, [ExitNext]_exitVars
    PROVE  CloseInv'
<1>1. Accruing'
  BY AccruingNext DEF CloseInv
<1>2. Closed'
  <2>1. SUFFICES ASSUME NoOrphans, state' = "CLOSED"
                 PROVE  /\ ~HasTask'
                        /\ \A c \in Callers : caller'[c].pc = "idle"
                        /\ Untradeable(dbPerp)' /\ Untradeable(dbSpot)'
    BY DEF Closed, NoOrphans
  <2>2. CASE state = "CLOSED"
    <3>1. UNCHANGED <<tasks, latest, caller, state, dbPerp, dbSpot>>
      BY <2>1, <2>2, ClosedStays DEF CloseInv
    <3> QED
      BY <2>1, <2>2, <3>1 DEF CloseInv, Closed, HasTask, Alive, Untradeable
  <2>3. CASE state # "CLOSED"
    <3>1. PICK i \in TaskId : Accrued(i) /\ TaskStep(i)
      BY <2>1, <2>3, ClosesByAccrual
    <3>2. /\ Current = tasks[i] /\ HasTask /\ Current' = Unborn /\ Current.pc = "accrue"
          /\ ~Current.dying
      BY <3>1, AccruedEffect
    <3>3. UNCHANGED <<caller, dbPerp, dbSpot>>
      BY <3>1 DEF Accrued
    <3>4. Untradeable(dbPerp) /\ Untradeable(dbSpot)
      BY <3>2 DEF CloseInv, Accruing
    <3>5. \A c \in Callers : caller[c].pc \notin {"stops", "cancel", "await"}
      <4>1. EventLoopFree \/ tasks[i].pc \in NoAwait \/ RequestOut(i)
        BY <3>1 DEF TaskStep
      <4>2. \A c \in Callers : caller[c].pc \notin {"stops", "cancel"}
        BY <2>1, <3>2, <4>1, NobodyCancels
      <4> QED
        BY <3>2, <4>2 DEF ShapeInv
    <3>6. \A c \in Callers : caller[c].pc = "idle"
      BY <3>5 DEF RegistryInv, Registry, CallerType
    <3>7. ~HasTask'
      BY <3>2, UnbornShape DEF Current, HasTask, Alive
    <3> QED
      BY <3>3, <3>4, <3>6, <3>7 DEF Untradeable
  <2> QED
    BY <2>2, <2>3
<1> QED
  BY <1>1, <1>2 DEF CloseInv

\* A closed position is at rest, and both of its legs are dust in the rows.
THEOREM CloseInvariance == ExitSpec /\ []OneReplacer => []CloseInv
<1>1. ExitInit => CloseInv
  BY UnbornShape DEF ExitInit, CloseInv, Accruing, Closed, Current
<1>2. RegistryInv /\ RegistryInv' /\ ShapeInv /\ CloseInv /\ OneReplacer /\ [ExitNext]_exitVars
          => CloseInv'
  BY CloseNext
<1> QED
  BY <1>1, <1>2, RegistryInvariance, ShapeInvariance, PTL DEF ExitSpec

LEMMA ClosedIsFlat ==
    ASSUME RegistryInv, ShapeInv, BookInv, CloseInv, NoOrphans, "leg_ambiguous" \notin ExitFaults
    PROVE  ClosedMeansFlat
<1>1. SUFFICES ASSUME state = "CLOSED", adl = 0
               PROVE  /\ vPerp \in 0..(MinNotional - 1)
                      /\ vSpot < MinNotional
                      /\ \A o \in Order : ~OrderLive(o)
  BY DEF ClosedMeansFlat
<1>2. Current = Unborn /\ dbPerp < MinNotional /\ dbSpot < MinNotional
  BY <1>1, NoTaskUnborn DEF CloseInv, Closed, Untradeable
<1>3. Unseen(Current) = 0 /\ PerpFlight(Current) = 0 /\ SpotFlight(Current) = 0
  BY <1>2, NothingInFlight DEF Unseen
<1>4. PerpClean
  BY <1>1 DEF PerpClean, LegsKnown
<1>5. /\ vPerp \in Int /\ vSpot \in Int /\ dbPerp \in Int /\ dbSpot \in Int
  BY DEF RegistryInv, World
<1>6. dbPerp = vPerp /\ vSpot <= dbSpot /\ vPerp >= 0
  BY <1>3, <1>4, <1>5 DEF BookInv, Books, PerpOver, SpotOver, ShortKept
<1>7. \A o \in Order : ~OrderLive(o)
  BY <1>2, UnbornShape DEF BookInv, Owned, Order
<1>8. MinNotional \in Nat
  BY ExitAssumption
<1> QED
  BY <1>2, <1>5, <1>6, <1>7, <1>8

\* A position is closed in the rows only when both legs are gone at the venues and
\* nothing that could open one again still rests (_complete_exit, _finalize_close).
\* A spot sale of unknown outcome may have sold more than the rows say, never less.
\* No order is orphaned (NoOrphans) and the outcome of every taker leg is known.
THEOREM ClosedIsFlatAtTheVenues ==
    ASSUME NoOrphans, "leg_ambiguous" \notin ExitFaults
    PROVE  ExitSpec /\ []OneReplacer => []ClosedMeansFlat
<1>1. RegistryInv /\ ShapeInv /\ BookInv /\ CloseInv => ClosedMeansFlat
  BY ClosedIsFlat
<1> QED
  BY <1>1, RegistryInvariance, ShapeInvariance, BookInvariance, CloseInvariance, PTL

-------------------------------------------------------------------------------
(***************************************************************************)
(* The hedge: no spot is sold that still covers a perp (SpotCoversPerp),   *)
(* and none is left behind without a word when its perp is gone            *)
(* (NakedSpotIsReported).                                                  *)
(***************************************************************************)

\* What the run is to sell: in hand, or not yet sold by the sale that goes on.
Due(f) == IF f.sale.at = "none" THEN f.toSell ELSE f.sale.need

\* The rows' perp is within the hedge guard's tolerance after a reduction.
Tiny == adl > 0 /\ dbPerp <= Tolerance
\* All of the spot above the floor of a sell-down may go.
BelowFloor(floor) == dbPerp <= floor \/ (Tiny /\ floor = 0)

\* Until a taker close, the spot of the rows that is not to be sold covers their perp.
CoverInv ==
    NoOrphans /\ ~taker =>
        /\ dbSpot - Due(Current) >= dbPerp \/ Tiny
        /\ Current.kind = "selldown" => BelowFloor(Current.floor)
        /\ \A c \in Callers : caller[c].op = "selldown" => BelowFloor(caller[c].floor)

-------------------------------------------------------------------------------
LEMMA DueNat ==
    ASSUME RegistryInv, ShapeInv
    PROVE  Due(Current) \in Nat
<1>1. CASE latest = 0
  BY <1>1, UnbornShape DEF Current, Due
<1>2. CASE latest # 0
  <2>1. latest \in TaskId /\ Current = tasks[latest]
    BY <1>2 DEF Current, RegistryInv, Registry
  <2>2. FrameShape(Current) /\ Current.toSell \in Int /\ Current.sale.need \in Int
    BY <2>1, ShapeOf
  <2> QED
    BY <2>2 DEF FrameShape, Due
<1> QED
  BY <1>1, <1>2

LEMMA CalmDue == \A f : f.sale = NoSale => Due(f) = f.toSell
  BY UnbornShape DEF Due

\* A step of the task that takes no more off the cover than off what is to be sold.
LEMMA CoverStep ==
    ASSUME RegistryInv, RegistryInv', ShapeInv, CoverInv, dbPerp' <= dbPerp, adl' >= adl,
           taker => taker', UNCHANGED caller,
           NoOrphans /\ ~taker' /\ CoverInv =>
               LET u == Current  v == Current' IN
               /\ \/ Due(v) \in Int /\ dbSpot' - Due(v) - dbPerp' >= dbSpot - Due(u) - dbPerp
                  \/ Due(v) \in Int /\ dbSpot' - Due(v) >= dbPerp'
                  \/ Tiny
               /\ v.kind = "selldown" => u.kind = "selldown" /\ v.floor = u.floor
    PROVE  CoverInv'
<1>1. SUFFICES ASSUME NoOrphans, ~taker'
               PROVE  /\ dbSpot' - Due(Current') >= dbPerp' \/ Tiny'
                      /\ Current'.kind = "selldown" => BelowFloor(Current.floor)'
                      /\ \A c \in Callers : caller'[c].op = "selldown" => BelowFloor(caller[c].floor)'
  BY DEF CoverInv, NoOrphans, Due
<1>2. /\ dbSpot - Due(Current) >= dbPerp \/ Tiny
      /\ Current.kind = "selldown" => BelowFloor(Current.floor)
      /\ \A c \in Callers : caller[c].op = "selldown" => BelowFloor(caller[c].floor)
  BY <1>1 DEF CoverInv
<1>3. /\ \/ /\ Due(Current') \in Int
            /\ dbSpot' - Due(Current') - dbPerp' >= dbSpot - Due(Current) - dbPerp
         \/ Due(Current') \in Int /\ dbSpot' - Due(Current') >= dbPerp'
         \/ Tiny
      /\ Current'.kind = "selldown" => Current.kind = "selldown" /\ Current'.floor = Current.floor
  BY <1>1
<1>4. /\ dbPerp \in Int /\ dbSpot \in Int /\ dbPerp' \in Int /\ dbSpot' \in Int
      /\ adl \in Nat /\ adl' \in Nat
  BY NextTyped DEF RegistryInv, World
<1>5. Tiny => Tiny'
  BY <1>4 DEF Tiny, Tolerance
<1>6. dbSpot' - Due(Current') >= dbPerp' \/ Tiny'
  BY <1>2, <1>3, <1>4, <1>5, DueNat
<1>7. ASSUME Current'.kind = "selldown"
      PROVE  BelowFloor(Current.floor)'
  <2>1. BelowFloor(Current.floor) /\ Current'.floor = Current.floor /\ Current.floor \in Nat
    BY <1>2, <1>3, <1>7, CurrentTyped DEF TaskType
  <2> QED
    BY <1>4, <1>5, <2>1 DEF BelowFloor
<1>8. ASSUME NEW c \in Callers, caller'[c].op = "selldown"
      PROVE  BelowFloor(caller[c].floor)'
  <2>1. BelowFloor(caller[c].floor) /\ caller' = caller /\ caller[c].floor \in Nat
    BY <1>2, <1>8, CallerTypes DEF RegistryInv
  <2> QED
    BY <1>4, <1>5, <2>1 DEF BelowFloor
<1> QED
  BY <1>6, <1>7, <1>8

LEMMA UnbornDue == Due(Unborn) = 0
  BY UnbornShape DEF Due

\* The steps that leave the rows alone: what is to be sold grows by none of them.
LEMMA DueFalls ==
    ASSUME RegistryInv, ShapeInv, NEW i \in TaskId,
           \/ ModeChanged(i) \/ PollFails(i) \/ RestNothing(i) \/ (\E q \in 1..Size : Place(i, q))
           \/ PlaceReplies(i) \/ SkipSale(i) \/ BeginSale(i) \/ SaleOver(i)
           \/ Start(i) \/ Complete(i) \/ Accrued(i) \/ Finished(i) \/ TimesOut(i)
           \/ TrancheOver(i)
           \/ (\E k \in 0..Size : SaleSends(i, k)) \/ SaleRefused(i) \/ SaleAmbiguous(i)
    PROVE  LET u == Current  v == Current' IN
           /\ Due(v) \in Nat /\ Due(v) <= Due(u)
           /\ v.kind = "selldown" => u.kind = "selldown" /\ v.floor = u.floor
<1> DEFINE u == Current
           v == Current'
<1>0. Due(u) \in Nat /\ Due(Unborn) = 0 /\ Unborn.kind # "selldown"
  BY DueNat, UnbornDue, UnbornShape
<1>1. CASE ModeChanged(i) \/ PollFails(i) \/ Accrued(i)
  BY <1>0, <1>1, ModeChangedEffect, AccruedEffect
<1>2. CASE RestNothing(i) \/ (\E q \in 1..Size : Place(i, q)) \/ PlaceReplies(i)
  <2>1. Calm(u) /\ Calm(v) /\ v.toSell = u.toSell /\ v.kind = "passive"
    BY <1>2, RestNothingEffect, PlaceEffect, PlaceRepliesEffect DEF Keeps
  <2>2. Due(v) = Due(u)
    BY <2>1, CalmDue DEF Calm
  <2> QED
    BY <1>0, <2>1, <2>2
<1>3. CASE SkipSale(i)
  <2>1. /\ Calm(u) /\ u.toSell \in Nat /\ u.kind = "passive"
        /\ v = Unborn \/ (Keeps(v, u) /\ Calm(v) /\ v.toSell \in {0, u.toSell})
    BY <1>3, SkipSaleEffect
  <2> QED
    BY <1>0, <2>1, CalmDue DEF Calm, Keeps
<1>4. CASE BeginSale(i)
  <2>1. /\ Calm(u) /\ u.kind = "passive" /\ Keeps(v, u) /\ v.sale.at = "send"
        /\ v.sale.need = ToSell(i) /\ ToSell(i) \in Nat \ {0} /\ ToSell(i) <= u.toSell
    BY <1>4, BeginSaleEffect
  <2>2. Due(u) = u.toSell /\ Due(v) = ToSell(i)
    BY <2>1, CalmDue DEF Calm, Due
  <2> QED
    BY <1>0, <2>1, <2>2 DEF Keeps
<1>5. CASE SaleOver(i)
  <2>1. /\ u.kind = "passive" /\ u.sale.at \in {"done", "ambiguous"} /\ u.sale.need \in Nat
        /\ \/ v = Unborn
           \/ /\ Keeps(v, u) /\ Calm(v)
              /\ v.toSell = IF u.sale.at = "done" THEN u.sale.need ELSE 0
    BY <1>5, SaleOverEffect
  <2>2. Due(u) = u.sale.need
    BY <2>1 DEF Due
  <2> QED
    BY <1>0, <2>1, <2>2, CalmDue DEF Calm, Keeps
<1>6. CASE Start(i)
  <2>1. /\ Calm(u) /\ Calm(v) /\ v.toSell = u.toSell
        /\ v.kind = "selldown" => u.kind = "selldown" /\ v.floor = u.floor
    BY <1>6, StartEffect
  <2> QED
    BY <1>0, <2>1, CalmDue DEF Calm
<1>7. CASE Complete(i)
  <2>1. Calm(u) /\ (v = Unborn \/ (Keeps(v, u) /\ Calm(v) /\ v.toSell = u.toSell))
    BY <1>7, CompleteEffect
  <2> QED
    BY <1>0, <2>1, CalmDue DEF Calm, Keeps
<1>8. CASE Finished(i) \/ TimesOut(i)
  <2>1. Calm(u) /\ Keeps(v, u) /\ Calm(v) /\ v.toSell = u.toSell
    BY <1>8, FinishedEffect
  <2> QED
    BY <1>0, <2>1, CalmDue DEF Calm, Keeps
<1>9. CASE TrancheOver(i)
  <2>1. /\ u = tasks[i] /\ u.kind = "selldown"
        /\ v = Unborn \/ (Keeps(v, u) /\ Calm(v) /\ v.toSell = u.toSell)
    BY <1>9, TrancheOverEffect
  <2>2. u.toSell = 0
    BY <2>1, ShapeOf DEF FrameShape
  <2> QED
    BY <1>0, <2>1, <2>2, CalmDue DEF Calm, Keeps
<1>10. CASE (\E k \in 0..Size : SaleSends(i, k)) \/ SaleRefused(i) \/ SaleAmbiguous(i)
  <2>1. /\ Keeps(v, u) /\ u.sale.at # "none" /\ v.sale.at # "none" /\ v.sale.need = u.sale.need
    BY <1>10, SaleSendsEffect, SaleRefusedEffect, SaleAmbiguousEffect
  <2>2. Due(v) = Due(u)
    BY <2>1 DEF Due
  <2> QED
    BY <1>0, <2>1, <2>2 DEF Keeps
<1> QED
  BY <1>1, <1>2, <1>3, <1>4, <1>5, <1>6, <1>7, <1>8, <1>9, <1>10

LEMMA DueFallsCover ==
    ASSUME RegistryInv, RegistryInv', ShapeInv, CoverInv, NEW i \in TaskId,
           \/ ModeChanged(i) \/ PollFails(i) \/ RestNothing(i) \/ (\E q \in 1..Size : Place(i, q))
           \/ PlaceReplies(i) \/ SkipSale(i) \/ BeginSale(i) \/ SaleOver(i)
           \/ Start(i) \/ Complete(i) \/ Accrued(i) \/ Finished(i) \/ TimesOut(i)
           \/ TrancheOver(i)
           \/ (\E k \in 0..Size : SaleSends(i, k)) \/ SaleRefused(i) \/ SaleAmbiguous(i)
    PROVE  CoverInv'
<1>1. UNCHANGED <<dbPerp, dbSpot, adl, caller>>
  BY DEF ModeChanged, PollFails, RestNothing, Place, PlaceReplies, SkipSale, BeginSale, SaleOver,
         Start, Complete, Accrued, Finished, TimesOut, TrancheOver, SaleSends, SaleRefused,
         SaleAmbiguous, rows, venue
<1>2. taker => taker'
  <2>1. CASE Start(i)
    BY <2>1, StartEffect
  <2>2. CASE ~Start(i)
    <3>1. UNCHANGED taker
      BY <2>2 DEF ModeChanged, PollFails, RestNothing, Place, PlaceReplies, SkipSale, BeginSale,
                  SaleOver, Complete, Accrued, Finished, TimesOut, TrancheOver, SaleSends,
                  SaleRefused, SaleAmbiguous
    <3> QED
      BY <3>1
  <2> QED
    BY <2>1, <2>2
<1>3. /\ Due(Current') \in Nat /\ Due(Current') <= Due(Current)
      /\ Current'.kind = "selldown" => Current.kind = "selldown" /\ Current'.floor = Current.floor
  BY DueFalls
<1>4. /\ dbPerp \in Int /\ dbSpot \in Int /\ adl \in Nat /\ Due(Current) \in Nat
  BY DueNat DEF RegistryInv, World
<1>5. dbSpot' - Due(Current') - dbPerp' >= dbSpot - Due(Current) - dbPerp
  BY <1>1, <1>3, <1>4
<1>6. dbPerp' <= dbPerp /\ adl' >= adl
  BY <1>1, <1>4
<1> QED
  BY <1>1, <1>2, <1>3, <1>5, <1>6, CoverStep

\* The steps that book a fill of the perp: as much is to be sold as it uncovers.
LEMMA AbsorbCover ==
    ASSUME RegistryInv, RegistryInv', ShapeInv, CoverInv, NEW i \in TaskId,
           (\E reprice \in BOOLEAN : Poll(i, reprice)) \/ CancelOrder(i)
    PROVE  CoverInv'
<1> DEFINE u == Current
           v == Current'
<1>1. UNCHANGED <<dbSpot, adl, caller, taker>> /\ dbPerp' = dbPerp - Newly(i)
  BY DEF Poll, CancelOrder, venue
<1>2. /\ Newly(i) \in Nat /\ v.kind = "passive" /\ v.toSell = u.toSell + Newly(i)
      /\ v.sale = u.sale /\ u = tasks[i]
  <2>1. CASE \E reprice \in BOOLEAN : Poll(i, reprice)
    BY <2>1, PollEffect DEF Calm
  <2>2. CASE CancelOrder(i)
    BY <2>2, CancelOrderEffect
  <2> QED
    BY <2>1, <2>2
<1>3. /\ dbPerp \in Int /\ dbSpot \in Int /\ adl \in Nat /\ Due(u) \in Nat
  BY DueNat DEF RegistryInv, World
<1>4. Due(v) \in Nat /\ Due(v) <= Due(u) + Newly(i)
  <2>1. CASE u.sale.at = "none"
    BY <1>2, <1>3, <2>1 DEF Due
  <2>2. CASE u.sale.at # "none"
    BY <1>2, <1>3, <2>2 DEF Due
  <2> QED
    BY <2>1, <2>2
<1>5. dbSpot' - Due(v) - dbPerp' >= dbSpot - Due(u) - dbPerp /\ dbPerp' <= dbPerp /\ adl' >= adl
  BY <1>1, <1>2, <1>3, <1>4
<1> QED
  BY <1>1, <1>2, <1>4, <1>5, CoverStep

\* The end phase and the cleanup have all of the gap to sell, and no more.
LEMMA GapCover ==
    ASSUME RegistryInv, RegistryInv', ShapeInv, CoverInv, NEW i \in TaskId,
           EndPhase(i) \/ CheckSale(i) \/ SaleAwaited(i)
    PROVE  CoverInv'
<1> DEFINE u == Current
           v == Current'
<1>1. UNCHANGED <<dbPerp, dbSpot, adl, caller, taker>>
  BY DEF EndPhase, CheckSale, SaleAwaited, rows, venue
<1>2. /\ dbPerp \in Int /\ dbSpot \in Int /\ adl \in Nat /\ Due(u) \in Nat
      /\ dbPerp' <= dbPerp /\ adl' >= adl
  BY <1>1, DueNat DEF RegistryInv, World
<1>3. CASE EndPhase(i)
  <2>1. /\ u = tasks[i] /\ Calm(u) /\ v.kind = "passive" /\ Calm(v)
        /\ v.toSell \in {u.toSell, dbSpot - u.floor}
    BY <1>3, EndPhaseEffect
  <2>2. dbPerp - u.floor <= 0 /\ u.floor \in Nat
    <3>1. u.floor \in Nat
      BY CurrentTyped DEF TaskType
    <3> QED
      BY <1>2, <1>3, <2>1, <3>1, AtLeast0Nat DEF EndPhase, Remaining
  <2>3. Due(u) = u.toSell /\ Due(v) = v.toSell
    BY <2>1, CalmDue DEF Calm
  <2>4. Due(v) \in Int
    BY <1>2, <2>1, <2>2, <2>3
  <2>5. \/ dbSpot' - Due(v) - dbPerp' >= dbSpot - Due(u) - dbPerp
        \/ dbSpot' - Due(v) >= dbPerp'
    BY <1>1, <1>2, <2>1, <2>2, <2>3, <2>4
  <2> QED
    BY <1>1, <1>2, <2>1, <2>3, <2>4, <2>5, CoverStep
<1>4. CASE CheckSale(i) \/ SaleAwaited(i)
  <2>1. \/ v = Unborn
        \/ v.kind = "passive" /\ v.sale = u.sale /\ v.toSell = u.toSell
        \/ v.kind = "passive" /\ v.sale = NoSale /\ v.toSell = AtLeast0(dbSpot - dbPerp)
    BY <1>4, CheckSaleEffect, SaleAwaitedEffect DEF Keeps, Calm
  <2>2. CASE v = Unborn
    <3>1. Due(v) = 0 /\ v.kind # "selldown"
      BY <2>2, UnbornDue, UnbornShape
    <3>2. dbSpot' - Due(v) - dbPerp' >= dbSpot - Due(u) - dbPerp
      BY <1>1, <1>2, <3>1
    <3> QED
      BY <1>1, <1>2, <3>1, <3>2, CoverStep
  <2>3. CASE v.kind = "passive" /\ v.sale = u.sale /\ v.toSell = u.toSell
    <3>1. Due(v) = Due(u)
      BY <2>3 DEF Due
    <3>2. dbSpot' - Due(v) - dbPerp' >= dbSpot - Due(u) - dbPerp
      BY <1>1, <1>2, <3>1
    <3> QED
      BY <1>1, <1>2, <2>3, <3>1, <3>2, CoverStep
  <2>4. CASE v.kind = "passive" /\ v.sale = NoSale /\ v.toSell = AtLeast0(dbSpot - dbPerp)
    <3>1. Due(v) = AtLeast0(dbSpot - dbPerp)
      BY <2>4, CalmDue
    <3>2. Due(v) \in Nat /\ (Due(v) = dbSpot - dbPerp \/ Due(v) = 0)
      BY <1>2, <3>1, AtLeast0Nat
    <3>3. \/ dbSpot' - Due(v) - dbPerp' >= dbSpot - Due(u) - dbPerp
          \/ dbSpot' - Due(v) >= dbPerp'
      BY <1>1, <1>2, <3>2
    <3> QED
      BY <1>1, <1>2, <2>4, <3>2, <3>3, CoverStep
  <2> QED
    BY <2>1, <2>2, <2>3, <2>4
<1> QED
  BY <1>3, <1>4

\* A reply of a sale takes as much off what is to be sold as off the rows.
LEMMA SaleRepliesCover ==
    ASSUME RegistryInv, RegistryInv', ShapeInv, CoverInv, NEW i \in TaskId, SaleReplies(i)
    PROVE  CoverInv'
<1> DEFINE u == Current
           v == Current'
<1>1. UNCHANGED <<dbPerp, adl, caller, taker>>
  BY DEF SaleReplies, venue
<1>2. /\ Keeps(v, u) /\ u.sale.at = "sent" /\ u.sale.need \in Nat /\ u.sale.fill \in Nat
      /\ dbSpot' = dbSpot - u.sale.fill /\ v.sale.at \in {"send", "done"}
      /\ v.sale.need = u.sale.need - u.sale.fill /\ v.sale.need \in Nat
  BY SaleRepliesEffect
<1>3. Due(u) = u.sale.need /\ Due(v) = v.sale.need
  BY <1>2 DEF Due
<1>4. dbPerp \in Int /\ dbSpot \in Int /\ adl \in Nat
  BY DEF RegistryInv, World
<1>5. dbSpot' - Due(v) - dbPerp' >= dbSpot - Due(u) - dbPerp /\ dbPerp' <= dbPerp /\ adl' >= adl
  BY <1>1, <1>2, <1>3, <1>4
<1> QED
  BY <1>1, <1>2, <1>3, <1>5, CoverStep DEF Keeps

\* A tranche of a sell-down stops at its floor.
LEMMA TrancheCover ==
    ASSUME RegistryInv, RegistryInv', ShapeInv, CoverInv, NEW i \in TaskId, NEW q \in 1..Size,
           Tranche(i, q)
    PROVE  CoverInv'
<1> DEFINE u == Current
           v == Current'
<1>1. UNCHANGED <<dbPerp, dbSpot, adl, caller, taker>> /\ q <= SpotLeft(i)
  BY DEF Tranche, rows, venue
<1>2. /\ u = tasks[i] /\ u.kind = "selldown" /\ Keeps(v, u)
      /\ v.sale.at = "send" /\ v.sale.need = q
  BY TrancheEffect
<1>3. /\ dbPerp \in Int /\ dbSpot \in Int /\ adl \in Nat /\ u.floor \in Nat /\ q \in Nat \ {0}
  BY CurrentTyped, ExitAssumption DEF RegistryInv, World, TaskType
<1>4. q <= dbSpot - u.floor
  BY <1>1, <1>2, <1>3, AtLeast0Nat DEF SpotLeft
<1>5. Due(v) = q
  BY <1>2 DEF Due
<1>6. NoOrphans /\ ~taker' /\ CoverInv => dbSpot' - Due(v) >= dbPerp' \/ Tiny
  <2>1. SUFFICES ASSUME NoOrphans, ~taker PROVE dbSpot' - Due(v) >= dbPerp' \/ Tiny
    BY <1>1
  <2>2. BelowFloor(u.floor)
    BY <1>2, <2>1 DEF CoverInv
  <2> QED
    BY <1>1, <1>3, <1>4, <1>5, <2>2 DEF BelowFloor
<1>7. dbPerp' <= dbPerp /\ adl' >= adl
  BY <1>1, <1>3
<1> QED
  BY <1>1, <1>2, <1>3, <1>5, <1>6, <1>7, CoverStep DEF Keeps

\* A taker close is not bound to keep the spot for the perp.
LEMMA TakerCover ==
    ASSUME RegistryInv, RegistryInv', ShapeInv, CoverInv, NEW i \in TaskId,
           \/ (\E legs \in SUBSET {"perp", "spot"} : SendLegs(i, legs))
           \/ (\E k \in 0..Size : PerpLeg(i, k) \/ SpotLeg(i, k))
           \/ LegAmbiguous(i) \/ Gather(i)
    PROVE  CoverInv'
<1>1. UNCHANGED <<adl, caller, taker>>
  BY DEF SendLegs, PerpLeg, SpotLeg, LegAmbiguous, Gather, venue
<1>2. Current.kind = "now"
  BY SendLegsEffect, PerpLegEffect, SpotLegEffect, LegAmbiguousEffect, GatherEffect
<1>3. taker'
  BY <1>1, <1>2 DEF ShapeInv
<1> QED
  BY <1>3 DEF CoverInv

-------------------------------------------------------------------------------
\* The steps of the callers and of the venues.

LEMMA CallersCover ==
    ASSUME RegistryInv, RegistryInv', ShapeInv, CoverInv, OneReplacer, NEW c \in Callers,
           CancelTask(c) \/ Spawn(c)
    PROVE  CoverInv'
<1>1. UNCHANGED <<dbPerp, dbSpot, adl, taker>>
  BY DEF CancelTask, Spawn, rows, venue
<1>2. /\ dbPerp \in Int /\ dbSpot \in Int /\ adl \in Nat /\ Due(Current) \in Nat
  BY DueNat DEF RegistryInv, World
<1>3. caller \in [Callers -> CallerType]
  BY DEF RegistryInv, Registry
<1>4. SUFFICES ASSUME NoOrphans, ~taker
               PROVE  /\ dbSpot - Due(Current') >= dbPerp \/ Tiny
                      /\ Current'.kind = "selldown" => BelowFloor(Current'.floor)
                      /\ \A d \in Callers :
                            caller'[d].op = "selldown" => BelowFloor(caller'[d].floor)
  BY <1>1 DEF CoverInv, NoOrphans, Due, Tiny, BelowFloor
<1>5. /\ dbSpot - Due(Current) >= dbPerp \/ Tiny
      /\ Current.kind = "selldown" => BelowFloor(Current.floor)
      /\ \A d \in Callers : caller[d].op = "selldown" => BelowFloor(caller[d].floor)
  BY <1>4 DEF CoverInv
<1>6. CASE CancelTask(c)
  <2>1. \/ Current' = Unborn
        \/ /\ Current'.kind = "passive" /\ Current'.toSell = Current.toSell
           /\ Current'.sale = Current.sale
    BY <1>6, CancelTaskEffect
  <2>2. Due(Current') \in Nat /\ Due(Current') <= Due(Current) /\ Current'.kind # "selldown"
    BY <1>2, <2>1, UnbornDue, UnbornShape DEF Due
  <2>3. \A d \in Callers : caller'[d].op = caller[d].op /\ caller'[d].floor = caller[d].floor
    BY <1>3, <1>6 DEF CancelTask, CallerGoes
  <2> QED
    BY <1>2, <1>5, <2>2, <2>3
<1>7. CASE Spawn(c)
  <2>1. /\ Current = Unborn /\ Calm(Current') /\ Current'.toSell = 0
        /\ Current'.kind = caller[c].op /\ Current'.floor = caller[c].floor
        /\ caller' = [caller EXCEPT ![c] = Idle]
    BY <1>7, SpawnEffect
  <2>2. Due(Current') = 0 /\ Due(Current) = 0
    BY <2>1, CalmDue, UnbornDue DEF Calm
  <2>3. \A d \in Callers : caller'[d].op = "selldown" => caller'[d] = caller[d]
    BY <1>3, <2>1 DEF Idle
  <2>4. \A d \in Callers : caller'[d].op = "selldown" => BelowFloor(caller'[d].floor)
    BY <1>5, <2>3
  <2>5. Current'.kind = "selldown" => BelowFloor(Current'.floor)
    BY <1>5, <2>1
  <2> QED
    BY <1>5, <2>2, <2>4, <2>5
<1> QED
  BY <1>6, <1>7

LEMMA AsksCover ==
    ASSUME RegistryInv, RegistryInv', ShapeInv, CoverInv, NEW c \in Callers,
           \/ \E m \in Modes, f \in Floors : AskExit(c, m, f)
           \/ AskStandDown(c)
           \/ StopsCancelled(c)
           \/ StoodDown(c)
    PROVE  CoverInv'
<1>1. UNCHANGED <<dbPerp, dbSpot, adl, taker>>
  BY DEF AskExit, AskStandDown, StopsCancelled, StoodDown, rows, venue
<1>2. Current' = Current
  BY AsksEffect
<1>3. caller \in [Callers -> CallerType]
  BY DEF RegistryInv, Registry
<1>4. \A d \in Callers : caller'[d].op = "selldown" =>
                             caller[d].op = "selldown" /\ caller'[d].floor = caller[d].floor
  <2>1. \/ \E pc, op : op # "selldown" /\ CallerGoes(c, pc, op, 0, 0)
        \/ \E pc : CallerGoes(c, pc, caller[c].op, caller[c].floor, 0)
    BY DEF AskExit, AskStandDown, StopsCancelled, StoodDown
  <2> QED
    BY <1>3, <2>1 DEF CallerGoes
<1>5. \A d \in Callers : caller'[d].op = "selldown" /\ NoOrphans /\ ~taker =>
                             BelowFloor(caller'[d].floor)
  BY <1>4 DEF CoverInv
<1> QED
  BY <1>1, <1>2, <1>5 DEF CoverInv, NoOrphans, Due, Tiny, BelowFloor

\* What the hedge guard finds missing, within the rows' exactness, is what the venue
\* closed by itself.
LEMMA GuardRebalanceCover ==
    ASSUME RegistryInv, RegistryInv', ShapeInv, BookInv, CoverInv, NEW c \in Callers,
           GuardRebalance(c)
    PROVE  CoverInv'
<1> DEFINE floor == IF vPerp > Tolerance THEN vPerp ELSE 0
<1>1. /\ UNCHANGED <<adl, dbSpot, taker>> /\ dbPerp' = vPerp /\ ~HasTask
      /\ vPerp >= 0 /\ dbPerp - vPerp > Tolerance
      /\ CallerGoes(c, "stops", "selldown", floor, 0)
  BY DEF GuardRebalance, venue
<1>2. Current' = Current /\ Current = Unborn
  BY <1>1, AsksEffect, NoTaskUnborn
<1>3. /\ dbPerp \in Int /\ dbSpot \in Int /\ adl \in Nat /\ vPerp \in Int
      /\ caller \in [Callers -> CallerType]
  BY DEF RegistryInv, World, Registry
<1>4. SUFFICES ASSUME NoOrphans, ~taker
               PROVE  /\ dbSpot' >= dbPerp' \/ Tiny'
                      /\ \A d \in Callers : caller'[d].op = "selldown" => BelowFloor(caller[d].floor)'
  <2>1. Due(Current') = 0 /\ Current'.kind # "selldown"
    BY <1>2, UnbornDue, UnbornShape
  <2>2. Due(Current') = Due(Current)'
    BY DEF Due
  <2>3. dbSpot' \in Int
    BY <1>1, <1>3
  <2> QED
    BY <1>1, <1>4, <2>1, <2>2, <2>3 DEF CoverInv, NoOrphans
<1>5. /\ dbSpot - 0 >= dbPerp \/ Tiny
      /\ \A d \in Callers : caller[d].op = "selldown" => BelowFloor(caller[d].floor)
  BY <1>2, <1>4, UnbornDue DEF CoverInv
<1>6. adl > 0
  <2>1. Unseen(Current) = 0 /\ PerpFlight(Current) = 0
    BY <1>2, NothingInFlight DEF Unseen
  <2>2. PerpOver # 0
    BY <1>1, <1>3, <2>1 DEF PerpOver, Tolerance
  <2>3. ~PerpClean
    BY <2>2 DEF BookInv, Books
  <2> QED
    BY <1>3, <1>4, <2>3 DEF PerpClean, LegsKnown
<1>7. Tiny => Tiny'
  BY <1>1, <1>3 DEF Tiny, Tolerance
<1>8. dbSpot' >= dbPerp' \/ Tiny'
  BY <1>1, <1>3, <1>5, <1>7 DEF Tolerance
<1>9. ASSUME NEW d \in Callers, caller'[d].op = "selldown"
      PROVE  BelowFloor(caller[d].floor)'
  <2>1. CASE d = c
    <3>1. caller'[d].floor = floor
      BY <1>1, <1>3, <2>1 DEF CallerGoes
    <3> QED
      BY <1>1, <1>3, <1>6, <3>1 DEF BelowFloor, Tiny, Tolerance
  <2>2. CASE d # c
    <3>1. caller'[d] = caller[d]
      BY <1>1, <1>3, <2>2 DEF CallerGoes
    <3>2. BelowFloor(caller[d].floor) /\ caller[d].floor \in Nat
      BY <1>5, <1>9, <3>1, CallerTypes DEF RegistryInv
    <3> QED
      BY <1>1, <1>3, <1>7, <3>1, <3>2 DEF BelowFloor, Tolerance
  <2> QED
    BY <2>1, <2>2
<1> QED
  BY <1>8, <1>9

LEMMA OutsideCover ==
    ASSUME RegistryInv, RegistryInv', ShapeInv, CoverInv,
           VenueStep \/ ArmStops \/ UNCHANGED exitVars
    PROVE  CoverInv'
<1>1. UNCHANGED <<dbPerp, dbSpot, caller, taker>>
  BY DEF VenueStep, VenueAnswers, VenueAccept, VenueReject, VenueFill, VenueReduces, ArmStops,
         exitVars, rows, process
<1>2. adl' >= adl /\ adl \in Nat
  <2>1. adl \in Nat
    BY DEF RegistryInv, World
  <2> QED
    BY <2>1 DEF VenueStep, VenueAnswers, VenueAccept, VenueReject, VenueFill, VenueReduces, ArmStops,
                exitVars, venue
<1>3. Current' = Current
  <2>1. CASE UNCHANGED exitVars
    BY <2>1 DEF exitVars, process, Current
  <2> QED
    BY <2>1, VenueEffect, ArmStopsEffect
<1>4. dbPerp \in Int /\ dbSpot \in Int /\ Due(Current) \in Nat
  BY DueNat DEF RegistryInv, World
<1>5. dbSpot' - Due(Current') - dbPerp' >= dbSpot - Due(Current) - dbPerp /\ dbPerp' <= dbPerp
  BY <1>1, <1>3, <1>4
<1> QED
  BY <1>1, <1>2, <1>3, <1>4, <1>5, CoverStep

LEMMA CoverNext ==
    ASSUME RegistryInv, RegistryInv', ShapeInv, BookInv, CoverInv, OneReplacer, [ExitNext]_exitVars
    PROVE  CoverInv'
<1>1. CASE VenueStep \/ ArmStops \/ UNCHANGED exitVars
  BY <1>1, OutsideCover
<1>2. CASE SaleStep
  BY <1>2, DueFallsCover, SaleRepliesCover DEF SaleStep
<1>3. ASSUME NEW i \in TaskId, PassiveStep(i) PROVE CoverInv'
  <2>1. CASE LastLookFails(i)
    BY <2>1 DEF LastLookFails, CoverInv, NoOrphans
  <2>2. CASE ~LastLookFails(i)
    BY <1>3, <2>2, DueFallsCover, AbsorbCover, GapCover DEF PassiveStep
  <2> QED
    BY <2>1, <2>2
<1>4. ASSUME NEW i \in TaskId, TakerStep(i) \/ TimesOut(i) PROVE CoverInv'
  BY <1>4, DueFallsCover, TakerCover, TrancheCover DEF TakerStep
<1>5. CASE \E i \in TaskId : TaskStep(i) \/ Deadline(i)
  BY <1>3, <1>4, <1>5, DueFallsCover DEF TaskStep, Deadline
<1>6. CASE \E c \in Callers : CallerStep(c)
  BY <1>6, CallersCover, AsksCover, GuardRebalanceCover DEF CallerStep, CallerGoesOn
<1> QED
  BY <1>1, <1>2, <1>5, <1>6 DEF ExitNext

\* Until a taker close, the rows' spot that is not to be sold covers their perp.
THEOREM CoverInvariance == ExitSpec /\ []OneReplacer => []CoverInv
<1>1. ExitInit => CoverInv
  <2>1. ASSUME ExitInit PROVE CoverInv
    <3>1. Current = Unborn /\ dbSpot = dbPerp /\ dbPerp \in Int
          /\ \A c \in Callers : caller[c].op = "none"
      BY <2>1, ExitAssumption DEF ExitInit, Current, Idle
    <3> QED
      BY <3>1, UnbornDue, UnbornShape DEF CoverInv
  <2> QED
    BY <2>1
<1>2. RegistryInv /\ RegistryInv' /\ ShapeInv /\ BookInv /\ CoverInv /\ OneReplacer
          /\ [ExitNext]_exitVars => CoverInv'
  BY CoverNext
<1> QED
  BY <1>1, <1>2, RegistryInvariance, ShapeInvariance, BookInvariance, PTL DEF ExitSpec

\* What a sale has sold and the rows do not say yet is part of what it is to sell.
LEMMA CoversAtTheVenues ==
    ASSUME RegistryInv, ShapeInv, BookInv, CoverInv, NoOrphans, "sale_ambiguous" \notin ExitFaults
    PROVE  SpotCoversPerp
<1>1. SUFFICES ASSUME ~taker PROVE vSpot >= vPerp \/ (adl > 0 /\ vPerp <= Tolerance)
  BY DEF SpotCoversPerp
<1>2. /\ dbPerp \in Int /\ dbSpot \in Int /\ vPerp \in Int /\ vSpot \in Nat /\ adl \in Nat
      /\ Unseen(Current) \in Nat /\ PerpFlight(Current) \in Nat /\ SpotFlight(Current) \in Nat
      /\ Due(Current) \in Nat
  BY DueNat, OrderAtHand, CurrentTyped, FlightNat DEF RegistryInv, World
<1>3. dbPerp >= vPerp
  BY <1>2 DEF BookInv, Books, PerpOver
<1>4. dbSpot - SpotFlight(Current) = vSpot
  <2>1. SpotClean
    BY <1>1 DEF SpotClean, LegsKnown, NoOrphans
  <2> QED
    BY <1>2, <2>1 DEF BookInv, Books, SpotOver
<1>5. SpotFlight(Current) <= Due(Current)
  <2>1. CASE Current = Unborn
    BY <1>2, <2>1, NothingInFlight
  <2>2. CASE Current # Unborn
    <3>1. latest \in TaskId /\ Current = tasks[latest]
      BY <2>2 DEF Current, RegistryInv, Registry
    <3>2. FrameShape(Current) /\ Current \in TaskType /\ Current.kind # "now"
      BY <1>1, <3>1, ShapeOf DEF ShapeInv
    <3>3. Current.pc # "sent"
      BY <2>2, <3>2 DEF FrameShape, TaskType
    <3>4. SpotFlight(Current) = SaleFlight(Current.sale)
      <4>1. SaleFlight(Current.sale) \in Nat
        BY <3>2, FlightNat
      <4> QED
        BY <3>2, <3>3, <4>1, NothingInFlight DEF FrameShape, SpotFlight
    <3>5. CASE Current.sale.at = "sent"
      BY <3>2, <3>4, <3>5 DEF FrameShape, SaleFlight, Due
    <3>6. CASE Current.sale.at # "sent"
      <4>1. Current.sale.at # "ambiguous"
        BY <3>2 DEF FrameShape
      <4> QED
        BY <1>2, <3>4, <3>6, <4>1 DEF SaleFlight
    <3> QED
      BY <3>5, <3>6
  <2> QED
    BY <2>1, <2>2
<1>6. dbSpot - Due(Current) >= dbPerp \/ Tiny
  BY <1>1 DEF CoverInv
<1> QED
  BY <1>2, <1>3, <1>4, <1>5, <1>6 DEF Tiny, Tolerance

\* A passive exit or a sell-down sells only spot whose perp is gone: whatever is
\* refused, retried, cancelled in mid-sale or taken over by another run, and however
\* often the venue closes contracts by itself, the spot held covers the perp, but for
\* a rest of it within the hedge guard's tolerance (_hedge_spot, the handler of
\* CancelledError, _check_hedge_integrity), as long as no order is orphaned (NoOrphans)
\* and the outcome of every sale is known.
THEOREM NoHedgeIsSold ==
    ASSUME NoOrphans, "sale_ambiguous" \notin ExitFaults
    PROVE  ExitSpec /\ []OneReplacer => []SpotCoversPerp
<1>1. RegistryInv /\ ShapeInv /\ BookInv /\ CoverInv => SpotCoversPerp
  BY CoversAtTheVenues
<1> QED
  BY <1>1, RegistryInvariance, ShapeInvariance, BookInvariance, CoverInvariance, PTL

-------------------------------------------------------------------------------
\* Spot whose perp is gone is sold, or the operator is told.

\* The rows' spot that their perp does not hedge.
Gap == dbSpot - dbPerp
Quiet == Gap < MinNotional \/ warned

\* What makes the account of it complete: no order is orphaned, the stops can be
\* cancelled, no taker close was started and the venue closed nothing by itself.
NakedHolds == NoOrphans /\ "stops_stay" \notin ExitFaults /\ ~taker /\ adl = 0

\* A run that has not begun, that is over or that books its profit leaves none; its
\* cleanup sells all of it.
Settling(f) ==
    /\ f.pc \in {"dead", "start", "accrue"} => Quiet
    /\ f.dying /\ f.pc = "sell" => f.toSell = AtLeast0(Gap) /\ f.force
    /\ f.dying /\ f.pc = "selling" /\ f.sale.at # "ambiguous" => f.sale.need = Gap
    /\ f.kind # "selldown"

\* No protective order locks the spot of a run: they are cancelled before it starts.
Unlocked ==
    /\ lock /\ HasTask => Current.pc = "start"
    /\ lock /\ (HasTask \/ \E c \in Callers : caller[c].op = "exit" /\ caller[c].pc \in {"cancel", "await"})
           => mode = "none" \/ \E d \in Callers : caller[d].pc = "stops"

NoSellDown == \A c \in Callers : caller[c].op # "selldown"

NakedInv == NakedHolds => Settling(Current) /\ Unlocked /\ NoSellDown

LEMMA PerpHeld ==
    ASSUME RegistryInv, ShapeInv, BookInv, NakedHolds
    PROVE  dbPerp \in Nat /\ dbSpot \in Int
<1>1. PerpClean
  BY DEF NakedHolds, PerpClean, LegsKnown
<1>2. /\ dbPerp \in Int /\ vPerp \in Int /\ vPerp >= 0 /\ dbSpot \in Int
      /\ Unseen(Current) \in Nat /\ PerpFlight(Current) \in Nat
  BY <1>1, OrderAtHand, CurrentTyped, FlightNat DEF RegistryInv, World, BookInv, ShortKept
<1> QED
  BY <1>1, <1>2 DEF BookInv, Books, PerpOver

\* A step of the task, from what it makes of its frame.
LEMMA NakedStep ==
    ASSUME RegistryInv, ShapeInv, NakedInv, HasTask, UNCHANGED <<caller, adl>>,
           taker => taker', lock' => lock,
           NakedHolds /\ ~taker' /\ Settling(Current) =>
               Settling(Current)' /\ (Current.pc = "start" => ~lock)
    PROVE  NakedInv'
<1>1. SUFFICES ASSUME NakedHolds, ~taker'
               PROVE  Settling(Current)' /\ Unlocked' /\ NoSellDown'
  BY DEF NakedInv, NakedHolds, NoOrphans
<1>2. Settling(Current) /\ Unlocked /\ NoSellDown
  BY <1>1 DEF NakedInv
<1>3. Settling(Current)' /\ (Current.pc = "start" => ~lock)
  BY <1>1, <1>2
<1>4. ~lock
  BY <1>2, <1>3 DEF Unlocked
<1>5. Unlocked'
  BY <1>4 DEF Unlocked
<1>6. NoSellDown'
  BY <1>2 DEF NoSellDown
<1> QED
  BY <1>3, <1>5, <1>6

\* A frame that neither rests nor sells what a cleanup has to sell.
LEMMA Working ==
    ASSUME Current'.pc \notin {"dead", "start", "accrue"}, Current'.kind # "selldown",
           Current'.dying => Current'.pc \notin {"sell", "selling"}
    PROVE  Settling(Current)'
  BY DEF Settling

\* The steps of a run that goes on.
LEMMA WorkingNaked ==
    ASSUME RegistryInv, ShapeInv, NakedInv, NEW i \in TaskId,
           \/ EndPhase(i) \/ RestNothing(i) \/ (\E q \in 1..Size : Place(i, q)) \/ PlaceReplies(i)
           \/ (\E reprice \in BOOLEAN : Poll(i, reprice)) \/ CancelOrder(i)
    PROVE  NakedInv'
<1> DEFINE u == Current
           v == Current'
<1>1. UNCHANGED <<caller, adl, taker, lock>>
  BY DEF EndPhase, RestNothing, Place, PlaceReplies, Poll, CancelOrder, venue
<1>2. /\ HasTask /\ u.pc \in {"top", "placing", "cancel"} /\ v.kind = "passive"
      /\ v.pc \in {"sell", "placing", "cancel", "check"} /\ (v.dying => v.pc = "check")
  <2>1. CASE EndPhase(i)
    BY <2>1, EndPhaseEffect
  <2>2. CASE RestNothing(i)
    <3>1. u = tasks[i] /\ Keeps(v, u) /\ u.pc = "top"
      BY <2>2, RestNothingEffect
    <3>2. ~u.dying
      BY <3>1, ShapeOf DEF FrameShape
    <3> QED
      BY <2>2, <3>1, <3>2, RestNothingEffect DEF Keeps
  <2>3. CASE (\E q \in 1..Size : Place(i, q)) \/ PlaceReplies(i)
    BY <2>3, PlaceEffect, PlaceRepliesEffect
  <2>4. CASE \E reprice \in BOOLEAN : Poll(i, reprice)
    BY <2>4, PollEffect
  <2>5. CASE CancelOrder(i)
    BY <2>5, CancelOrderEffect
  <2> QED
    BY <2>1, <2>2, <2>3, <2>4, <2>5
<1>3. Settling(Current)'
  BY <1>2, Working
<1> QED
  BY <1>1, <1>2, <1>3, NakedStep

\* The steps of a taker close and of a sell-down.
LEMMA TakerNaked ==
    ASSUME RegistryInv, ShapeInv, NakedInv, NEW i \in TaskId,
           \/ Finished(i) \/ TimesOut(i)
           \/ (\E legs \in SUBSET {"perp", "spot"} : SendLegs(i, legs))
           \/ (\E k \in 0..Size : PerpLeg(i, k) \/ SpotLeg(i, k))
           \/ LegAmbiguous(i) \/ Gather(i)
           \/ (\E q \in 1..Size : Tranche(i, q)) \/ TrancheOver(i)
    PROVE  NakedInv'
<1>1. UNCHANGED <<adl, taker>>
  BY DEF Finished, TimesOut, SendLegs, PerpLeg, SpotLeg, LegAmbiguous, Gather, Tranche,
         TrancheOver, venue
<1>2. Current.kind \in {"now", "selldown"}
  BY FinishedEffect, SendLegsEffect, PerpLegEffect, SpotLegEffect, LegAmbiguousEffect, GatherEffect,
     TrancheEffect, TrancheOverEffect
<1>3. ~NakedHolds
  BY <1>2 DEF NakedInv, Settling, ShapeInv, NakedHolds
<1> QED
  BY <1>1, <1>3 DEF NakedInv, NakedHolds, NoOrphans

\* A passive run is started when the stops are gone.
LEMMA StartNaked ==
    ASSUME RegistryInv, ShapeInv, NakedInv, NEW i \in TaskId, Start(i),
           EventLoopFree \/ tasks[i].pc \in NoAwait \/ RequestOut(i)
    PROVE  NakedInv'
<1> DEFINE u == Current
           v == Current'
<1>1. UNCHANGED <<caller, adl, lock, mode>>
  BY DEF Start, venue
<1>2. /\ HasTask /\ u = tasks[i] /\ u.pc = "start" /\ v.pc = "top" /\ ~v.dying
      /\ \/ u.kind = "selldown" /\ v.kind = "selldown" /\ taker' = taker
         \/ u.kind = "exit" /\ v.kind = "passive" /\ mode = "passive" /\ taker' = taker
         \/ u.kind = "exit" /\ v.kind = "now" /\ taker'
  BY StartEffect
<1>3. taker => taker'
  BY <1>2
<1>4. ASSUME NakedHolds, ~taker', Settling(Current)
      PROVE  Settling(Current)' /\ (u.pc = "start" => ~lock)
  <2>1. v.kind = "passive" /\ mode = "passive"
    BY <1>2, <1>4 DEF Settling
  <2>2. Settling(Current)'
    BY <1>2, <2>1, Working
  <2>3. \A c \in Callers : caller[c].pc \notin {"stops", "cancel"}
    BY <1>2, <1>4, NobodyCancels DEF NakedHolds
  <2>4. ~lock
    BY <1>2, <1>4, <2>1, <2>3 DEF NakedInv, Unlocked
  <2> QED
    BY <2>2, <2>4
<1> QED
  BY <1>1, <1>2, <1>3, <1>4, NakedStep

\* A run does not end with its order on the book.
LEMMA ModeChangedNaked ==
    ASSUME RegistryInv, ShapeInv, BookInv, NakedInv, NEW i \in TaskId,
           ModeChanged(i) \/ PollFails(i),
           EventLoopFree \/ tasks[i].pc \in NoAwait \/ RequestOut(i)
    PROVE  NakedInv'
<1>1. ~NoOrphans
  BY EndsInTrouble
<1> QED
  BY <1>1 DEF NakedInv, NakedHolds, NoOrphans

\* A partial close quotes both legs, and a full one is complete when both are dust.
LEMMA CompleteNaked ==
    ASSUME RegistryInv, ShapeInv, BookInv, NakedInv, NEW i \in TaskId, Complete(i)
    PROVE  NakedInv'
<1> DEFINE u == Current
           v == Current'
<1>1. UNCHANGED <<caller, adl, lock, taker, dbPerp, dbSpot>>
  BY DEF Complete, venue
<1>2. /\ u = tasks[i] /\ HasTask /\ u.pc = "complete" /\ ~u.dying
      /\ \/ v = Unborn
         \/ Keeps(v, u) /\ v.pc = "accrue"
  BY CompleteEffect
<1>3. v.kind # "selldown" \/ v.kind = u.kind
  BY <1>2, UnbornShape DEF Keeps
<1>4. ~v.dying
  BY <1>2, UnbornShape DEF Keeps
<1>5. ASSUME NakedHolds PROVE Quiet'
  <2>1. dbPerp \in Nat /\ dbSpot \in Int /\ MinNotional \in Nat \ {0}
    BY <1>5, PerpHeld, ExitAssumption
  <2>2. CASE warned'
    BY <2>2 DEF Quiet
  <2>3. CASE ~warned'
    <3>1. dbPerp = dbSpot \/ (Untradeable(dbPerp) /\ Untradeable(dbSpot))
      BY <2>3 DEF Complete
    <3>2. Gap < MinNotional
      BY <2>1, <3>1 DEF Gap, Untradeable
    <3> QED
      BY <1>1, <3>2 DEF Quiet, Gap
  <2> QED
    BY <2>2, <2>3
<1>6. ASSUME NakedHolds, Settling(Current) PROVE Settling(Current)'
  BY <1>3, <1>4, <1>5, <1>6 DEF Settling
<1> QED
  BY <1>1, <1>2, <1>6, NakedStep

LEMMA AccruedNaked ==
    ASSUME RegistryInv, ShapeInv, NakedInv, NEW i \in TaskId, Accrued(i)
    PROVE  NakedInv'
<1>1. UNCHANGED <<caller, adl, lock, taker, dbPerp, dbSpot, warned>>
  BY DEF Accrued, venue
<1>2. HasTask /\ Current.pc = "accrue" /\ Current' = Unborn
  BY AccruedEffect
<1>3. Settling(Current) => Settling(Current)'
  BY <1>1, <1>2, UnbornShape DEF Settling, Quiet, Gap
<1> QED
  BY <1>1, <1>2, <1>3, NakedStep

\* A sale that goes on: what is left to sell of the gap is what it still needs.
LEMMA SaleNaked ==
    ASSUME RegistryInv, ShapeInv, NakedInv, NEW i \in TaskId,
           \/ (\E k \in 0..Size : SaleSends(i, k)) \/ SaleRefused(i) \/ SaleReplies(i)
           \/ SaleAmbiguous(i)
    PROVE  NakedInv'
<1> DEFINE u == Current
           v == Current'
<1>1. UNCHANGED <<caller, adl, lock, taker, dbPerp, warned>>
  BY DEF SaleSends, SaleRefused, SaleReplies, SaleAmbiguous, rows, venue
<1>2. /\ u = tasks[i] /\ HasTask /\ Keeps(v, u) /\ v.pc = u.pc
      /\ u.sale.at \in {"send", "sent"} /\ u.sale.need \in Nat
      /\ v.sale.need - u.sale.need = dbSpot' - dbSpot /\ v.sale.need \in Int
  <2>0. dbSpot \in Int
    BY DEF RegistryInv, World
  <2>1. CASE \E k \in 0..Size : SaleSends(i, k)
    <3>1. dbSpot' = dbSpot
      BY <2>1 DEF SaleSends, rows
    <3> QED
      BY <2>0, <2>1, <3>1, SaleSendsEffect
  <2>2. CASE SaleRefused(i) \/ SaleAmbiguous(i)
    <3>1. dbSpot' = dbSpot /\ tasks[i].sale.need \in Int
      BY <2>2, ShapeOf DEF SaleRefused, SaleAmbiguous, rows
    <3>2. /\ u = tasks[i] /\ HasTask /\ Keeps(v, u) /\ v.pc = u.pc
          /\ u.sale.at \in {"send", "sent"} /\ v.sale.need = u.sale.need
      BY <2>2, SaleRefusedEffect, SaleAmbiguousEffect
    <3>3. u.sale.need >= 0
      BY <3>2, ShapeOf DEF FrameShape
    <3> QED
      BY <2>0, <3>1, <3>2, <3>3
  <2>3. CASE SaleReplies(i)
    BY <2>0, <2>3, SaleRepliesEffect
  <2> QED
    BY <2>1, <2>2, <2>3
<1>3. u.pc \in {"selling", "cancel", "check", "wait"}
  BY <1>2, ShapeOf DEF FrameShape
<1>4. ASSUME Settling(Current) PROVE Settling(Current)'
  <2>1. u.dying /\ u.pc = "selling" => u.sale.need = dbSpot - dbPerp
    BY <1>2, <1>4 DEF Settling, Gap
  <2>2. dbSpot \in Int /\ dbPerp \in Int
    BY DEF RegistryInv, World
  <2>3. dbSpot' \in Int /\ dbPerp' = dbPerp
    <3>1. CASE SaleReplies(i)
      BY <1>1, <2>2, <3>1, SaleRepliesEffect
    <3>2. CASE ~SaleReplies(i)
      BY <1>1, <2>2, <3>2 DEF SaleSends, SaleRefused, SaleAmbiguous, rows
    <3> QED
      BY <3>1, <3>2
  <2>4. v.dying /\ v.pc = "selling" => v.sale.need = dbSpot' - dbPerp'
    BY <1>2, <2>1, <2>2, <2>3 DEF Keeps
  <2>5. v.kind # "selldown"
    BY <1>2, <1>4 DEF Settling, Keeps
  <2> QED
    BY <1>2, <1>3, <2>4, <2>5 DEF Settling, Gap
<1>5. Current.pc # "start"
  BY <1>3
<1> QED
  BY <1>1, <1>2, <1>4, <1>5, NakedStep

\* The cleanup has all of the gap to sell.
LEMMA CleanupNaked ==
    ASSUME RegistryInv, ShapeInv, NakedInv, NEW i \in TaskId, CheckSale(i) \/ SaleAwaited(i)
    PROVE  NakedInv'
<1> DEFINE u == Current
           v == Current'
<1>1. UNCHANGED <<caller, adl, lock, taker, dbPerp, dbSpot>>
  BY DEF CheckSale, SaleAwaited, rows, venue
<1>2. /\ HasTask /\ u.pc \in {"check", "wait"} /\ u.kind = "passive"
      /\ \/ v.pc = "wait" /\ v.kind = "passive"
         \/ v = Unborn /\ warned'
         \/ /\ v.pc = "sell" /\ v.toSell = AtLeast0(dbSpot - dbPerp) /\ v.force
            /\ v.kind = "passive"
  BY CheckSaleEffect, SaleAwaitedEffect DEF Keeps
<1>3. Settling(Current)'
  <2>1. CASE v.pc = "wait" /\ v.kind = "passive"
    BY <2>1 DEF Settling
  <2>2. CASE v = Unborn /\ warned'
    BY <2>2, UnbornShape DEF Settling, Quiet
  <2>3. CASE /\ v.pc = "sell" /\ v.toSell = AtLeast0(dbSpot - dbPerp) /\ v.force
             /\ v.kind = "passive"
    BY <1>1, <2>3 DEF Settling, Gap
  <2> QED
    BY <1>2, <2>1, <2>2, <2>3
<1> QED
  BY <1>1, <1>2, <1>3, NakedStep

\* What a cleanup does not sell is dust.
LEMMA SkipSaleNaked ==
    ASSUME RegistryInv, ShapeInv, BookInv, NakedInv, NEW i \in TaskId, SkipSale(i)
    PROVE  NakedInv'
<1> DEFINE u == Current
           v == Current'
<1>1. UNCHANGED <<caller, adl, lock, taker, dbPerp, dbSpot, warned>>
  BY DEF SkipSale, rows, venue
<1>2. /\ u = tasks[i] /\ HasTask /\ u.kind = "passive" /\ u.pc = "sell" /\ u.toSell \in Nat
      /\ u.dying => v = Unborn
      /\ ~u.dying => Keeps(v, u) /\ v.pc \in {"top", "complete"}
      /\ u.toSell = 0 \/ TooSmall(i) \/ Untradeable(ToSell(i))
  BY SkipSaleEffect
<1>3. CASE ~u.dying
  <2>1. Settling(Current)'
    BY <1>2, <1>3 DEF Settling, Keeps
  <2> QED
    BY <1>1, <1>2, <2>1, NakedStep
<1>4. CASE u.dying
  <2>1. ASSUME NakedHolds, Settling(Current) PROVE Settling(Current)'
    <3>1. u.toSell = AtLeast0(Gap) /\ u.force
      BY <1>2, <1>4, <2>1 DEF Settling
    <3>2. dbPerp \in Nat /\ dbSpot \in Int /\ Gap = dbSpot - dbPerp /\ MinNotional \in Nat \ {0}
      BY <2>1, PerpHeld, ExitAssumption DEF Gap
    <3>3. u.toSell >= Gap
      BY <3>1, <3>2, AtLeast0Nat
    <3>4. ~TooSmall(i)
      BY <1>2, <3>1 DEF TooSmall
    <3>5. Gap < MinNotional
      <4>1. CASE u.toSell = 0
        BY <3>2, <3>3, <4>1
      <4>2. CASE Untradeable(ToSell(i))
        <5>1. ToSell(i) < MinNotional /\ ToSell(i) \in {u.toSell, dbSpot}
          BY <1>2, <4>2, ToSellInt DEF Untradeable
        <5> QED
          BY <1>2, <3>2, <3>3, <5>1
      <4> QED
        BY <1>2, <3>4, <4>1, <4>2
    <3> QED
      BY <1>1, <1>2, <1>4, <3>5, UnbornShape DEF Settling, Quiet, Gap
  <2> QED
    BY <1>1, <1>2, <2>1, NakedStep
<1> QED
  BY <1>3, <1>4

\* A cleanup sells all of the gap.
LEMMA BeginSaleNaked ==
    ASSUME RegistryInv, ShapeInv, BookInv, NakedInv, NEW i \in TaskId, BeginSale(i)
    PROVE  NakedInv'
<1> DEFINE u == Current
           v == Current'
<1>1. UNCHANGED <<caller, adl, lock, taker, dbPerp, dbSpot>>
  BY DEF BeginSale, rows, venue
<1>2. /\ u = tasks[i] /\ HasTask /\ u.kind = "passive" /\ u.pc = "sell"
      /\ Keeps(v, u) /\ v.pc = "selling" /\ v.sale.need = ToSell(i)
      /\ ToSell(i) \in Nat \ {0} /\ ToSell(i) <= u.toSell /\ ToSell(i) \in {u.toSell, dbSpot}
  BY BeginSaleEffect
<1>3. ASSUME NakedHolds, Settling(Current) PROVE Settling(Current)'
  <2>1. ASSUME u.dying PROVE v.sale.need = Gap
    <3>1. u.toSell = AtLeast0(Gap)
      BY <1>2, <1>3, <2>1 DEF Settling
    <3>2. dbPerp \in Nat /\ dbSpot \in Int /\ Gap = dbSpot - dbPerp
      BY <1>3, PerpHeld DEF Gap
    <3>3. u.toSell \in Nat /\ (u.toSell = Gap \/ u.toSell = 0)
      BY <3>1, <3>2, AtLeast0Nat
    <3> QED
      BY <1>2, <3>2, <3>3
  <2> QED
    BY <1>1, <1>2, <2>1 DEF Settling, Keeps, Gap
<1> QED
  BY <1>1, <1>2, <1>3, NakedStep

\* What the sale of a cleanup has left is reported: no lock of ours explains it.
LEMMA SaleOverNaked ==
    ASSUME RegistryInv, ShapeInv, NakedInv, NEW i \in TaskId, SaleOver(i)
    PROVE  NakedInv'
<1> DEFINE u == Current
           v == Current'
<1>1. UNCHANGED <<caller, adl, taker, dbPerp, dbSpot>> /\ (lock' => lock)
  BY DEF SaleOver, rows, venue
<1>2. /\ u = tasks[i] /\ HasTask /\ u.kind = "passive" /\ u.pc = "selling"
      /\ u.sale.at \in {"done", "ambiguous"} /\ u.sale.need \in Nat
      /\ u.dying => v = Unborn
      /\ ~u.dying => Keeps(v, u) /\ v.pc \in {"top", "complete"}
  BY SaleOverEffect
<1>3. ASSUME NakedHolds, Settling(Current) PROVE Settling(Current)'
  <2>1. CASE ~u.dying
    BY <1>2, <2>1 DEF Settling, Keeps
  <2>2. CASE u.dying
    <3>1. ~lock
      BY <1>2, <1>3 DEF NakedInv, Unlocked
    <3>2. CASE u.sale.at = "ambiguous" \/ u.sale.need > 0
      <4>1. warned'
        BY <1>2, <3>1, <3>2 DEF SaleOver
      <4> QED
        BY <1>2, <2>2, <4>1, UnbornShape DEF Settling, Quiet
    <3>3. CASE u.sale.at = "done" /\ ~(u.sale.need > 0)
      <4>1. Gap = u.sale.need
        BY <1>2, <1>3, <2>2, <3>3 DEF Settling
      <4>2. Gap' = Gap /\ Gap < MinNotional
        BY <1>1, <1>2, <3>3, <4>1, ExitAssumption DEF Gap
      <4> QED
        BY <1>2, <2>2, <4>2, UnbornShape DEF Settling, Quiet
    <3> QED
      BY <1>2, <3>2, <3>3
  <2> QED
    BY <2>1, <2>2
<1> QED
  BY <1>1, <1>2, <1>3, NakedStep
-------------------------------------------------------------------------------
\* The steps of the callers and of the venues.

\* A run that is cancelled with nothing to clean up leaves nothing either.
LEMMA CancelTaskNaked ==
    ASSUME RegistryInv, ShapeInv, NakedInv, OneReplacer, NEW c \in Callers, CancelTask(c)
    PROVE  NakedInv'
<1> DEFINE u == Current
           v == Current'
<1>1. UNCHANGED <<dbPerp, dbSpot, adl, taker, warned, lock, mode>>
  BY DEF CancelTask, rows, venue
<1>2. caller \in [Callers -> CallerType]
  BY DEF RegistryInv, Registry
<1>3. /\ HasTask /\ caller[c].pc = "cancel"
      /\ caller' = [caller EXCEPT ![c] = [pc |-> "await", op |-> caller[c].op,
                                          floor |-> caller[c].floor, waits |-> latest]]
  BY DEF CancelTask, CallerGoes
<1>4. /\ \/ v = Unborn /\ (u.kind = "passive" => u.pc = "accrue")
         \/ /\ v.kind = "passive" /\ v.pc \in {"check", "cancel"}
            /\ u.kind = "passive" /\ u.pc # "start"
  <2>1. LET a == Current  b == Current' IN
        \/ b = Unborn /\ (a.kind = "passive" => a.pc = "accrue")
        \/ /\ b.kind = "passive" /\ a.kind = "passive" /\ a.pc \in {"top", "cancel", "selling", "placing"}
           /\ b.pc = IF b.oid = 0 THEN "check" ELSE "cancel"
    BY CancelTaskEffect
  <2> QED
    BY <2>1
<1>5. SUFFICES ASSUME NakedHolds, ~taker
               PROVE  Settling(Current)' /\ Unlocked' /\ NoSellDown'
  BY <1>1 DEF NakedInv, NakedHolds, NoOrphans
<1>6. Settling(u) /\ Unlocked /\ NoSellDown
  BY <1>5 DEF NakedInv
<1>7. Quiet' <=> Quiet
  BY <1>1 DEF Quiet, Gap
<1>8. Settling(Current)'
  <2>1. CASE v = Unborn
    <3>1. u.pc \in {"start", "accrue"}
      <4>1. FrameShape(u) /\ u.kind \in {"none", "exit", "passive", "now", "selldown"}
            /\ u.pc # "dead"
        BY <1>3, ShapeOf, CurrentTyped DEF HasTask, Alive, Current, RegistryInv, Registry, TaskType
      <4>2. u.kind # "now" /\ u.kind # "selldown"
        BY <1>5, <1>6 DEF ShapeInv, Settling
      <4> QED
        BY <1>4, <2>1, <4>1, <4>2, UnbornShape DEF FrameShape
    <3>2. Quiet'
      BY <1>6, <1>7, <3>1 DEF Settling
    <3> QED
      BY <2>1, <3>2, UnbornShape DEF Settling
  <2>2. CASE v.kind = "passive" /\ v.pc \in {"check", "cancel"}
    BY <2>2 DEF Settling
  <2> QED
    BY <1>4, <2>1, <2>2
<1>9. lock => u.pc = "start" /\ (mode = "none" \/ \E d \in Callers : caller[d].pc = "stops")
  BY <1>3, <1>6 DEF Unlocked
<1>10. lock => ~HasTask'
  <2>1. lock => v = Unborn
    BY <1>4, <1>9
  <2>2. HasTask' => v.pc # "dead"
    BY DEF HasTask, Alive, Current
  <2> QED
    BY <2>1, <2>2, UnbornShape
<1>11. \A d \in Callers : caller[d].pc = "stops" => caller'[d].pc = "stops"
  BY <1>2, <1>3
<1>12. Unlocked'
  BY <1>1, <1>9, <1>10, <1>11 DEF Unlocked
<1>13. NoSellDown'
  BY <1>2, <1>3, <1>6 DEF NoSellDown
<1> QED
  BY <1>8, <1>12, <1>13

\* A run that is started found nothing left behind.
LEMMA SpawnNaked ==
    ASSUME RegistryInv, ShapeInv, NakedInv, OneReplacer, NEW c \in Callers, Spawn(c)
    PROVE  NakedInv'
<1> DEFINE v == Current'
<1>1. UNCHANGED <<dbPerp, dbSpot, adl, taker, warned, lock, mode>>
  BY DEF Spawn, rows, venue
<1>2. caller \in [Callers -> CallerType]
  BY DEF RegistryInv, Registry
<1>3. /\ Current = Unborn /\ v.kind = caller[c].op /\ v.pc = "start" /\ ~v.dying
      /\ caller[c].op \in {"exit", "selldown"} /\ caller[c].pc \in {"cancel", "await"}
      /\ caller' = [caller EXCEPT ![c] = Idle]
  BY SpawnEffect
<1>4. SUFFICES ASSUME NakedHolds, ~taker
               PROVE  Settling(Current)' /\ Unlocked' /\ NoSellDown'
  BY <1>1 DEF NakedInv, NakedHolds, NoOrphans
<1>5. Settling(Current) /\ Unlocked /\ NoSellDown
  BY <1>4 DEF NakedInv
<1>6. Quiet'
  <2>1. Quiet
    BY <1>3, <1>5, UnbornShape DEF Settling
  <2> QED
    BY <1>1, <2>1 DEF Quiet, Gap
<1>7. caller[c].op = "exit"
  BY <1>3, <1>5 DEF NoSellDown
<1>8. Settling(Current)'
  BY <1>3, <1>6, <1>7 DEF Settling
<1>9. lock => mode = "none" \/ \E d \in Callers : caller[d].pc = "stops"
  BY <1>3, <1>5, <1>7 DEF Unlocked
<1>10. \A d \in Callers : caller[d].pc = "stops" => caller'[d].pc = "stops"
  BY <1>2, <1>3
<1>11. Unlocked'
  BY <1>1, <1>3, <1>9, <1>10 DEF Unlocked
<1>12. NoSellDown'
  BY <1>2, <1>3, <1>5 DEF NoSellDown, Idle
<1> QED
  BY <1>8, <1>11, <1>12

\* What a caller asks for, before it gets to the task.
LEMMA AsksNaked ==
    ASSUME RegistryInv, ShapeInv, NakedInv, NEW c \in Callers,
           \/ \E m \in Modes, f \in Floors : AskExit(c, m, f)
           \/ AskStandDown(c)
           \/ StopsCancelled(c)
           \/ StoodDown(c)
    PROVE  NakedInv'
<1>1. UNCHANGED <<dbPerp, dbSpot, adl, taker, warned>>
  BY DEF AskExit, AskStandDown, StopsCancelled, StoodDown, rows, venue
<1>2. Current' = Current /\ (HasTask' <=> HasTask)
  BY AsksEffect
<1>3. caller \in [Callers -> CallerType]
  BY DEF RegistryInv, Registry
<1>4. SUFFICES ASSUME NakedHolds, ~taker
               PROVE  Settling(Current)' /\ Unlocked' /\ NoSellDown'
  BY <1>1 DEF NakedInv, NakedHolds, NoOrphans
<1>5. Settling(Current) /\ Unlocked /\ NoSellDown
  BY <1>4 DEF NakedInv
<1>6. Settling(Current)'
  BY <1>1, <1>2, <1>5 DEF Settling, Quiet, Gap
<1>7. NoSellDown'
  <2>1. \/ \E pc, op : op # "selldown" /\ CallerGoes(c, pc, op, 0, 0)
        \/ \E pc : CallerGoes(c, pc, caller[c].op, caller[c].floor, 0)
    BY DEF AskExit, AskStandDown, StopsCancelled, StoodDown
  <2> QED
    BY <1>3, <1>5, <2>1 DEF CallerGoes, NoSellDown
<1>8. CASE \E m \in Modes, f \in Floors : AskExit(c, m, f)
  <2>1. lock' = lock /\ caller'[c].pc = "stops"
    BY <1>3, <1>8 DEF AskExit, CallerGoes, venue
  <2>2. Unlocked'
    BY <1>2, <1>5, <2>1 DEF Unlocked
  <2> QED
    BY <1>6, <1>7, <2>2
<1>9. CASE AskStandDown(c)
  <2>1. /\ lock' = lock /\ mode' = mode /\ caller[c].pc = "idle"
        /\ CallerGoes(c, "cancel", "standdown", 0, 0)
    BY <1>9 DEF AskStandDown, venue, rows
  <2>2. \A d \in Callers : /\ caller[d].pc = "stops" => caller'[d].pc = "stops"
                           /\ caller'[d].op = "exit" => caller'[d] = caller[d]
    BY <1>3, <2>1 DEF CallerGoes
  <2>3. Unlocked'
    BY <1>2, <1>5, <2>1, <2>2 DEF Unlocked
  <2> QED
    BY <1>6, <1>7, <2>3
<1>10. CASE StopsCancelled(c)
  <2>1. "stops_stay" \notin ExitFaults
    BY <1>4 DEF NakedHolds
  <2>2. lock' = FALSE
    BY <1>10, <2>1 DEF StopsCancelled
  <2>3. Unlocked'
    BY <2>2 DEF Unlocked
  <2> QED
    BY <1>6, <1>7, <2>3
<1>11. CASE StoodDown(c)
  <2>1. lock' = lock /\ mode' = "none"
    BY <1>11 DEF StoodDown, venue
  <2>2. Unlocked'
    BY <1>2, <1>5, <2>1 DEF Unlocked
  <2> QED
    BY <1>6, <1>7, <2>2
<1> QED
  BY <1>8, <1>9, <1>10, <1>11

\* The hedge guard finds nothing missing as long as the venue closes nothing.
LEMMA GuardRebalanceNaked ==
    ASSUME RegistryInv, ShapeInv, BookInv, NakedInv, NEW c \in Callers, GuardRebalance(c)
    PROVE  NakedInv'
<1>1. /\ UNCHANGED <<adl, taker>> /\ ~HasTask /\ dbPerp - vPerp > Tolerance
  BY DEF GuardRebalance, venue
<1>2. Unseen(Current) = 0 /\ PerpFlight(Current) = 0
  BY <1>1, NoTaskUnborn, NothingInFlight DEF Unseen
<1>3. dbPerp \in Int /\ vPerp \in Int
  BY DEF RegistryInv, World
<1>4. PerpOver # 0
  BY <1>1, <1>2, <1>3 DEF PerpOver, Tolerance
<1>5. ~PerpClean
  BY <1>4 DEF BookInv, Books
<1>6. ~NakedHolds
  BY <1>5 DEF NakedHolds, PerpClean, LegsKnown
<1> QED
  BY <1>1, <1>6 DEF NakedInv, NakedHolds, NoOrphans

LEMMA OutsideNaked ==
    ASSUME RegistryInv, ShapeInv, NakedInv, VenueStep \/ ArmStops \/ UNCHANGED exitVars
    PROVE  NakedInv'
<1>1. UNCHANGED <<dbPerp, dbSpot, caller, taker, mode, warned>>
  BY DEF VenueStep, VenueAnswers, VenueAccept, VenueReject, VenueFill, VenueReduces, ArmStops,
         exitVars, rows, process
<1>2. Current' = Current /\ (HasTask' <=> HasTask)
  <2>1. CASE UNCHANGED exitVars
    BY <2>1 DEF exitVars, process, Current, HasTask, Alive
  <2> QED
    BY <2>1, VenueEffect, ArmStopsEffect
<1>3. NakedHolds' => NakedHolds
  <2>1. adl \in Nat
    BY DEF RegistryInv, World
  <2>2. adl' = 0 => adl = 0
    BY <2>1 DEF VenueStep, VenueAnswers, VenueAccept, VenueReject, VenueFill, VenueReduces, ArmStops,
                exitVars, venue
  <2> QED
    BY <1>1, <2>2 DEF NakedHolds, NoOrphans
<1>4. SUFFICES ASSUME NakedHolds
               PROVE  Settling(Current)' /\ Unlocked' /\ NoSellDown'
  BY <1>3 DEF NakedInv
<1>5. Settling(Current) /\ Unlocked /\ NoSellDown
  BY <1>4 DEF NakedInv
<1>6. Settling(Current)' /\ NoSellDown'
  BY <1>1, <1>2, <1>5 DEF Settling, Quiet, Gap, NoSellDown
<1>7. CASE ArmStops
  <2>1. mode = "none" /\ ~HasTask
    BY <1>7 DEF ArmStops
  <2>2. Unlocked'
    BY <1>1, <1>2, <2>1 DEF Unlocked
  <2> QED
    BY <1>6, <2>2
<1>8. CASE VenueStep \/ UNCHANGED exitVars
  <2>1. lock' = lock
    BY <1>8 DEF VenueStep, VenueAnswers, VenueAccept, VenueReject, VenueFill, VenueReduces,
                exitVars, venue
  <2>2. Unlocked'
    BY <1>1, <1>2, <1>5, <2>1 DEF Unlocked
  <2> QED
    BY <1>6, <2>2
<1> QED
  BY <1>7, <1>8

LEMMA NakedNext ==
    ASSUME RegistryInv, ShapeInv, BookInv, NakedInv, OneReplacer, [ExitNext]_exitVars
    PROVE  NakedInv'
<1>1. CASE VenueStep \/ ArmStops \/ UNCHANGED exitVars
  BY <1>1, OutsideNaked
<1>2. CASE SaleStep
  BY <1>2, SaleNaked DEF SaleStep
<1>3. ASSUME NEW i \in TaskId, PassiveStep(i),
             EventLoopFree \/ tasks[i].pc \in NoAwait \/ RequestOut(i)
      PROVE  NakedInv'
  <2>1. CASE LastLookFails(i)
    BY <2>1 DEF LastLookFails, NakedInv, NakedHolds, NoOrphans
  <2>2. CASE ~LastLookFails(i)
    BY <1>3, <2>2, WorkingNaked, ModeChangedNaked, SkipSaleNaked, BeginSaleNaked, SaleOverNaked,
       CleanupNaked DEF PassiveStep
  <2> QED
    BY <2>1, <2>2
<1>4. ASSUME NEW i \in TaskId, TakerStep(i) \/ TimesOut(i) PROVE NakedInv'
  BY <1>4, TakerNaked DEF TakerStep
<1>5. CASE \E i \in TaskId : TaskStep(i) \/ Deadline(i)
  BY <1>3, <1>4, <1>5, StartNaked, CompleteNaked, AccruedNaked DEF TaskStep, Deadline
<1>6. CASE \E c \in Callers : CallerStep(c)
  BY <1>6, CancelTaskNaked, SpawnNaked, AsksNaked, GuardRebalanceNaked DEF CallerStep, CallerGoesOn
<1> QED
  BY <1>1, <1>2, <1>5, <1>6 DEF ExitNext

\* When no run works, no spot that could be sold is without its perp and unreported.
THEOREM NakedInvariance == ExitSpec /\ []OneReplacer => []NakedInv
<1>1. ExitInit => NakedInv
  <2>1. ASSUME ExitInit PROVE NakedInv
    <3>1. /\ Current = Unborn /\ dbSpot = dbPerp /\ dbPerp \in Int /\ lock = FALSE
          /\ \A c \in Callers : caller[c].op = "none"
      BY <2>1, ExitAssumption DEF ExitInit, Current, Idle
    <3>2. Quiet
      BY <3>1, ExitAssumption DEF Quiet, Gap
    <3>3. Settling(Current)
      BY <3>1, <3>2, UnbornShape DEF Settling
    <3> QED
      BY <3>1, <3>3 DEF NakedInv, Unlocked, NoSellDown
  <2> QED
    BY <2>1
<1>2. RegistryInv /\ ShapeInv /\ BookInv /\ NakedInv /\ OneReplacer /\ [ExitNext]_exitVars => NakedInv'
  BY NakedNext
<1> QED
  BY <1>1, <1>2, RegistryInvariance, ShapeInvariance, BookInvariance, PTL DEF ExitSpec

LEMMA NakedAtTheVenues ==
    ASSUME RegistryInv, ShapeInv, BookInv, NakedInv, NoOrphans, "stops_stay" \notin ExitFaults
    PROVE  NakedSpotIsReported
<1>1. SUFFICES ASSUME AtRest, ~taker, adl = 0 PROVE vSpot - vPerp < MinNotional \/ warned
  BY DEF NakedSpotIsReported
<1>2. /\ dbPerp \in Int /\ dbSpot \in Int /\ vPerp \in Int /\ vSpot \in Nat /\ MinNotional \in Int
  BY ExitAssumption DEF RegistryInv, World
<1>3. Current = Unborn
  <2>1. ~HasTask
    BY <1>1 DEF AtRest, HasTask, RegistryInv, Registry
  <2> QED
    BY <2>1, NoTaskUnborn
<1>4. PerpFlight(Current) = 0 /\ SpotFlight(Current) = 0 /\ Unseen(Current) = 0
  BY <1>3, NothingInFlight DEF Unseen
<1>5. PerpOver = 0
  <2>1. PerpClean
    BY <1>1 DEF PerpClean, LegsKnown
  <2> QED
    BY <2>1 DEF BookInv, Books
<1>6. vPerp = dbPerp
  BY <1>2, <1>4, <1>5 DEF PerpOver
<1>7. vSpot <= dbSpot
  BY <1>2, <1>4 DEF BookInv, Books, SpotOver
<1>8. Quiet
  BY <1>1, <1>3, UnbornShape DEF NakedInv, NakedHolds, Settling
<1> QED
  BY <1>2, <1>6, <1>7, <1>8 DEF Quiet, Gap

\* Unless the cancellation of the protective stops can fail or an order can be orphaned:
\* however a passive exit is refused, cancelled, stood down or replaced, whatever is
\* unknown of its sales, and however many callers ask, spot that its bought-back perp no
\* longer hedges, and that can be traded, is not left without a word to the operator
\* (sell_pending, the handler of CancelledError, _complete_exit).
THEOREM NakedSpotIsNeverSilent ==
    ASSUME NoOrphans, "stops_stay" \notin ExitFaults
    PROVE  ExitSpec /\ []OneReplacer => []NakedSpotIsReported
<1>1. RegistryInv /\ ShapeInv /\ BookInv /\ NakedInv => NakedSpotIsReported
  BY NakedAtTheVenues
<1> QED
  BY <1>1, RegistryInvariance, ShapeInvariance, BookInvariance, NakedInvariance, PTL

-------------------------------------------------------------------------------
(***************************************************************************)
(* The refinement: what the steps of an exit are to LegsDown, for who sees *)
(* only the two legs, whether anybody works on them, and what was told.    *)
(***************************************************************************)

\* The invariants that the refinement rests on, and their meaning at the venues.
DownInv ==
    /\ RegistryInv /\ ShapeInv /\ BookInv /\ CloseInv
    /\ NoOrderOutlivesExit /\ SpotCoversPerp /\ ClosedMeansFlat /\ NakedSpotIsReported

\* No order is orphaned, no outcome is lost and the stops can be cancelled.
NothingLost ==
    NoOrphans /\ ExitFaults \cap {"stops_stay", "sale_ambiguous", "leg_ambiguous"} = {}

\* No run works and no caller is on the way.
Resting == ~HasTask /\ \A c \in Callers : caller[c].pc = "idle"

LEMMA AtRestIs == RegistryInv /\ ShapeInv => (AtRest <=> Resting)
<1> SUFFICES ASSUME RegistryInv, ShapeInv PROVE AtRest <=> Resting
  OBVIOUS
<1>1. ASSUME AtRest PROVE ~HasTask
  BY <1>1 DEF AtRest, HasTask, RegistryInv, Registry
<1>2. ASSUME ~HasTask, NEW i \in TaskId PROVE ~Alive(i) /\ Selling(i) = "none"
  <2>1. ~Alive(i)
    BY <1>2 DEF HasTask, RegistryInv, Registry, TaskId
  <2>2. tasks[i] = Unborn
    BY <2>1 DEF ShapeInv, FrameShape, Alive
  <2> QED
    BY <2>1, <2>2 DEF Selling, Unborn, NoSale
<1> QED
  BY <1>1, <1>2 DEF AtRest, Resting

\* The same after a step.
LEMMA AtRestIsNext == (RegistryInv /\ ShapeInv => (AtRest <=> Resting))'
  BY AtRestIs, PTL

\* A run that works goes on to work while its frame lives.
LEMMA WorksOn ==
    ASSUME RegistryInv', ShapeInv', Current'.pc # "dead"
    PROVE  ~AtRest'
<1>1. HasTask'
  BY UnbornShape DEF HasTask, Alive, Current
<1> QED
  BY <1>1, AtRestIsNext DEF Resting

\* A step that trades nothing: somebody goes to work, goes on, tells the operator or ends.
LEMMA QuietLegs ==
    ASSUME RegistryInv, RegistryInv', NakedSpotIsReported',
           UNCHANGED <<vPerp, vSpot, adl, taker>>, (state = "CLOSED") <=> (state' = "CLOSED"),
           state = "CLOSED" => AtRest /\ AtRest',
           warned => warned', warned' = warned \/ ~AtRest
    PROVE  [Legs!Next]_Legs!downVars
<1>1. warned \in BOOLEAN /\ warned' \in BOOLEAN
  BY DEF RegistryInv, World
<1>2. (state = "CLOSED") = (state' = "CLOSED")
  OBVIOUS
<1>3. CASE AtRest /\ AtRest'
  BY <1>1, <1>2, <1>3 DEF Legs!downVars
<1>4. CASE AtRest /\ ~AtRest'
  <2>1. Legs!Begin
    BY <1>1, <1>2, <1>4 DEF Legs!Begin
  <2> QED
    BY <2>1 DEF Legs!Next
<1>5. CASE ~AtRest /\ ~AtRest'
  <2>1. CASE warned' = warned
    BY <1>1, <1>2, <1>5, <2>1 DEF Legs!downVars
  <2>2. CASE warned' # warned
    <3>1. warned' = TRUE
      BY <1>1, <2>2
    <3>2. Legs!Tell
      BY <1>2, <1>5, <3>1 DEF Legs!Tell
    <3> QED
      BY <3>2 DEF Legs!Next
  <2> QED
    BY <2>1, <2>2
<1>6. CASE ~AtRest /\ AtRest'
  <2>1. taker \/ adl > 0 \/ warned' \/ vSpot - vPerp < MinNotional
    <3>1. adl \in Nat
      BY DEF RegistryInv, World
    <3> QED
      BY <1>6, <3>1 DEF NakedSpotIsReported
  <2>2. state' # "CLOSED"
    BY <1>6
  <2>3. warned' \in {warned, TRUE}
    BY <1>1
  <2>4. Legs!End
    BY <1>2, <1>6, <2>1, <2>2, <2>3 DEF Legs!End
  <2> QED
    BY <2>4 DEF Legs!Next
<1> QED
  BY <1>3, <1>4, <1>5, <1>6

\* A fill of a maker buy-back or of the perp leg of a taker close.
LEMMA BuyBackIsLegs ==
    ASSUME RegistryInv, RegistryInv', BookInv', NothingLost, ~AtRest, ~AtRest',
           NEW k \in Nat, vPerp' = vPerp - k,
           UNCHANGED <<vSpot, adl, taker, warned>>, (state = "CLOSED") <=> (state' = "CLOSED")
    PROVE  [Legs!Next]_Legs!downVars
<1>1. (state = "CLOSED") = (state' = "CLOSED") /\ vPerp \in Int /\ adl \in Nat
  BY DEF RegistryInv, World
<1>2. CASE k = 0
  BY <1>1, <1>2 DEF Legs!downVars
<1>3. CASE k # 0
  <2>1. adl > 0 \/ vPerp' >= 0
    <3>1. adl = 0 => PerpClean'
      BY DEF PerpClean, LegsKnown, NothingLost, NoOrphans
    <3> QED
      BY <1>1, <3>1 DEF BookInv, ShortKept
  <2>2. vPerp' < vPerp
    BY <1>1, <1>3
  <2>3. Legs!BuyBack
    BY <1>1, <2>1, <2>2 DEF Legs!BuyBack
  <2> QED
    BY <2>3 DEF Legs!Next
<1> QED
  BY <1>2, <1>3

\* A fill of a spot sale or of the spot leg of a taker close.
LEMMA SellIsLegs ==
    ASSUME RegistryInv, RegistryInv', SpotCoversPerp', ~AtRest, ~AtRest',
           NEW k \in Nat, vSpot' = vSpot - k,
           UNCHANGED <<vPerp, adl, taker, warned>>, (state = "CLOSED") <=> (state' = "CLOSED")
    PROVE  [Legs!Next]_Legs!downVars
<1>1. (state = "CLOSED") = (state' = "CLOSED") /\ vSpot \in Nat /\ vSpot' \in Nat
  BY DEF RegistryInv, World
<1>2. CASE k = 0
  BY <1>1, <1>2 DEF Legs!downVars
<1>3. CASE k # 0
  <2>1. taker \/ vSpot' >= vPerp \/ (adl > 0 /\ vPerp <= Tolerance)
    BY DEF SpotCoversPerp
  <2>2. vSpot' < vSpot /\ vSpot' >= 0
    BY <1>1, <1>3
  <2>3. Legs!Sell
    BY <1>1, <2>1, <2>2 DEF Legs!Sell
  <2> QED
    BY <2>3 DEF Legs!Next
<1> QED
  BY <1>2, <1>3

LEMMA VenueIsLegs ==
    ASSUME DownInv, DownInv', NothingLost, VenueStep,
           (state = "CLOSED") <=> (state' = "CLOSED"), state = "CLOSED" => AtRest /\ AtRest'
    PROVE  [Legs!Next]_Legs!downVars
<1>1. /\ UNCHANGED <<tasks, latest, caller, vSpot, taker, warned>>
      /\ RegistryInv /\ RegistryInv'
  BY DEF VenueStep, VenueAnswers, VenueAccept, VenueReject, VenueFill, VenueReduces, process, DownInv
<1>2. AtRest' = AtRest
  BY <1>1 DEF AtRest, Alive, Selling
<1>3. CASE VenueAnswers
  <2>1. UNCHANGED <<vPerp, vSpot, adl, taker, warned>>
    BY <1>3 DEF VenueAnswers, VenueAccept, VenueReject
  <2> QED
    BY <1>1, <2>1, QuietLegs DEF DownInv, RegistryInv, World
<1>4. ASSUME NEW o \in Order, NEW k \in 1..Size, VenueFill(o, k)
      PROVE  [Legs!Next]_Legs!downVars
  <2>1. OrderLive(o) /\ vPerp' = vPerp - k /\ adl' = adl
    BY <1>4 DEF VenueFill, OrderLive
  <2>2. ~AtRest
    BY <2>1 DEF DownInv, NoOrderOutlivesExit, AtRest
  <2>3. k \in Nat
    OBVIOUS
  <2> QED
    BY <1>1, <1>2, <2>1, <2>2, <2>3, BuyBackIsLegs DEF DownInv
<1>5. ASSUME NEW k \in 1..Size, VenueReduces(k)
      PROVE  [Legs!Next]_Legs!downVars
  <2>1. adl' = adl + 1 /\ vPerp' = vPerp - k /\ k <= vPerp /\ adl \in Nat /\ vPerp \in Int /\ k > 0
    BY <1>1, <1>5 DEF VenueReduces, RegistryInv, World
  <2>2. vPerp' < vPerp /\ vPerp' >= 0 /\ (adl' > 0) = TRUE
    BY <2>1
  <2>3. (state = "CLOSED") = (state' = "CLOSED")
    OBVIOUS
  <2>4. Legs!Reduce
    BY <1>1, <1>2, <2>2, <2>3 DEF Legs!Reduce
  <2> QED
    BY <2>4 DEF Legs!Next
<1> QED
  BY <1>3, <1>4, <1>5 DEF VenueStep

\* A run that works is work.
LEMMA TaskWorks ==
    ASSUME RegistryInv, ShapeInv, HasTask
    PROVE  ~AtRest
  BY AtRestIs DEF Resting

LEMMA SaleIsLegs ==
    ASSUME DownInv, DownInv', SaleStep,
           (state = "CLOSED") <=> (state' = "CLOSED"), state = "CLOSED" => AtRest /\ AtRest'
    PROVE  [Legs!Next]_Legs!downVars
<1>1. /\ RegistryInv /\ RegistryInv' /\ ShapeInv /\ ShapeInv' /\ SpotCoversPerp' /\ NakedSpotIsReported'
  BY DEF DownInv
<1>2. PICK i \in TaskId : (\E k \in 0..Size : SaleSends(i, k)) \/ SaleRefused(i) \/ SaleReplies(i)
                          \/ SaleAmbiguous(i)
  BY DEF SaleStep
<1>3. ASSUME NEW k \in 0..Size, SaleSends(i, k) PROVE [Legs!Next]_Legs!downVars
  <2>1. HasTask /\ Current'.pc = Current.pc /\ k \in Nat /\ Current = tasks[i] /\ Current.sale.at = "send"
    BY <1>1, <1>3, SaleSendsEffect
  <2>2. Current'.pc # "dead"
    <3>1. FrameShape(Current)
      BY <1>1, <2>1 DEF ShapeInv
    <3> QED
      BY <2>1, <3>1, UnbornShape DEF FrameShape, NoSale, Unborn
  <2>3. ~AtRest /\ ~AtRest'
    BY <1>1, <2>1, <2>2, WorksOn, TaskWorks
  <2>4. vSpot' = vSpot - k /\ UNCHANGED <<vPerp, adl, taker, warned>>
    BY <1>3 DEF SaleSends
  <2> QED
    BY <1>1, <2>1, <2>3, <2>4, SellIsLegs
<1>4. CASE SaleRefused(i) \/ SaleReplies(i) \/ SaleAmbiguous(i)
  <2>1. UNCHANGED <<vPerp, vSpot, adl, taker, warned>>
    BY <1>4 DEF SaleRefused, SaleReplies, SaleAmbiguous, venue
  <2> QED
    BY <1>1, <2>1, QuietLegs DEF RegistryInv, World
<1> QED
  BY <1>2, <1>3, <1>4

\* The steps of a run that trade nothing, start no taker close and do not close.
LEMMA RunIsQuiet ==
    ASSUME RegistryInv, NEW i \in TaskId,
           PassiveStep(i) \/ Complete(i) \/ Finished(i) \/ TimesOut(i)
           \/ (\E legs \in SUBSET {"perp", "spot"} : SendLegs(i, legs)) \/ LegAmbiguous(i)
           \/ Gather(i) \/ (\E q \in 1..Size : Tranche(i, q)) \/ TrancheOver(i)
    PROVE  UNCHANGED <<vPerp, vSpot, adl, taker>> /\ (warned => warned')
<1>1. warned \in BOOLEAN
  BY DEF RegistryInv, World
<1>2. ASSUME PassiveStep(i) PROVE UNCHANGED <<vPerp, vSpot, adl, taker>> /\ (warned => warned')
  <2>1. CASE ModeChanged(i) \/ EndPhase(i) \/ RestNothing(i) \/ (\E q \in 1..Size : Place(i, q))
             \/ PlaceReplies(i) \/ PollFails(i) \/ LastLookFails(i)
    BY <2>1 DEF ModeChanged, EndPhase, RestNothing, Place, PlaceReplies, PollFails, LastLookFails,
                venue
  <2>2. CASE (\E reprice \in BOOLEAN : Poll(i, reprice)) \/ CancelOrder(i) \/ SkipSale(i)
             \/ BeginSale(i) \/ CheckSale(i)
    <3>1. UNCHANGED <<vPerp, vSpot, adl, taker, warned>>
      BY <2>2 DEF Poll, CancelOrder, SkipSale, BeginSale, CheckSale, venue
    <3> QED
      BY <3>1, Zenon
  <2>3. CASE SaleOver(i)
    BY <1>1, <2>3 DEF SaleOver
  <2>4. CASE SaleAwaited(i)
    BY <1>1, <2>4 DEF SaleAwaited, venue
  <2> QED
    BY <1>2, <2>1, <2>2, <2>3, <2>4 DEF PassiveStep
<1>3. ASSUME Complete(i) PROVE UNCHANGED <<vPerp, vSpot, adl, taker>> /\ (warned => warned')
  BY <1>1, <1>3 DEF Complete, venue
<1>4. CASE Finished(i) \/ TimesOut(i) \/ (\E legs \in SUBSET {"perp", "spot"} : SendLegs(i, legs))
           \/ LegAmbiguous(i) \/ (\E q \in 1..Size : Tranche(i, q))
  <2>1. UNCHANGED <<vPerp, vSpot, adl, taker, warned>>
    BY <1>4 DEF Finished, TimesOut, SendLegs, LegAmbiguous, Tranche, venue
  <2> QED
    BY <2>1, Zenon
<1>5. CASE Gather(i) \/ TrancheOver(i)
  BY <1>1, <1>5 DEF Gather, TrancheOver, venue
<1> QED
  BY <1>2, <1>3, <1>4, <1>5

\* The steps of a run that does not close the position.
LEMMA RunIsLegs ==
    ASSUME DownInv, DownInv', NothingLost, NEW i \in TaskId, TaskStep(i) \/ Deadline(i),
           (state = "CLOSED") <=> (state' = "CLOSED"), state = "CLOSED" => AtRest /\ AtRest',
           ~Accrued(i)
    PROVE  [Legs!Next]_Legs!downVars
<1>1. /\ RegistryInv /\ RegistryInv' /\ ShapeInv /\ ShapeInv' /\ BookInv'
      /\ SpotCoversPerp' /\ NakedSpotIsReported'
  BY DEF DownInv
<1>2. ~AtRest
  BY <1>1, TaskStepHasTask, TaskWorks
<1>3. ASSUME NEW k \in 0..Size, PerpLeg(i, k) PROVE [Legs!Next]_Legs!downVars
  <2>1. Current'.pc = "sent" /\ k \in Nat
    BY <1>1, <1>3, PerpLegEffect
  <2>2. ~AtRest'
    BY <1>1, <2>1, WorksOn
  <2>3. vPerp' = vPerp - k /\ UNCHANGED <<vSpot, adl, taker, warned>>
    BY <1>3 DEF PerpLeg
  <2> QED
    BY <1>1, <1>2, <2>1, <2>2, <2>3, BuyBackIsLegs
<1>4. ASSUME NEW k \in 0..Size, SpotLeg(i, k) PROVE [Legs!Next]_Legs!downVars
  <2>1. Current'.pc = "sent" /\ k \in Nat
    BY <1>1, <1>4, SpotLegEffect
  <2>2. ~AtRest'
    BY <1>1, <2>1, WorksOn
  <2>3. vSpot' = vSpot - k /\ UNCHANGED <<vPerp, adl, taker, warned>>
    BY <1>4 DEF SpotLeg
  <2> QED
    BY <1>1, <1>2, <2>1, <2>2, <2>3, SellIsLegs
<1>5. CASE Start(i)
  <2>1. Current'.pc = "top" /\ (taker' = taker \/ taker')
    BY <1>1, <1>5, StartEffect
  <2>2. ~AtRest'
    BY <1>1, <2>1, WorksOn
  <2>3. UNCHANGED <<vPerp, vSpot, adl, warned>> /\ taker' \in BOOLEAN
    BY <1>1, <1>5 DEF Start, venue, RegistryInv, World
  <2>4. (state = "CLOSED") = (state' = "CLOSED")
    OBVIOUS
  <2>5. CASE taker' = taker
    BY <1>2, <2>2, <2>3, <2>4, <2>5 DEF Legs!downVars
  <2>6. CASE taker'
    <3>1. Legs!Take
      BY <1>2, <2>2, <2>3, <2>4, <2>6 DEF Legs!Take
    <3> QED
      BY <3>1 DEF Legs!Next
  <2> QED
    BY <2>1, <2>5, <2>6
<1>6. CASE PassiveStep(i) \/ Complete(i) \/ Finished(i) \/ TimesOut(i)
           \/ (\E legs \in SUBSET {"perp", "spot"} : SendLegs(i, legs)) \/ LegAmbiguous(i)
           \/ Gather(i) \/ (\E q \in 1..Size : Tranche(i, q)) \/ TrancheOver(i)
  <2>1. UNCHANGED <<vPerp, vSpot, adl, taker>> /\ (warned => warned')
    BY <1>1, <1>6, RunIsQuiet
  <2> QED
    BY <1>1, <1>2, <2>1, QuietLegs
<1>7. TakerStep(i) => \/ \E k \in 0..Size : PerpLeg(i, k) \/ SpotLeg(i, k)
                      \/ Finished(i) \/ (\E legs \in SUBSET {"perp", "spot"} : SendLegs(i, legs))
                      \/ LegAmbiguous(i) \/ Gather(i) \/ (\E q \in 1..Size : Tranche(i, q))
                      \/ TrancheOver(i)
  BY DEF TakerStep
<1> QED
  BY <1>3, <1>4, <1>5, <1>6, <1>7 DEF TaskStep, Deadline

LEMMA CallerIsLegs ==
    ASSUME DownInv, DownInv', NEW c \in Callers, CallerStep(c),
           (state = "CLOSED") <=> (state' = "CLOSED"), state = "CLOSED" => AtRest /\ AtRest'
    PROVE  [Legs!Next]_Legs!downVars
<1>1. UNCHANGED <<vPerp, vSpot, adl, taker, warned>>
  BY DEF CallerStep, CallerGoesOn, AskExit, AskStandDown, GuardRebalance, StopsCancelled,
         CancelTask, Spawn, StoodDown, venue
<1> QED
  BY <1>1, QuietLegs DEF DownInv, RegistryInv, World

\* The run that closes the position ends with it, and nobody else is at work.
LEMMA ClosingIsLegs ==
    ASSUME DownInv, DownInv', NothingLost, [ExitNext]_exitVars,
           state # "CLOSED", state' = "CLOSED"
    PROVE  [Legs!Next]_Legs!downVars
<1>1. /\ RegistryInv /\ RegistryInv' /\ ShapeInv /\ ShapeInv' /\ CloseInv'
      /\ ClosedMeansFlat' /\ NakedSpotIsReported'
  BY DEF DownInv
<1>2. PICK i \in TaskId : Accrued(i) /\ TaskStep(i)
  BY ClosesByAccrual
<1>3. ~AtRest
  BY <1>1, <1>2, AccruedEffect, TaskWorks
<1>4. AtRest'
  <2>1. Resting'
    BY <1>1 DEF CloseInv, Closed, NothingLost, NoOrphans, Resting
  <2> QED
    BY <1>1, <2>1, AtRestIsNext
<1>5. UNCHANGED <<vPerp, vSpot, adl, taker, warned>>
  BY <1>2 DEF Accrued, venue
<1>6. /\ adl \in Nat /\ vPerp \in Int /\ vSpot \in Nat /\ warned \in BOOLEAN /\ MinNotional \in Nat
  BY <1>1, ExitAssumption DEF DownInv, RegistryInv, World
<1>7. taker \/ adl > 0 \/ warned' \/ vSpot - vPerp < MinNotional
  BY <1>1, <1>4, <1>5, <1>6 DEF NakedSpotIsReported
<1>8. adl > 0 \/ (vPerp < MinNotional /\ vSpot < MinNotional)
  BY <1>1, <1>5, <1>6 DEF ClosedMeansFlat
<1>9. warned' \in {warned, TRUE}
  BY <1>5
<1>10. Legs!End
  BY <1>3, <1>4, <1>5, <1>7, <1>8, <1>9 DEF Legs!End
<1> QED
  BY <1>10 DEF Legs!Next

\* A closed position stays closed and at rest.
LEMMA ClosedRests ==
    ASSUME DownInv, DownInv', NothingLost, [ExitNext]_exitVars, state = "CLOSED"
    PROVE  state' = "CLOSED" /\ AtRest /\ AtRest'
<1>1. UNCHANGED <<tasks, latest, caller, state>>
  BY ClosedStays DEF DownInv, CloseInv, NothingLost
<1>2. Resting
  BY DEF DownInv, CloseInv, Closed, NothingLost, Resting
<1>3. AtRest
  BY <1>2, AtRestIs DEF DownInv
<1> QED
  BY <1>1, <1>3 DEF AtRest, Alive, Selling

LEMMA StepIsLegs ==
    ASSUME DownInv, DownInv', NothingLost, [ExitNext]_exitVars
    PROVE  [Legs!Next]_Legs!downVars
<1>1. CASE state # "CLOSED" /\ state' = "CLOSED"
  BY <1>1, ClosingIsLegs
<1>2. CASE ~(state # "CLOSED" /\ state' = "CLOSED")
  <2>1. (state = "CLOSED") <=> (state' = "CLOSED")
    BY <1>2, ClosedRests
  <2>2. state = "CLOSED" => AtRest /\ AtRest'
    BY ClosedRests
  <2>3. CASE VenueStep
    BY <2>1, <2>2, <2>3, VenueIsLegs
  <2>4. CASE SaleStep
    BY <2>1, <2>2, <2>4, SaleIsLegs
  <2>5. ASSUME NEW i \in TaskId, TaskStep(i) \/ Deadline(i)
        PROVE  [Legs!Next]_Legs!downVars
    <3>1. ~Accrued(i)
      <4>1. HasTask
        BY <2>5, TaskStepHasTask DEF DownInv
      <4>2. state # "CLOSED"
        BY <2>2, <4>1, TaskWorks DEF DownInv
      <4> QED
        BY <1>2, <4>2 DEF Accrued
    <3> QED
      BY <2>1, <2>2, <2>5, <3>1, RunIsLegs
  <2>6. CASE \E c \in Callers : CallerStep(c)
    BY <2>1, <2>2, <2>6, CallerIsLegs
  <2>7. CASE ArmStops
    <3>1. UNCHANGED <<vPerp, vSpot, adl, taker, warned>>
      BY <2>7 DEF ArmStops
    <3> QED
      BY <2>1, <2>2, <3>1, QuietLegs DEF DownInv, RegistryInv, World
  <2>8. CASE UNCHANGED exitVars
    <3>1. UNCHANGED <<vPerp, vSpot, adl, taker, warned>>
      BY <2>8 DEF exitVars, venue
    <3> QED
      BY <2>1, <2>2, <3>1, QuietLegs DEF DownInv, RegistryInv, World
  <2> QED
    BY <2>3, <2>4, <2>5, <2>6, <2>7, <2>8 DEF ExitNext
<1> QED
  BY <1>1, <1>2

\* Requests, runs, their cleanups and replacements are, seen from the account, the life
\* of two legs that LegsDown describes, for any sizes and any number of callers of
\* which one replaces the task at a time: nothing trades when nobody is at work, the spot
\* covers the perp until a taker close, no run ends with naked spot in silence, and
\* CLOSED is flat and final.  The venue may close contracts by itself at any time;
\* every other fault, a cancel that fails among them, is excluded.
THEOREM ExitsAreLegsDown ==
    ASSUME ExitFaults \subseteq {"adl_midway"}
    PROVE  ExitSpec /\ []OneReplacer => ImplementsLegsDown
<1>1. NothingLost
  BY DEF NothingLost, NoOrphans
<1>2. ExitInit => Legs!Init
  <2> SUFFICES ASSUME ExitInit PROVE Legs!Init
    OBVIOUS
  <2>1. /\ vPerp \in Nat /\ vSpot = vPerp /\ adl = 0 /\ taker = FALSE /\ warned = FALSE
        /\ state # "CLOSED"
    BY ExitAssumption DEF ExitInit
  <2>2. AtRest
    BY DEF ExitInit, AtRest, Alive, Selling, Unborn, NoSale, Idle
  <2> QED
    BY <2>1, <2>2 DEF Legs!Init
<1>3. DownInv /\ DownInv' /\ [ExitNext]_exitVars => [Legs!Next]_Legs!downVars
  BY <1>1, StepIsLegs
<1>4. ExitSpec /\ []OneReplacer => []DownInv
  <2>1. ExitSpec /\ []OneReplacer => []NoOrderOutlivesExit
    BY <1>1, OrdersAreTakenDown DEF NothingLost
  <2>2. ExitSpec /\ []OneReplacer => []SpotCoversPerp
    BY <1>1, NoHedgeIsSold DEF NothingLost
  <2>3. ExitSpec /\ []OneReplacer => []ClosedMeansFlat
    BY <1>1, ClosedIsFlatAtTheVenues DEF NothingLost
  <2>4. ExitSpec /\ []OneReplacer => []NakedSpotIsReported
    BY <1>1, NakedSpotIsNeverSilent DEF NothingLost
  <2>5. (RegistryInv /\ ShapeInv /\ BookInv /\ CloseInv
          /\ NoOrderOutlivesExit /\ SpotCoversPerp /\ ClosedMeansFlat /\ NakedSpotIsReported)
        => DownInv
    BY DEF DownInv
  <2> QED
    BY <2>1, <2>2, <2>3, <2>4, <2>5, RegistryInvariance, ShapeInvariance, BookInvariance,
       CloseInvariance, PTL
<1> QED
  BY <1>2, <1>3, <1>4, PTL DEF ExitSpec, ImplementsLegsDown, Legs!Spec

================================================================================
