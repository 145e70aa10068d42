------------------------------- MODULE StopProofs -------------------------------
(***************************************************************************)
(* Proofs about the protection of a position (StopGuard), for any size,    *)
(* floors, and number of commands, reductions and restarts: no stop locks  *)
(* the spot of a run (ExitNotLocked), stops of one leg do not stack        *)
(* (StopsDoNotStack), and what a stop, the guard or the balance check      *)
(* books was gone from the venue (PerpNotForgotten, SpotNotForgotten).     *)
(* None of the four is inductive: each rests on what the sweep read before *)
(* its last await, and on who may change that in between.                  *)
(***************************************************************************)
EXTENDS StopGuard, FiniteSetTheorems, TLAPS

OrderType == [leg : {"none", "perp", "spot"}, st : {"none", "live", "filled", "dead"},
              qty : Int, exec : Nat]
StopsType == [a : Id \cup {0}, m : Id \cup {0}]
GraceType == [m : Id \cup {0}, booked : Int, floor : Int]
TaskType == [kind : {"none", "exit", "selldown", "add"}, floor : Int]
SweepPlace ==
    {"idle", "stop", "perp", "disarm", "sold", "buyback", "balance", "guard", "which", "twin",
     "finish", "free", "selldown", "grace", "lapse", "ensure", "clear", "armperp", "armspot"}
SweepType ==
    [pc : SweepPlace,
     perp : Int, spot : Int, open : BOOLEAN, own : BOOLEAN, a : Id \cup {0}, m : Id \cup {0},
     venue : Int, booked : Int]

RenewType ==
    [pc : {"none", "wait", "perp", "spot"}, perp : Int, spot : Int, a : Id \cup {0}]

\* The lock is held by the close between its two steps, by the sweep that arms
\* stops and by /stops, never by a run.
LockHeld ==
    /\ op \in {"none", "stops", "cancelled"}
    /\ lock = "sweep" <=> sw.pc \in {"clear", "armperp", "armspot"}
    /\ lock = "op" <=> op = "cancelled"
    /\ lock = "renew" <=> renew.pc \in {"perp", "spot"}
    /\ lock \in {"none", "sweep", "op", "renew"}

\* There is room for the orders the sweep is about to place.
SlotsLeft(n) == Placed + n <= MaxStops

VenueTyped ==
    /\ vPerp \in Nat /\ vSpot \in Int
    /\ ord \in [Id -> OrderType] /\ risk \in [perp : Int, later : BOOLEAN]
RowTyped ==
    /\ dbPerp \in Int /\ dbSpot \in Int /\ floorReq \in Int
    /\ state \in {"OPEN", "EXITING", "CLOSED"}
EngineTyped ==
    /\ known \in StopsType /\ saved = known
    /\ grace \in GraceType /\ task \in TaskType /\ sw \in SweepType /\ renew \in RenewType
FlagsTyped ==
    /\ exitReq \in BOOLEAN /\ hedgeBreak \in BOOLEAN /\ spotDeficit \in BOOLEAN
    /\ spotClose \in BOOLEAN /\ warned \in BOOLEAN
Roomy ==
    /\ sw.pc \in {"clear", "armperp"} => SlotsLeft(2)
    /\ sw.pc = "armspot" => SlotsLeft(1)

StopTypeOK == VenueTyped /\ RowTyped /\ EngineTyped /\ FlagsTyped /\ LockHeld /\ Roomy

\* /stops is at work neither beside the handling of a stop that fired nor beside a
\* close.
Apart ==
    renew.pc # "none" => ~Fired /\ op # "cancelled" /\ task.kind \notin {"exit", "selldown"}

\* The sell LIMITs that may rest: at most one, the one that memory or the grace
\* window names if they name one, and none where spot is about to be sold.
SpotFree ==
    /\ \A o, p \in LiveOn("spot") : o = p
    /\ known.m # 0 => LiveOn("spot") \subseteq {known.m}
    /\ grace # NoGrace => sw.pc \in {"idle", "grace"} /\ LiveOn("spot") \subseteq {grace.m}
    /\ sw.pc \in {"grace", "lapse"} => LiveOn("spot") \subseteq {sw.m}
    /\ sw.pc \in {"which", "twin"} /\ sw.m # 0 => LiveOn("spot") \subseteq {sw.m}
    /\ sw.pc \in {"selldown", "armperp", "armspot"} \/ op = "cancelled" => LiveOn("spot") = {}
    /\ renew.pc \in {"perp", "spot"} => LiveOn("spot") = {}
    /\ lock = "sweep" => task.kind \notin {"exit", "selldown"}
    /\ ExitNotLocked

\* The same of the perp stops and the buy-back.
PerpSingle ==
    /\ \A o, p \in LiveOn("perp") : o = p
    /\ known.m # 0 /\ sw.pc # "armspot" /\ renew.pc # "spot" => LiveOn("perp") \subseteq {known.a}
    /\ renew.pc = "perp" => LiveOn("perp") = {}
    /\ renew.pc = "spot" => LiveOn("perp") \subseteq {renew.a}
    /\ sw.pc \in {"perp", "disarm", "armspot"} => LiveOn("perp") \subseteq {sw.a}
    /\ sw.pc \in {"sold", "buyback", "armperp"} => LiveOn("perp") = {}

\* The rows of the perp leg never say less than the venue: the row the sweep
\* works with is the position's, and a snapshot the guard may use shows no less
\* than the venue has: nothing was added since the window began.
Watches == hedgeBreak \/ sw.pc = "which"
PerpInv ==
    /\ PerpNotForgotten
    /\ Watches /\ risk.later => risk.perp >= vPerp
    /\ RowInHand => sw.perp = dbPerp
    /\ sw.pc = "which" => dbPerp - vPerp >= sw.perp - sw.venue

\* Orders take their places in turn, and what memory, the grace window and the
\* sweep call a spot order is one.
SpotOrder(m) == m # 0 => m <= Placed /\ ord[m].leg = "spot"
InTurn == \A o \in Id : ord[o].st # "none" <=> o <= Placed
Named == InTurn /\ SpotOrder(known.m) /\ SpotOrder(grace.m) /\ SpotOrder(sw.m)

\* What a spot order has sold and no one has booked is still in the row: wholly
\* for the stop that memory names, but for its booked part in the grace window.
Unsold(q) == dbSpot - vSpot >= q
FrameSold ==
    /\ sw.pc \in {"stop", "perp", "disarm", "sold", "balance"} => dbSpot >= sw.spot
    /\ sw.pc \in {"perp", "disarm", "sold"} => sw.perp > 0 /\ Unsold(Executed(sw.m))
    /\ sw.pc = "grace" =>
          /\ known.m = 0
          /\ grace # NoGrace => grace.m = sw.m /\ grace.booked = sw.booked
          /\ Unsold(Executed(sw.m) - sw.booked)
    /\ sw.pc \in {"which", "twin"} => Unsold(Executed(sw.m))
SpotInv ==
    /\ SpotNotForgotten
    /\ known.m # 0 /\ sw.pc # "buyback" => Unsold(Executed(known.m))
    /\ grace # NoGrace =>
          /\ sw.pc \in {"idle", "grace"} /\ known.m = 0
          /\ Unsold(Executed(grace.m) - grace.booked)
    /\ FrameSold

-------------------------------------------------------------------------------
LEMMA SmallerOf ==
    ASSUME NEW a \in Int, NEW b \in Int
    PROVE  Min({a, b}) \in {a, b} /\ Min({a, b}) <= a /\ Min({a, b}) <= b
<1>1. \E x \in {a, b} : \A y \in {a, b} : x =< y
  OBVIOUS
<1> QED
  BY <1>1 DEF Min

LEMMA StopConstants ==
    /\ Held \in Nat \ {0} /\ MaxStops \in Nat /\ ExitFloors \subseteq Nat
    /\ IsFiniteSet(Id) /\ Cardinality(Id) = MaxStops
  BY StopAssumption, FS_Interval, SMT DEF Id

\* Placed counts orders; a new one takes the next place.
LEMMA PlacedCounts == Placed \in Nat
<1>1. IsFiniteSet({o \in Id : ord[o].st # "none"})
  BY StopConstants, FS_Subset
<1> QED
  BY <1>1, FS_CardinalityType DEF Placed

LEMMA PlacedStays ==
    ASSUME \A o \in Id : ord'[o].st = "none" <=> ord[o].st = "none"
    PROVE  Placed' = Placed
  BY DEF Placed, Id

LEMMA PlacedGrows ==
    ASSUME \A o \in Id : o # Placed + 1 => ord'[o] = ord[o]
    PROVE  Placed' \in Nat /\ Placed' <= Placed + 1
<1> DEFINE S == {o \in Id : ord[o].st # "none"}
           T == {o \in Id : ord'[o].st # "none"}
<1>1. IsFiniteSet(S) /\ IsFiniteSet(S \cup {Placed + 1})
      /\ Cardinality(S \cup {Placed + 1}) <= Cardinality(S) + 1
  BY StopConstants, FS_Subset, FS_AddElement, FS_CardinalityType
<1>2. T \subseteq S \cup {Placed + 1}
  OBVIOUS
<1>3. Cardinality(T) <= Cardinality(S \cup {Placed + 1})
  BY <1>1, <1>2, FS_Subset
<1>4. Placed = Cardinality(S) /\ Placed' = Cardinality(T)
  BY DEF Placed, Id
<1>5. IsFiniteSet(T) /\ Cardinality(T) \in Nat /\ Cardinality(S) \in Nat
      /\ Cardinality(S \cup {Placed + 1}) \in Nat
  BY <1>1, <1>2, FS_Subset, FS_CardinalityType
<1> QED
  BY <1>1, <1>3, <1>4, <1>5

\* What _cancel_stop_orders leaves behind.
LEMMA CancelledAll ==
    ASSUME ord \in [Id -> OrderType], ord' = AllCancelled
    PROVE  /\ ord' \in [Id -> OrderType]
           /\ \A leg : LiveOn(leg)' = {}
           /\ \A o \in Id : ord'[o].exec = ord[o].exec /\ ord'[o].leg = ord[o].leg
           /\ \A o \in Id : ord'[o].st = "none" <=> ord[o].st = "none"
<1>1. \A o \in Id : ord[o] \in OrderType
  OBVIOUS
<1>2. \A o \in Id :
         /\ ord'[o] \in OrderType /\ ord'[o].exec = ord[o].exec /\ ord'[o].leg = ord[o].leg
         /\ ord'[o].st # "live" /\ (ord'[o].st = "none" <=> ord[o].st = "none")
  BY <1>1 DEF AllCancelled, Live, OrderType
<1>3. ord' \in [Id -> OrderType]
  BY <1>2 DEF AllCancelled
<1> QED
  BY <1>2, <1>3 DEF LiveOn, Live

\* What a new order adds.
LEMMA PlacedOne ==
    ASSUME ord \in [Id -> OrderType], NEW leg \in {"perp", "spot"}, NEW q \in Int,
           ord' = Placing(leg, q)
    PROVE  /\ ord' \in [Id -> OrderType]
           /\ LiveOn(leg)' \subseteq LiveOn(leg) \cup {Placed + 1}
           /\ \A other : other # leg => LiveOn(other)' \subseteq LiveOn(other)
           /\ \A o \in Id : ord'[o].exec <= ord[o].exec
           /\ Placed + 1 \in Id => /\ ord'[Placed + 1].exec = 0 /\ ord'[Placed + 1].leg = leg
                                  /\ ord'[Placed + 1].st = "live"
           /\ \A o \in Id : o # Placed + 1 => ord'[o] = ord[o]
<1> DEFINE n == Placed + 1
           new == [leg |-> leg, st |-> "live", qty |-> q, exec |-> 0]
<1>1. new \in OrderType /\ new.leg = leg /\ new.exec = 0 /\ new.st = "live"
  BY DEF OrderType
<1>2. ord' = [ord EXCEPT ![n] = new]
  BY DEF Placing
<1>3. \A o \in Id : ord[o] \in OrderType /\ ord[o].exec \in Nat
  BY DEF OrderType
<1> HIDE DEF n, new
<1>4. \A o \in Id : ord'[o] = IF o = n THEN new ELSE ord[o]
  BY <1>2
<1>5. ord' \in [Id -> OrderType]
  BY <1>1, <1>2, <1>3
<1>6. \A o \in Id : ord'[o].exec <= ord[o].exec /\ (o = n => ord'[o].exec = 0)
  BY <1>1, <1>3, <1>4
<1> QED
  BY <1>1, <1>4, <1>5, <1>6 DEF n, LiveOn, Live

\* An order that leaves the book, or fills.
LEMMA OrderMoves ==
    ASSUME ord \in [Id -> OrderType], NEW o \in Id, NEW st \in {"live", "filled", "dead"}, NEW k \in Nat,
           ord[o].st = "live",
           ord' = [ord EXCEPT ![o].exec = @ + k, ![o].st = st]
    PROVE  /\ ord' \in [Id -> OrderType]
           /\ \A leg : LiveOn(leg)' \subseteq LiveOn(leg)
           /\ ord'[o].exec = ord[o].exec + k /\ ord'[o].leg = ord[o].leg /\ ord'[o].st = st
           /\ \A p \in Id : p # o => ord'[p] = ord[p]
<1>1. ord[o] \in OrderType
  OBVIOUS
<1> DEFINE fill == [ord[o] EXCEPT !.exec = @ + k]
           new == [fill EXCEPT !.st = st]
<1>2. fill \in OrderType /\ fill.exec = ord[o].exec + k /\ fill.leg = ord[o].leg
  BY <1>1 DEF OrderType
<1>3. new \in OrderType /\ new.exec = fill.exec /\ new.leg = fill.leg /\ new.st = st
  BY <1>2 DEF OrderType
<1>4. ord' = [[ord EXCEPT ![o] = fill] EXCEPT ![o] = new]
  OBVIOUS
<1> HIDE DEF new, fill
<1>5. \A p \in Id : ord'[p] = IF p = o THEN new ELSE ord[p]
  BY <1>4
<1>6. ord' \in [Id -> OrderType]
  BY <1>2, <1>3, <1>4
<1> QED
  BY <1>1, <1>2, <1>3, <1>5, <1>6 DEF LiveOn, Live

LEMMA OrderDies ==
    ASSUME ord \in [Id -> OrderType], NEW o \in Id, ord' = [ord EXCEPT ![o].st = "dead"]
    PROVE  /\ ord' \in [Id -> OrderType]
           /\ \A leg : LiveOn(leg)' = LiveOn(leg) \ {o}
           /\ \A p \in Id : ord'[p].exec = ord[p].exec /\ ord'[p].leg = ord[p].leg
<1>1. ord[o] \in OrderType
  OBVIOUS
<1> DEFINE new == [ord[o] EXCEPT !.st = "dead"]
<1>2. ord' = [ord EXCEPT ![o] = new]
  OBVIOUS
<1>3. new \in OrderType /\ new.exec = ord[o].exec /\ new.leg = ord[o].leg /\ new.st = "dead"
  BY <1>1 DEF OrderType
<1> HIDE DEF new
<1> QED
  BY <1>1, <1>2, <1>3 DEF LiveOn, Live

-------------------------------------------------------------------------------
\* The frames the sweep moves to.
LEMMA FrameGoes ==
    ASSUME sw \in SweepType, NEW pc \in SweepPlace, Goes(pc)
    PROVE  /\ sw' \in SweepType /\ sw'.pc = pc
           /\ sw'.perp = sw.perp /\ sw'.spot = sw.spot /\ sw'.open = sw.open /\ sw'.own = sw.own
           /\ sw'.a = sw.a /\ sw'.m = sw.m /\ sw'.venue = sw.venue /\ sw'.booked = sw.booked
  BY DEF Goes, Sweep, SweepType

LEMMA FrameRests ==
    ASSUME Rest
    PROVE  sw' \in SweepType /\ sw'.pc = "idle"
  BY DEF Rest, Sweep, Asleep, SweepType, SweepPlace

LEMMA FramePassesGuard ==
    ASSUME PastGuard
    PROVE  sw' \in SweepType /\ sw'.pc \in {"idle", "ensure"}
<1> DEFINE pc == IF sw.own \/ ~sw.open THEN "idle" ELSE "ensure"
<1>1. sw' = [Asleep EXCEPT !.pc = pc]
  BY DEF PastGuard, Sweep
<1>2. pc \in {"idle", "ensure"}
  OBVIOUS
<1>3. Asleep \in SweepType
  BY DEF Asleep, SweepType, SweepPlace
<1> HIDE DEF pc
<1> QED
  BY <1>1, <1>2, <1>3 DEF SweepType, SweepPlace

LEMMA StopTypeInit == StopInit => StopTypeOK
<1> SUFFICES ASSUME StopInit PROVE StopTypeOK
  OBVIOUS
<1>1. VenueTyped
  <2>1. [leg |-> "none", st |-> "none", qty |-> 0, exec |-> 0] \in OrderType
    BY DEF OrderType
  <2>2. ord \in [Id -> OrderType]
    BY <2>1 DEF StopInit
  <2>3. Held \in Nat /\ risk \in [perp : Int, later : BOOLEAN]
    BY StopConstants DEF StopInit
  <2> QED
    BY <2>2, <2>3 DEF StopInit, VenueTyped
<1>2. RowTyped
  BY StopConstants DEF StopInit, RowTyped
<1>6. FlagsTyped
  BY Zenon DEF StopInit, FlagsTyped
<1>3. sw.pc = "idle" /\ sw \in SweepType
  BY DEF StopInit, Asleep, SweepType, SweepPlace
<1>4. EngineTyped
  BY <1>3 DEF StopInit, EngineTyped, NoStops, NoGrace, NoTask, StopsType, GraceType, TaskType,
              NoRenew, RenewType
<1>5. LockHeld /\ Roomy
  BY <1>3 DEF StopInit, LockHeld, Roomy, NoRenew
<1> QED
  BY <1>1, <1>2, <1>4, <1>5, <1>6 DEF StopTypeOK

\* Steps that leave the sweep and the lock alone, and place no order.
LEMMA SweepKept ==
    ASSUME StopTypeOK, UNCHANGED <<sw, lock, op, renew>>,
           \A o \in Id : ord'[o].st = "none" <=> ord[o].st = "none"
    PROVE  LockHeld' /\ Roomy'
  BY PlacedStays DEF StopTypeOK, LockHeld, Roomy, SlotsLeft

LEMMA VenueTypes ==
    ASSUME StopTypeOK, VenueMoves \/ VenueTidies \/ RefreshRisk
    PROVE  StopTypeOK'
<1>1. ASSUME NEW o \in Id, NEW k \in 1..(Held + MaxOps), OrderFills(o, k) PROVE StopTypeOK'
  <2>1. k \in Nat /\ ord[o] \in OrderType /\ ord[o].st = "live"
    BY <1>1, StopConstants, StopAssumption DEF OrderFills, Live, StopTypeOK, VenueTyped
  <2>2. PICK st \in {"live", "filled", "dead"} :
           ord' = [ord EXCEPT ![o].exec = @ + k, ![o].st = st]
    BY <1>1 DEF OrderFills
  <2>3. /\ ord' \in [Id -> OrderType]
        /\ \A p \in Id : ord'[p].st = "none" <=> ord[p].st = "none"
    BY <2>1, <2>2, OrderMoves DEF StopTypeOK, VenueTyped
  <2>4. VenueTyped'
    BY <1>1, <2>1, <2>3 DEF OrderFills, StopTypeOK, VenueTyped
  <2> QED
    BY <1>1, <2>3, <2>4, SweepKept
    DEF OrderFills, row, memory, commands, StopTypeOK, RowTyped, EngineTyped, FlagsTyped
<1>2. ASSUME NEW o \in Id, OrderLapses(o) PROVE StopTypeOK'
  <2>1. ord' = [ord EXCEPT ![o].st = "dead"] /\ ord[o].st = "live"
    BY <1>2 DEF OrderLapses, Live
  <2>2. ord' \in [Id -> OrderType] /\ \A p \in Id : ord'[p].st = "none" <=> ord[p].st = "none"
    BY <2>1, OrderDies DEF StopTypeOK, VenueTyped, OrderType
  <2> QED
    BY <1>2, <2>2, SweepKept
    DEF OrderLapses, row, memory, commands, StopTypeOK, VenueTyped, RowTyped, EngineTyped, FlagsTyped
<1>3. ASSUME NEW k \in 1..Held, Reduced(k) PROVE StopTypeOK'
  <2>1. vPerp' \in Nat
    BY <1>3, StopConstants DEF Reduced, StopTypeOK, VenueTyped
  <2> QED
    BY <1>3, <2>1, SweepKept
    DEF Reduced, row, memory, commands, StopTypeOK, VenueTyped, RowTyped, EngineTyped, FlagsTyped
<1>4. ASSUME RefreshRisk PROVE StopTypeOK'
  <2>1. risk' \in [perp : Int, later : BOOLEAN]
    BY <1>4 DEF RefreshRisk, StopTypeOK, VenueTyped
  <2> QED
    BY <1>4, <2>1, SweepKept
    DEF RefreshRisk, row, memory, commands, StopTypeOK, VenueTyped, RowTyped, EngineTyped, FlagsTyped
<1> QED
  BY <1>1, <1>2, <1>3, <1>4 DEF VenueMoves, VenueTidies

LEMMA FinishTypes ==
    ASSUME StopTypeOK, NEW f, Finish(f), dbPerp' = dbPerp, dbSpot' = dbSpot,
           UNCHANGED <<hedgeBreak, spotDeficit, spotClose>>
    PROVE  RowTyped' /\ FlagsTyped'
<1>1. RowTyped'
  BY DEF Finish, StopTypeOK, RowTyped
<1> QED
  BY <1>1, Zenon DEF Finish, StopTypeOK, FlagsTyped

LEMMA TaskTypes ==
    ASSUME StopTypeOK, TaskWorks
    PROVE  StopTypeOK'
<1>1. ASSUME NEW k \in 1..(Held + MaxOps), TaskBuys(k) PROVE StopTypeOK'
  <2>1. k \in Nat /\ dbPerp \in Int /\ task.floor \in Int /\ vPerp \in Nat
    <3>1. k \in Nat
      BY StopConstants, StopAssumption
    <3>2. task.floor \in Int
      BY DEF StopTypeOK, EngineTyped, TaskType
    <3>3. vPerp \in Nat
      BY DEF StopTypeOK, VenueTyped
    <3>4. dbPerp \in Int
      BY DEF StopTypeOK, RowTyped
    <3> QED
      BY <3>1, <3>2, <3>3, <3>4
  <2>2. k <= vPerp
    <3>1. Min({dbPerp - task.floor, vPerp}) <= vPerp
          /\ Min({dbPerp - task.floor, vPerp}) \in Int
      <4>1. dbPerp - task.floor \in Int /\ vPerp \in Int
        BY <2>1
      <4> QED
        BY <4>1, SmallerOf
    <3> QED
      BY <1>1, <2>1, <3>1 DEF TaskBuys
  <2>3. vPerp' \in Nat /\ dbPerp' \in Int
    BY <1>1, <2>1, <2>2 DEF TaskBuys
  <2> QED
    BY <1>1, <2>3, SweepKept
    DEF TaskBuys, memory, commands, StopTypeOK, VenueTyped, RowTyped, EngineTyped, FlagsTyped
<1>2. ASSUME NEW k \in 1..(Held + MaxOps), TaskSells(k) PROVE StopTypeOK'
  <2>1. vSpot' \in Int /\ dbSpot' \in Int
    BY <1>2, StopConstants, StopAssumption DEF TaskSells, StopTypeOK, RowTyped, VenueTyped
  <2> QED
    BY <1>2, <2>1, SweepKept
    DEF TaskSells, memory, commands, StopTypeOK, VenueTyped, RowTyped, EngineTyped, FlagsTyped
<1>3. ASSUME TaskEnds PROVE StopTypeOK'
  <2>1. RowTyped' /\ FlagsTyped'
    BY <1>3, FinishTypes DEF TaskEnds, memory
  <2>2. NoTask \in TaskType
    BY DEF NoTask, TaskType
  <2> QED
    BY <1>3, <2>1, <2>2, SweepKept
    DEF TaskEnds, world, memory, commands, StopTypeOK, VenueTyped, EngineTyped
<1>4. ASSUME AddEnds PROVE StopTypeOK'
  <2>1. vPerp' \in Nat /\ vSpot' \in Int /\ dbPerp' \in Int /\ dbSpot' \in Int /\ risk' = risk
    BY <1>4 DEF AddEnds, StopTypeOK, VenueTyped, RowTyped
  <2>2. NoTask \in TaskType
    BY DEF NoTask, TaskType
  <2> QED
    BY <1>4, <2>1, <2>2, SweepKept
    DEF AddEnds, memory, commands, StopTypeOK, VenueTyped, RowTyped, EngineTyped, FlagsTyped
<1> QED
  BY <1>1, <1>2, <1>3, <1>4 DEF TaskWorks, TaskTrades

\* Steps of the sweep that place no order and do not hold the lock.
LEMMA SweepGoesOn ==
    ASSUME StopTypeOK, UNCHANGED <<lock, op, renew>>, sw.pc \notin {"clear", "armperp", "armspot"},
           sw'.pc \notin {"clear", "armperp", "armspot"}
    PROVE  LockHeld' /\ Roomy'
  BY DEF StopTypeOK, LockHeld, Roomy

\* ... and write only the frame.
LEMMA OnlyTheFrame ==
    ASSUME StopTypeOK, UNCHANGED <<world, row, saved, memory, task, lock, op, commands, warned>>,
           sw' \in SweepType, sw.pc \notin {"clear", "armperp", "armspot"},
           sw'.pc \notin {"clear", "armperp", "armspot"}
    PROVE  StopTypeOK'
  BY SweepGoesOn
  DEF world, row, memory, commands, StopTypeOK, VenueTyped, RowTyped, EngineTyped, FlagsTyped

\* What an order of ours has sold or bought is a number.
LEMMA ExecutedIsNat ==
    ASSUME StopTypeOK, NEW o \in Id \cup {0}
    PROVE  Executed(o) \in Nat
  BY DEF Executed, StopTypeOK, VenueTyped, OrderType

LEMMA FrameInt ==
    ASSUME StopTypeOK
    PROVE  /\ sw.perp \in Int /\ sw.spot \in Int /\ sw.venue \in Int /\ sw.booked \in Int
           /\ sw.a \in Id \cup {0} /\ sw.m \in Id \cup {0} /\ sw \in SweepType
           /\ Executed(sw.m) \in Nat /\ Executed(known.m) \in Nat /\ Executed(known.a) \in Nat
           /\ known.a \in Id \cup {0} /\ known.m \in Id \cup {0}
<1>1. /\ sw.perp \in Int /\ sw.spot \in Int /\ sw.venue \in Int /\ sw.booked \in Int
      /\ sw.a \in Id \cup {0} /\ sw.m \in Id \cup {0} /\ sw \in SweepType
  BY DEF StopTypeOK, EngineTyped, SweepType
<1>2. known.a \in Id \cup {0} /\ known.m \in Id \cup {0}
  BY DEF StopTypeOK, EngineTyped, StopsType
<1> QED
  BY <1>1, <1>2, ExecutedIsNat

LEMMA SpotStopTypes ==
    ASSUME StopTypeOK, SweepBegins \/ SpotStopStep
    PROVE  StopTypeOK'
<1>1. ASSUME SweepBegins PROVE StopTypeOK'
  <2> DEFINE pc == IF grace = NoGrace THEN "stop" ELSE "grace"
             open == state = "OPEN"
  <2>1. sw' = [Asleep EXCEPT !.pc = pc, !.perp = dbPerp, !.spot = dbSpot, !.open = open,
                            !.m = grace.m, !.booked = grace.booked, !.venue = grace.floor]
    BY <1>1 DEF SweepBegins, Sweep
  <2>2. pc \in {"stop", "grace"} /\ open \in BOOLEAN
    OBVIOUS
  <2>3. /\ grace.m \in Id \cup {0} /\ grace.booked \in Int /\ grace.floor \in Int
        /\ dbPerp \in Int /\ dbSpot \in Int
    BY DEF StopTypeOK, EngineTyped, GraceType, RowTyped
  <2>4. Asleep \in SweepType
    BY DEF Asleep, SweepType, SweepPlace
  <2> HIDE DEF pc, open
  <2>5. sw' \in SweepType /\ sw'.pc \in {"stop", "grace"}
    BY <2>1, <2>2, <2>3, <2>4 DEF SweepType, SweepPlace
  <2>6. sw.pc = "idle" /\ UNCHANGED <<world, row, saved, memory, task, lock, op, commands, warned>>
    BY <1>1 DEF SweepBegins
  <2> QED
    BY <2>5, <2>6, OnlyTheFrame
<1>2. ASSUME NoPoll PROVE StopTypeOK'
  <2>1. CASE sw.open /\ sw.perp > 0 /\ spotClose
    <3>1. sw' \in SweepType /\ sw'.pc = "guard"
      BY <1>2, <2>1, FrameInt DEF NoPoll, Sweep, SweepType, SweepPlace
    <3> QED
      BY <1>2, <3>1, OnlyTheFrame DEF NoPoll
  <2>2. CASE ~(sw.open /\ sw.perp > 0 /\ spotClose)
    <3>1. sw' \in SweepType /\ sw'.pc = "balance"
      BY <1>2, <2>2, FrameInt, FrameGoes DEF NoPoll, SweepPlace
    <3> QED
      BY <1>2, <3>1, OnlyTheFrame DEF NoPoll
  <2> QED
    BY <2>1, <2>2
<1>3. ASSUME PollSpotStop PROVE StopTypeOK'
  <2>1. CASE ord[known.m].st = "filled"
    <3>1. sw' = [sw EXCEPT !.pc = "perp", !.a = known.a, !.m = known.m]
      BY <1>3, <2>1 DEF PollSpotStop, Sweep
    <3>2. sw' \in SweepType /\ sw'.pc = "perp"
      BY <3>1, FrameInt DEF SweepType, SweepPlace
    <3> QED
      BY <1>3, <3>2, OnlyTheFrame DEF PollSpotStop
  <2>2. CASE ~(ord[known.m].st = "filled")
    <3>1. sw' \in SweepType /\ sw'.pc = "balance"
      BY <1>3, <2>2, FrameInt, FrameGoes DEF PollSpotStop, SweepPlace
    <3> QED
      BY <1>3, <3>1, OnlyTheFrame DEF PollSpotStop
  <2> QED
    BY <2>1, <2>2
<1>4. ASSUME PollPerpStop PROVE StopTypeOK'
  <2>1. PICK pc \in {"sold", "balance", "disarm"} : Goes(pc)
    BY <1>4 DEF PollPerpStop
  <2>2. sw' \in SweepType /\ sw'.pc = pc
    BY <2>1, FrameInt, FrameGoes DEF SweepPlace
  <2> QED
    BY <1>4, <2>2, OnlyTheFrame DEF PollPerpStop
<1>5. ASSUME Disarm PROVE StopTypeOK'
  <2>1. PICK pc \in {"sold", "balance"} : Goes(pc)
    BY <1>5 DEF Disarm
  <2>2. sw' \in SweepType /\ sw'.pc = pc
    BY <2>1, FrameInt, FrameGoes DEF SweepPlace
  <2>3. ord' \in [Id -> OrderType]
    <3>1. CASE Live(sw.a) /\ ord' = [ord EXCEPT ![sw.a].st = "dead"]
      BY <3>1, OrderDies DEF Live, StopTypeOK, VenueTyped
    <3> QED
      BY <1>5, <3>1 DEF Disarm, StopTypeOK, VenueTyped
  <2> QED
    BY <1>5, <2>2, <2>3, SweepGoesOn
    DEF Disarm, row, memory, commands, StopTypeOK, VenueTyped, RowTyped, EngineTyped, FlagsTyped
<1>6. ASSUME BookSpotStop PROVE StopTypeOK'
  <2>1. PICK pc \in {"buyback", "balance"} : Goes(pc)
    BY <1>6 DEF BookSpotStop
  <2>2. sw' \in SweepType /\ sw'.pc = pc
    BY <2>1, FrameInt, FrameGoes DEF SweepPlace
  <2>3. dbSpot' \in Int
    <3>1. Min({Executed(sw.m), sw.spot}) \in Int
      <4>1. Executed(sw.m) \in Int /\ sw.spot \in Int
        BY FrameInt
      <4> QED
        BY <4>1, SmallerOf
    <3> QED
      BY <1>6, <3>1 DEF BookSpotStop, StopTypeOK, RowTyped
  <2> QED
    BY <1>6, <2>2, <2>3, SweepGoesOn
    DEF BookSpotStop, world, memory, commands, StopTypeOK, VenueTyped, RowTyped, EngineTyped,
        FlagsTyped
<1>7. ASSUME BuyBack PROVE StopTypeOK'
  <2> DEFINE q == Min({sw.perp, Executed(sw.m)})
  <2>1. q \in Int
    <3>1. Executed(sw.m) \in Int /\ sw.perp \in Int
      BY FrameInt
    <3> QED
      BY <3>1, SmallerOf
  <2>2. sw' \in SweepType /\ sw'.pc = "guard"
    BY <1>7, FrameInt DEF BuyBack, Sweep, SweepType, SweepPlace
  <2>3. ord' \in [Id -> OrderType]
    <3>1. CASE ord' = Placing("perp", q)
      BY <2>1, <3>1, PlacedOne DEF StopTypeOK, VenueTyped
    <3> QED
      BY <1>7, <3>1 DEF BuyBack, StopTypeOK, VenueTyped
  <2>4. known' \in StopsType /\ saved' = known'
    <3>1. CASE UNCHANGED <<known, saved>>
      BY <3>1 DEF StopTypeOK, EngineTyped
    <3>2. CASE /\ Placed < MaxStops
               /\ known' = [known EXCEPT !.a = Placed + 1, !.m = 0]
               /\ saved' = [a |-> Placed + 1, m |-> 0]
      <4>1. Placed + 1 \in Id
        BY <3>2, PlacedCounts, StopConstants DEF Id
      <4> QED
        BY <3>2, <4>1 DEF StopTypeOK, EngineTyped, StopsType
    <3> QED
      BY <1>7, <3>1, <3>2 DEF BuyBack
  <2>5. FlagsTyped'
    BY <1>7, Zenon DEF BuyBack, row, StopTypeOK, FlagsTyped
  <2> QED
    BY <1>7, <2>2, <2>3, <2>4, <2>5, SweepGoesOn
    DEF BuyBack, row, commands, StopTypeOK, VenueTyped, RowTyped, EngineTyped
<1> QED
  BY <1>1, <1>2, <1>3, <1>4, <1>5, <1>6, <1>7 DEF SpotStopStep

LEMMA GuardTypes ==
    ASSUME StopTypeOK, NoBalance \/ CheckBalance \/ GuardStep
    PROVE  StopTypeOK'
<1>1. ASSUME NoBalance PROVE StopTypeOK'
  <2>1. PICK pc \in {"guard", "idle"} : Goes(pc)
    BY <1>1 DEF NoBalance
  <2>2. sw' \in SweepType /\ sw'.pc = pc
    BY <2>1, FrameInt, FrameGoes DEF SweepPlace
  <2> QED
    BY <1>1, <2>2, OnlyTheFrame DEF NoBalance
<1>2. ASSUME CheckBalance PROVE StopTypeOK'
  <2>1. PICK pc \in {"guard", "idle"} : Goes(pc)
    BY <1>2 DEF CheckBalance
  <2>2. sw' \in SweepType /\ sw'.pc = pc
    BY <2>1, FrameInt, FrameGoes DEF SweepPlace
  <2>3. dbSpot' \in Int
    BY <1>2, FrameInt DEF CheckBalance, StopTypeOK, VenueTyped, RowTyped
  <2>4. FlagsTyped'
    BY <1>2, Zenon DEF CheckBalance, StopTypeOK, FlagsTyped
  <2> QED
    BY <1>2, <2>2, <2>3, <2>4, SweepGoesOn
    DEF CheckBalance, world, commands, StopTypeOK, VenueTyped, RowTyped, EngineTyped
<1>3. ASSUME GuardPasses PROVE StopTypeOK'
  <2>1. FlagsTyped'
    BY <1>3, Zenon DEF GuardPasses, row, StopTypeOK, FlagsTyped
  <2> QED
    BY <1>3, <2>1, FramePassesGuard, SweepGoesOn
    DEF GuardPasses, world, row, commands, StopTypeOK, VenueTyped, RowTyped, EngineTyped
<1>4. ASSUME GuardStarts PROVE StopTypeOK'
  <2>1. risk' \in [perp : Int, later : BOOLEAN]
    BY <1>4 DEF GuardStarts, StopTypeOK, VenueTyped
  <2> QED
    BY <1>4, <2>1, FrameRests, SweepGoesOn
    DEF GuardStarts, DeficitSeen, row, commands, StopTypeOK, VenueTyped, RowTyped, EngineTyped,
        FlagsTyped
<1>5. ASSUME GuardWaits PROVE StopTypeOK'
  BY <1>5, FrameRests, OnlyTheFrame DEF GuardWaits, DeficitSeen
<1>6. ASSUME GuardActs PROVE StopTypeOK'
  <2>1. PICK m \in Id \cup {0} :
           sw' = [sw EXCEPT !.pc = "which", !.a = known.a, !.m = m, !.venue = risk.perp]
    BY <1>6, FrameInt DEF GuardActs, Found, LiveOn, Sweep
  <2>2. risk.perp \in Int
    BY DEF StopTypeOK, VenueTyped
  <2>3. sw' \in SweepType /\ sw'.pc = "which"
    BY <2>1, <2>2, FrameInt DEF SweepType, SweepPlace
  <2> QED
    BY <1>6, <2>3, SweepGoesOn
    DEF GuardActs, Confirmed, DeficitSeen, world, row, commands, StopTypeOK, VenueTyped, RowTyped,
        EngineTyped, FlagsTyped
<1>7. ASSUME BookPerp PROVE StopTypeOK'
  <2>1. sw' \in SweepType /\ sw'.pc \in {"idle", "twin"} /\ dbPerp' \in Int
    <3>1. CASE Rest /\ UNCHANGED dbPerp
      BY <3>1, FrameRests DEF StopTypeOK, RowTyped
    <3>2. CASE Goes("twin") /\ dbPerp' = dbPerp - (sw.perp - sw.venue)
      BY <3>2, FrameInt, FrameGoes DEF SweepPlace, StopTypeOK, RowTyped
    <3> QED
      BY <1>7, <3>1, <3>2 DEF BookPerp
  <2>2. FlagsTyped'
    BY <1>7, Zenon DEF BookPerp, StopTypeOK, FlagsTyped
  <2> QED
    BY <1>7, <2>1, <2>2, SweepGoesOn
    DEF BookPerp, world, commands, StopTypeOK, VenueTyped, RowTyped, EngineTyped
<1>8. ASSUME BookTwin PROVE StopTypeOK'
  <2>1. sw' \in SweepType /\ sw'.pc \in {"idle", "finish", "free"}
        /\ state' \in {state, "EXITING"}
        /\ grace' \in {grace, [m |-> sw.m, booked |-> Executed(sw.m), floor |-> sw.venue]}
    <3>1. CASE Rest
      BY <1>8, <3>1, FrameRests DEF BookTwin
    <3>2. CASE Goes("finish") \/ Goes("free")
      BY <1>8, <3>2, FrameInt, FrameGoes DEF BookTwin, SweepPlace
    <3> QED
      BY <1>8, <3>1, <3>2 DEF BookTwin
  <2>2. grace' \in GraceType
    BY <2>1, FrameInt DEF GraceType, StopTypeOK, EngineTyped
  <2>3. dbSpot' \in Int /\ floorReq' \in Int /\ NoStops \in StopsType
    BY <1>8, FrameInt DEF BookTwin, StopTypeOK, RowTyped, NoStops, StopsType
  <2>4. FlagsTyped'
    BY <1>8, Zenon DEF BookTwin, StopTypeOK, FlagsTyped
  <2> QED
    BY <1>8, <2>1, <2>2, <2>3, <2>4, SweepGoesOn
    DEF BookTwin, world, commands, StopTypeOK, VenueTyped, RowTyped, EngineTyped
<1>9. ASSUME GuardFinishes PROVE StopTypeOK'
  <2>1. RowTyped' /\ FlagsTyped'
    BY <1>9, FinishTypes DEF GuardFinishes, memory
  <2> QED
    BY <1>9, <2>1, FrameRests, SweepGoesOn
    DEF GuardFinishes, world, memory, commands, StopTypeOK, VenueTyped, EngineTyped
<1>10. ASSUME FreeTheSpot PROVE StopTypeOK'
  <2>1. sw' \in SweepType /\ sw'.pc = "selldown"
    BY <1>10, FrameInt, FrameGoes DEF FreeTheSpot, SweepPlace
  <2>2. ord' \in [Id -> OrderType]
    <3>1. ord' = AllCancelled \/ ord' = ord
      BY <1>10 DEF FreeTheSpot
    <3> QED
      BY <3>1, CancelledAll DEF StopTypeOK, VenueTyped
  <2>3. NoStops \in StopsType /\ NoGrace \in GraceType
    BY DEF NoStops, NoGrace, StopsType, GraceType
  <2>4. FlagsTyped'
    BY <1>10, Zenon DEF FreeTheSpot, row, StopTypeOK, FlagsTyped
  <2> QED
    BY <1>10, <2>1, <2>2, <2>3, <2>4, SweepGoesOn
    DEF FreeTheSpot, row, commands, StopTypeOK, VenueTyped, RowTyped, EngineTyped
<1>11. ASSUME StartSellDown PROVE StopTypeOK'
  <2>1. task' \in TaskType
    BY <1>11, FrameInt DEF StartSellDown, TaskType
  <2> QED
    BY <1>11, <2>1, FrameRests, SweepGoesOn
    DEF StartSellDown, world, memory, commands, StopTypeOK, VenueTyped, RowTyped, EngineTyped,
        FlagsTyped
<1> QED
  BY <1>1, <1>2, <1>3, <1>4, <1>5, <1>6, <1>7, <1>8, <1>9, <1>10, <1>11 DEF GuardStep

LEMMA GraceTypes ==
    ASSUME StopTypeOK, GraceStep
    PROVE  StopTypeOK'
<1>1. ASSUME NEW over \in BOOLEAN, GraceLooks(over) PROVE StopTypeOK'
  <2>1. /\ sw' \in SweepType /\ sw'.pc \in {"idle", "finish", "lapse", "selldown"}
        /\ grace' \in {grace, NoGrace, [grace EXCEPT !.booked = Executed(sw.m)]}
    <3>1. CASE Rest
      BY <1>1, <3>1, FrameRests, Zenon DEF GraceLooks
    <3>2. ASSUME NEW pc \in {"finish", "lapse", "selldown"}, Goes(pc)
          PROVE  sw' \in SweepType /\ sw'.pc \in {"idle", "finish", "lapse", "selldown"}
      BY <3>2, FrameInt, FrameGoes DEF SweepPlace
    <3>3. Rest \/ \E pc \in {"finish", "lapse", "selldown"} : Goes(pc)
      BY <1>1, Zenon DEF GraceLooks
    <3>4. grace' \in {grace, NoGrace, [grace EXCEPT !.booked = Executed(sw.m)]}
      BY <1>1, Zenon DEF GraceLooks
    <3> QED
      BY <3>1, <3>2, <3>3, <3>4
  <2>2. grace' \in GraceType
    BY <2>1, FrameInt DEF GraceType, StopTypeOK, EngineTyped, NoGrace
  <2>3. dbSpot' \in Int
    BY <1>1, FrameInt DEF GraceLooks, StopTypeOK, RowTyped
  <2> QED
    BY <1>1, <2>1, <2>2, <2>3, SweepGoesOn
    DEF GraceLooks, world, commands, StopTypeOK, VenueTyped, RowTyped, EngineTyped, FlagsTyped
<1>2. ASSUME GraceLookupFails PROVE StopTypeOK'
  BY <1>2, FrameRests, OnlyTheFrame DEF GraceLookupFails
<1>3. ASSUME GraceLapses PROVE StopTypeOK'
  <2>1. sw' \in SweepType /\ sw'.pc = "selldown"
    BY <1>3, FrameInt, FrameGoes DEF GraceLapses, SweepPlace
  <2>2. ord' \in [Id -> OrderType]
    <3>1. CASE Live(sw.m) /\ ord' = [ord EXCEPT ![sw.m].st = "dead"]
      BY <3>1, OrderDies DEF Live, StopTypeOK, VenueTyped
    <3> QED
      BY <1>3, <3>1 DEF GraceLapses, StopTypeOK, VenueTyped
  <2> QED
    BY <1>3, <2>1, <2>2, SweepGoesOn
    DEF GraceLapses, row, memory, commands, StopTypeOK, VenueTyped, RowTyped, EngineTyped,
        FlagsTyped
<1> QED
  BY <1>1, <1>2, <1>3 DEF GraceStep

LEMMA EnsureTypes ==
    ASSUME StopTypeOK, EnsureStep
    PROVE  StopTypeOK'
<1>1. ASSUME NoStopsNow PROVE StopTypeOK'
  BY <1>1, FrameRests, OnlyTheFrame DEF NoStopsNow
<1>2. ASSUME EnsureStops PROVE StopTypeOK'
  <2>1. sw' = [sw EXCEPT !.pc = "clear", !.perp = dbPerp, !.spot = dbSpot]
    BY <1>2 DEF EnsureStops, Sweep
  <2>2. sw' \in SweepType /\ sw'.pc = "clear"
    BY <2>1, FrameInt DEF SweepType, SweepPlace, StopTypeOK, RowTyped
  <2>3. Placed' = Placed /\ Placed \in Nat /\ MaxStops \in Nat
    BY <1>2, PlacedCounts, PlacedStays, StopConstants DEF EnsureStops, world
  <2>4. LockHeld' /\ Roomy'
    BY <1>2, <2>2, <2>3 DEF EnsureStops, commands, StopTypeOK, LockHeld, Roomy, SlotsLeft
  <2> QED
    BY <1>2, <2>2, <2>4
    DEF EnsureStops, world, row, memory, commands, StopTypeOK, VenueTyped, RowTyped, EngineTyped,
        FlagsTyped
<1>3. ASSUME ClearStops PROVE StopTypeOK'
  <2>1. sw' \in SweepType /\ sw'.pc = "armperp"
    BY <1>3, FrameInt, FrameGoes DEF ClearStops, SweepPlace
  <2>2. ord' \in [Id -> OrderType] /\ \A o \in Id : ord'[o].st = "none" <=> ord[o].st = "none"
    <3>1. ord' = AllCancelled \/ ord' = ord
      BY <1>3 DEF ClearStops
    <3> QED
      BY <3>1, CancelledAll DEF StopTypeOK, VenueTyped
  <2>3. LockHeld' /\ Roomy'
    BY <1>3, <2>1, <2>2, PlacedStays
    DEF ClearStops, commands, StopTypeOK, LockHeld, Roomy, SlotsLeft
  <2> QED
    BY <1>3, <2>1, <2>2, <2>3
    DEF ClearStops, row, memory, commands, StopTypeOK, VenueTyped, RowTyped, EngineTyped,
        FlagsTyped
<1>4. ASSUME ArmPerp PROVE StopTypeOK'
  <2>1. Placed + 2 <= MaxStops /\ Placed \in Nat /\ MaxStops \in Nat
    BY <1>4, PlacedCounts, StopConstants DEF ArmPerp, StopTypeOK, Roomy, SlotsLeft
  <2>2. PICK a \in {0, Placed + 1} : sw' = [sw EXCEPT !.pc = "armspot", !.a = a]
    BY <1>4 DEF ArmPerp, Sweep
  <2>3. a \in Id \cup {0}
    BY <2>1 DEF Id
  <2>4. sw' \in SweepType /\ sw'.pc = "armspot"
    BY <2>2, <2>3, FrameInt DEF SweepType, SweepPlace
  <2>5. ord' = ord \/ ord' = Placing("perp", sw.perp)
    BY <1>4 DEF ArmPerp
  <2>6. ord' \in [Id -> OrderType] /\ Placed' <= Placed + 1 /\ Placed' \in Nat
    <3>1. CASE ord' = ord
      BY <2>1, <3>1, PlacedStays DEF StopTypeOK, VenueTyped
    <3>2. CASE ord' = Placing("perp", sw.perp)
      BY <2>1, <3>2, FrameInt, PlacedOne, PlacedGrows
      DEF StopTypeOK, VenueTyped
    <3> QED
      BY <2>5, <3>1, <3>2
  <2>7. LockHeld' /\ Roomy'
    BY <1>4, <2>1, <2>4, <2>6 DEF ArmPerp, commands, StopTypeOK, LockHeld, Roomy, SlotsLeft
  <2> QED
    BY <1>4, <2>4, <2>6, <2>7
    DEF ArmPerp, row, memory, commands, StopTypeOK, VenueTyped, RowTyped, EngineTyped, FlagsTyped
<1>5. ASSUME ArmSpot PROVE StopTypeOK'
  <2>1. Placed + 1 <= MaxStops /\ Placed \in Nat /\ MaxStops \in Nat
    BY <1>5, PlacedCounts, StopConstants DEF ArmSpot, StopTypeOK, Roomy, SlotsLeft
  <2>2. PICK m \in {0, Placed + 1} : known' = [a |-> sw.a, m |-> m]
    BY <1>5 DEF ArmSpot
  <2>3. known' \in StopsType /\ saved' = known'
    BY <1>5, <2>1, <2>2, FrameInt DEF ArmSpot, StopsType, Id
  <2>4. ord' = ord \/ ord' = Placing("spot", sw.spot)
    BY <1>5 DEF ArmSpot
  <2>5. ord' \in [Id -> OrderType]
    BY <2>4, FrameInt, PlacedOne DEF StopTypeOK, VenueTyped
  <2>6. sw' \in SweepType /\ sw'.pc = "idle" /\ LockHeld' /\ Roomy'
    BY <1>5, FrameRests DEF ArmSpot, commands, StopTypeOK, LockHeld, Roomy
  <2> QED
    BY <1>5, <2>3, <2>5, <2>6
    DEF ArmSpot, row, commands, StopTypeOK, VenueTyped, RowTyped, EngineTyped, FlagsTyped
<1> QED
  BY <1>1, <1>2, <1>3, <1>4, <1>5 DEF EnsureStep

LEMMA RenewTypes ==
    ASSUME StopTypeOK, AskStops \/ RenewGoesOn
    PROVE  StopTypeOK'
<1>0. /\ renew \in RenewType /\ renew.perp \in Int /\ renew.spot \in Int /\ renew.a \in Id \cup {0}
      /\ NoRenew \in RenewType /\ NoRenew.pc = "none"
      /\ Placed \in Nat /\ MaxStops \in Nat /\ ord \in [Id -> OrderType]
      /\ dbPerp \in Int /\ dbSpot \in Int
  BY PlacedCounts, StopConstants
  DEF StopTypeOK, EngineTyped, VenueTyped, RowTyped, RenewType, NoRenew
<1>1. ASSUME AskStops PROVE StopTypeOK'
  <2>1. renew' \in RenewType /\ renew'.pc = "wait" /\ renew.pc = "none"
    BY <1>0, <1>1 DEF AskStops, RenewType
  <2>2. LockHeld' /\ Roomy'
    BY <1>1, <2>1, PlacedStays DEF AskStops, world, StopTypeOK, LockHeld, Roomy, SlotsLeft
  <2> QED
    BY <1>1, <2>1, <2>2
    DEF AskStops, world, row, memory, StopTypeOK, VenueTyped, RowTyped, EngineTyped, FlagsTyped
<1>2. ASSUME RenewClears PROVE StopTypeOK'
  <2>1. ord' \in [Id -> OrderType] /\ \A o \in Id : ord'[o].st = "none" <=> ord[o].st = "none"
    <3>1. ord' = AllCancelled \/ ord' = ord
      BY <1>2 DEF RenewClears
    <3> QED
      BY <1>0, <3>1, CancelledAll
  <2>2. renew' \in RenewType /\ renew'.pc = "perp" /\ lock = "none" /\ lock' = "renew"
    BY <1>0, <1>2 DEF RenewClears, RenewType
  <2>3. LockHeld' /\ Roomy'
    BY <1>2, <2>1, <2>2, PlacedStays DEF RenewClears, StopTypeOK, LockHeld, Roomy, SlotsLeft
  <2> QED
    BY <1>2, <2>1, <2>2, <2>3
    DEF RenewClears, row, memory, StopTypeOK, VenueTyped, RowTyped, EngineTyped, FlagsTyped
<1>3. ASSUME RenewPerp PROVE StopTypeOK'
  <2>1. /\ ord' = ord \/ ord' = Placing("perp", renew.perp)
        /\ sw.pc \notin {"clear", "armperp", "armspot"}
    BY <1>3 DEF RenewPerp, StopTypeOK, LockHeld
  <2>2. ord' \in [Id -> OrderType]
    BY <1>0, <2>1, PlacedOne
  <2>4. renew' \in RenewType /\ renew'.pc = "spot" /\ renew.pc = "perp"
    <3>1. CASE Placed < MaxStops /\ renew' = [renew EXCEPT !.pc = "spot", !.a = Placed + 1]
      <4>1. Placed + 1 \in Id
        BY <1>0, <3>1 DEF Id
      <4> QED
        BY <1>0, <1>3, <3>1, <4>1 DEF RenewPerp, RenewType
    <3>2. CASE renew' = [renew EXCEPT !.pc = "spot"]
      BY <1>0, <1>3, <3>2 DEF RenewPerp, RenewType
    <3> QED
      BY <1>3, <3>1, <3>2, Zenon DEF RenewPerp
  <2>5. LockHeld' /\ Roomy'
    BY <1>3, <2>1, <2>4 DEF RenewPerp, StopTypeOK, LockHeld, Roomy
  <2> QED
    BY <1>3, <2>2, <2>4, <2>5
    DEF RenewPerp, row, memory, StopTypeOK, VenueTyped, RowTyped, EngineTyped, FlagsTyped
<1>4. ASSUME RenewSpot PROVE StopTypeOK'
  <2>1. PICK ok \in {FALSE} \cup {Placed < MaxStops /\ renew.spot <= FreeSpot} :
           /\ ord' = IF ok THEN Placing("spot", renew.spot) ELSE ord
           /\ known' = [a |-> renew.a, m |-> IF ok THEN Placed + 1 ELSE 0]
    BY <1>4 DEF RenewSpot
  <2>2. known' \in StopsType /\ saved' = known'
    <3>1. CASE ok
      <4>1. Placed < MaxStops
        BY <2>1, <3>1
      <4>2. Placed + 1 \in Id
        BY <1>0, <4>1 DEF Id
      <4> QED
        BY <1>0, <1>4, <2>1, <3>1, <4>2 DEF RenewSpot, StopsType
    <3>2. CASE ~ok
      BY <1>0, <1>4, <2>1, <3>2 DEF RenewSpot, StopsType
    <3> QED
      BY <3>1, <3>2
  <2>3. ord' = ord \/ ord' = Placing("spot", renew.spot)
    BY <2>1
  <2>4. ord' \in [Id -> OrderType]
    BY <1>0, <2>3, PlacedOne
  <2>5. /\ lock = "renew" /\ lock' = "none" /\ renew' = NoRenew
        /\ sw.pc \notin {"clear", "armperp", "armspot"} /\ UNCHANGED <<sw, op>>
    BY <1>4 DEF RenewSpot, StopTypeOK, LockHeld
  <2>6. LockHeld' /\ Roomy'
    BY <1>0, <2>5 DEF StopTypeOK, LockHeld, Roomy
  <2> QED
    BY <1>0, <1>4, <2>2, <2>4, <2>5, <2>6
    DEF RenewSpot, row, StopTypeOK, VenueTyped, RowTyped, EngineTyped, FlagsTyped
<1> QED
  BY <1>1, <1>2, <1>3, <1>4 DEF RenewGoesOn

LEMMA CommandTypes ==
    ASSUME StopTypeOK, CommandGoesOn \/ Command \/ RenewGoesOn \/ Restart
    PROVE  StopTypeOK'
<1>0. NoStops \in StopsType /\ NoGrace \in GraceType /\ NoTask \in TaskType
      /\ NoRenew \in RenewType /\ NoRenew.pc = "none"
  BY DEF NoStops, NoGrace, NoTask, NoRenew, StopsType, GraceType, TaskType, RenewType
<1>1. ASSUME NEW f \in ExitFloors, AskClose(f) PROVE StopTypeOK'
  <2>1. LockHeld' /\ Roomy'
    BY <1>1, PlacedStays
    DEF AskClose, world, StopTypeOK, LockHeld, Roomy, SlotsLeft
  <2> QED
    BY <1>1, <2>1, StopConstants
    DEF AskClose, world, memory, commands, StopTypeOK, VenueTyped, RowTyped, EngineTyped, FlagsTyped
<1>2. ASSUME CancelStops PROVE StopTypeOK'
  <2>1. ord' \in [Id -> OrderType] /\ \A o \in Id : ord'[o].st = "none" <=> ord[o].st = "none"
    <3>1. ord' = AllCancelled \/ ord' = ord
      BY <1>2 DEF CancelStops
    <3> QED
      BY <3>1, CancelledAll DEF StopTypeOK, VenueTyped
  <2>2. LockHeld' /\ Roomy'
    BY <1>2, <2>1, PlacedStays DEF CancelStops, commands, StopTypeOK, LockHeld, Roomy, SlotsLeft
  <2> QED
    BY <1>0, <1>2, <2>1, <2>2
    DEF CancelStops, row, commands, StopTypeOK, VenueTyped, RowTyped, EngineTyped, FlagsTyped
<1>3. ASSUME StartClose PROVE StopTypeOK'
  <2>1. LockHeld' /\ Roomy'
    BY <1>3, PlacedStays
    DEF StartClose, world, commands, StopTypeOK, LockHeld, Roomy, SlotsLeft
  <2>2. task' \in TaskType
    BY <1>3 DEF StartClose, TaskType, StopTypeOK, RowTyped
  <2> QED
    BY <1>0, <1>3, <2>1, <2>2
    DEF StartClose, world, commands, StopTypeOK, VenueTyped, RowTyped, EngineTyped, FlagsTyped
<1>4. ASSUME StandDown PROVE StopTypeOK'
  <2>1. LockHeld' /\ Roomy'
    BY <1>4, SweepKept DEF StandDown, world
  <2>2. FlagsTyped'
    BY <1>4, Zenon DEF StandDown, memory, StopTypeOK, FlagsTyped
  <2> QED
    BY <1>0, <1>4, <2>1, <2>2
    DEF StandDown, world, memory, commands, StopTypeOK, VenueTyped, RowTyped, EngineTyped
<1>5. ASSUME AskAdd PROVE StopTypeOK'
  <2>1. [kind |-> "add", floor |-> 0] \in TaskType
    BY DEF TaskType
  <2> QED
    BY <1>5, <2>1, SweepKept
    DEF AskAdd, world, row, memory, commands, StopTypeOK, VenueTyped, RowTyped, EngineTyped,
        FlagsTyped
<1>6. ASSUME Restart PROVE StopTypeOK'
  <2>1. sw' \in SweepType /\ sw'.pc = "idle"
    BY <1>6, FrameRests DEF Restart
  <2>2. LockHeld' /\ Roomy'
    BY <1>0, <1>6, <2>1 DEF Restart, LockHeld, Roomy
  <2>3. risk' \in [perp : Int, later : BOOLEAN]
    BY <1>6 DEF Restart, StopTypeOK, VenueTyped
  <2>4. FlagsTyped'
    BY <1>6, Zenon DEF Restart, row, StopTypeOK, FlagsTyped
  <2> QED
    BY <1>0, <1>6, <2>1, <2>2, <2>3, <2>4
    DEF Restart, row, StopTypeOK, VenueTyped, RowTyped, EngineTyped
<1> QED
  BY <1>1, <1>2, <1>3, <1>4, <1>5, <1>6, RenewTypes DEF CommandGoesOn, Command

LEMMA StopTypeStep == StopTypeOK /\ [StopNext]_stopVars => StopTypeOK'
<1> SUFFICES ASSUME StopTypeOK, [StopNext]_stopVars PROVE StopTypeOK'
  OBVIOUS
<1>1. CASE UNCHANGED stopVars
  BY <1>1, SweepKept
  DEF stopVars, world, row, memory, commands, StopTypeOK, VenueTyped, RowTyped, EngineTyped,
      FlagsTyped
<1>2. CASE StopNext
  BY <1>2, VenueTypes, TaskTypes, SpotStopTypes, GuardTypes, GraceTypes, EnsureTypes, CommandTypes
  DEF StopNext, SweepStep
<1> QED
  BY <1>1, <1>2

\* The venue, the row, memory and the frame of the sweep keep their types; the
\* lock is held by the command or the sweep, whichever works on the stops.
THEOREM StopTypes == StopSpec => []StopTypeOK
  BY StopTypeInit, StopTypeStep, PTL DEF StopSpec

-------------------------------------------------------------------------------
(***************************************************************************)
(* The perp leg is booked no lower than the venue.                         *)
(***************************************************************************)

\* Steps that book nothing on the perp leg, and leave the row in hand or drop it.
LEMMA PerpKept ==
    ASSUME StopTypeOK, StopTypeOK', PerpInv, dbPerp' = dbPerp, vPerp' <= vPerp,
           risk' = risk \/ ~risk'.later \/ risk'.perp >= vPerp',
           Watches' => Watches \/ ~risk'.later \/ risk'.perp >= vPerp',
           RowInHand' => RowInHand /\ sw'.perp = sw.perp,
           sw'.pc = "which" => sw.pc = "which" /\ sw'.perp = sw.perp /\ sw'.venue = sw.venue
    PROVE  PerpInv'
<1>1. /\ vPerp \in Int /\ vPerp' \in Int /\ dbPerp \in Int /\ risk.perp \in Int
      /\ sw.perp \in Int /\ sw.venue \in Int
  BY DEF StopTypeOK, VenueTyped, RowTyped, EngineTyped, SweepType
<1>2. PerpNotForgotten' /\ (Watches' /\ risk'.later => risk'.perp >= vPerp')
  BY <1>1 DEF PerpInv, PerpNotForgotten
<1>3. RowInHand' => sw'.perp = dbPerp'
  BY DEF PerpInv
<1>4. sw'.pc = "which" => dbPerp' - vPerp' >= sw'.perp - sw'.venue
  BY <1>1 DEF PerpInv
<1> QED
  BY <1>2, <1>3, <1>4 DEF PerpInv

LEMMA PerpFrame ==
    ASSUME StopTypeOK, StopTypeOK', PerpInv, dbPerp' = dbPerp, vPerp' = vPerp, risk' = risk,
           hedgeBreak' => Watches,
           \/ sw' = sw
           \/ sw'.pc \notin {"stop", "perp", "disarm", "sold", "buyback", "balance", "guard", "which"}
           \/ sw'.pc # "which" /\ RowInHand /\ sw'.perp = sw.perp
    PROVE  PerpInv'
<1>1. vPerp' <= vPerp
  BY DEF StopTypeOK, VenueTyped
<1>2. sw' = sw => (RowInHand' <=> RowInHand)
  BY DEF RowInHand
<1>3. Watches' => Watches
  BY DEF Watches
<1> QED
  BY <1>1, <1>2, <1>3, PerpKept DEF RowInHand

LEMMA PerpUnderVenue ==
    ASSUME StopTypeOK, StopTypeOK', PerpInv, VenueMoves \/ VenueTidies \/ RefreshRisk
    PROVE  PerpInv'
<1>0. UNCHANGED hedgeBreak
  BY DEF VenueMoves, VenueTidies, OrderFills, OrderLapses, Reduced, RefreshRisk, memory
<1>1. /\ sw' = sw /\ dbPerp' = dbPerp
      /\ risk' = risk \/ (risk'.perp = vPerp /\ vPerp' = vPerp)
      /\ vPerp' <= vPerp
  <2>0. vPerp \in Int /\ \A k \in Nat : vPerp - k <= vPerp
    BY DEF StopTypeOK, VenueTyped
  <2>1. ASSUME NEW o \in Id, NEW k \in 1..(Held + MaxOps), OrderFills(o, k)
        PROVE  UNCHANGED <<sw, dbPerp, risk>> /\ vPerp' <= vPerp
    BY <2>0, <2>1, StopConstants, StopAssumption DEF OrderFills, row
  <2>2. ASSUME NEW o \in Id, OrderLapses(o) PROVE UNCHANGED <<sw, dbPerp, risk>> /\ vPerp' <= vPerp
    BY <2>0, <2>2 DEF OrderLapses, row
  <2>3. ASSUME NEW k \in 1..Held, Reduced(k) PROVE UNCHANGED <<sw, dbPerp, risk>> /\ vPerp' <= vPerp
    BY <2>0, <2>3, StopConstants DEF Reduced, row
  <2>4. ASSUME RefreshRisk
        PROVE  UNCHANGED <<sw, dbPerp>> /\ risk'.perp = vPerp /\ vPerp' = vPerp /\ vPerp' <= vPerp
    BY <2>0, <2>4 DEF RefreshRisk, row
  <2> QED
    BY <2>1, <2>2, <2>3, <2>4 DEF VenueMoves, VenueTidies
<1>2. risk' = risk \/ ~risk'.later \/ risk'.perp >= vPerp'
  BY <1>1 DEF StopTypeOK, VenueTyped
<1> QED
  BY <1>0, <1>1, <1>2, PerpKept DEF RowInHand, Watches

\* A run changes row and venue alike, and not while the sweep has the row in hand.
LEMMA PerpUnderTasks ==
    ASSUME {"row_moves", "add_unseen"} \cap StopFaults = {}, StopTypeOK, StopTypeOK', PerpInv,
           TaskWorks
    PROVE  PerpInv'
<1>1. /\ vPerp \in Int /\ dbPerp \in Int /\ risk.perp \in Int /\ sw.perp \in Int /\ sw.venue \in Int
  BY DEF StopTypeOK, VenueTyped, RowTyped, EngineTyped, SweepType
<1>2. ASSUME NEW k \in Nat, sw' = sw, ~RowInHand, risk' = risk, hedgeBreak' = hedgeBreak,
             vPerp' = vPerp - k, dbPerp' = dbPerp - k
      PROVE  PerpInv'
  <2>1. PerpNotForgotten'
    BY <1>1, <1>2 DEF PerpInv, PerpNotForgotten
  <2>2. Watches' /\ risk'.later => risk'.perp >= vPerp'
    BY <1>1, <1>2 DEF PerpInv, Watches
  <2>3. sw'.pc = "which" => dbPerp' - vPerp' >= sw'.perp - sw'.venue
    BY <1>1, <1>2 DEF PerpInv
  <2> QED
    BY <1>2, <2>1, <2>2, <2>3 DEF PerpInv, RowInHand
<1>3. ASSUME NEW k \in 1..(Held + MaxOps), TaskBuys(k) PROVE PerpInv'
  <2>1. k \in Nat /\ ~RowInHand
    BY <1>3, StopConstants, StopAssumption DEF TaskBuys, RowMayMove
  <2> QED
    BY <1>2, <1>3, <2>1 DEF TaskBuys, memory
<1>4. ASSUME NEW k \in 1..(Held + MaxOps), TaskSells(k) PROVE PerpInv'
  BY <1>4, PerpFrame DEF TaskSells, memory, Watches
<1>5. ASSUME TaskEnds PROVE PerpInv'
  BY <1>5, PerpFrame DEF TaskEnds, world, memory, Watches
<1>6. ASSUME AddEnds PROVE PerpInv'
  <2>1. /\ vPerp' = vPerp + 1 /\ dbPerp' = dbPerp + 1 /\ sw' = sw /\ ~RowInHand
        /\ ~Watches'
    BY <1>6 DEF AddEnds, RowMayMove, memory, Watches
  <2>2. PerpNotForgotten'
    BY <1>1, <2>1 DEF PerpInv, PerpNotForgotten
  <2>3. sw'.pc # "which"
    BY <2>1 DEF Watches
  <2> QED
    BY <2>1, <2>2, <2>3 DEF PerpInv, RowInHand
<1> QED
  BY <1>3, <1>4, <1>5, <1>6 DEF TaskWorks, TaskTrades

LEMMA PerpUnderSweep ==
    ASSUME "risk_stalls" \notin StopFaults, StopTypeOK, StopTypeOK', PerpInv, SweepStep
    PROVE  PerpInv'
<1>0. sw \in SweepType
  BY FrameInt
<1> USE DEF SweepPlace
<1>1. ASSUME SweepBegins PROVE PerpInv'
  <2>1. sw'.perp = dbPerp /\ sw'.pc \in {"stop", "grace"}
    BY <1>1 DEF SweepBegins, Sweep, Asleep
  <2>2. UNCHANGED <<dbPerp, vPerp, risk, hedgeBreak>>
    BY <1>1 DEF SweepBegins, world, row, memory
  <2> QED
    BY <2>1, <2>2 DEF PerpInv, PerpNotForgotten, RowInHand, Watches
<1>2. ASSUME NoPoll \/ PollSpotStop PROVE PerpInv'
  <2>1. /\ sw'.perp = sw.perp /\ sw'.pc # "which" /\ RowInHand
        /\ UNCHANGED <<dbPerp, vPerp, risk, hedgeBreak>>
    <3>1. RowInHand /\ UNCHANGED <<dbPerp, vPerp, risk, hedgeBreak>>
      BY <1>2 DEF NoPoll, PollSpotStop, world, row, memory, RowInHand
    <3>2. \/ Goes("balance") \/ sw' = [sw EXCEPT !.pc = "guard", !.own = TRUE]
          \/ sw' = [sw EXCEPT !.pc = "perp", !.a = known.a, !.m = known.m]
      BY <1>2 DEF NoPoll, PollSpotStop, Sweep
    <3>3. sw'.perp = sw.perp /\ sw'.pc # "which"
      BY <1>0, <3>2, FrameGoes DEF SweepType
    <3> QED
      BY <3>1, <3>3
  <2> QED
    BY <2>1, PerpFrame DEF Watches
<1>3. ASSUME PollPerpStop \/ Disarm \/ BookSpotStop \/ NoBalance \/ CheckBalance PROVE PerpInv'
  <2>1. RowInHand /\ UNCHANGED <<dbPerp, vPerp, risk, hedgeBreak>>
    BY <1>3
    DEF PollPerpStop, Disarm, BookSpotStop, NoBalance, CheckBalance, world, row, memory, RowInHand
  <2>2. PICK pc \in SweepPlace \ {"which"} : Goes(pc)
    BY <1>3 DEF PollPerpStop, Disarm, BookSpotStop, NoBalance, CheckBalance
  <2>3. sw'.pc # "which" /\ sw'.perp = sw.perp
    BY <1>0, <2>2, FrameGoes
  <2> QED
    BY <2>1, <2>3, PerpFrame DEF Watches
<1>4. ASSUME BuyBack PROVE PerpInv'
  <2>1. /\ sw'.perp = sw.perp /\ sw'.pc # "which" /\ RowInHand
        /\ UNCHANGED <<dbPerp, vPerp, risk, hedgeBreak>>
    BY <1>0, <1>4 DEF BuyBack, row, Sweep, SweepType, RowInHand
  <2> QED
    BY <2>1, PerpFrame DEF Watches
<1>5. ASSUME GuardPasses PROVE PerpInv'
  <2>1. hedgeBreak' => Watches
    BY <1>5, Zenon DEF GuardPasses, Watches
  <2> QED
    BY <1>5, <2>1, FramePassesGuard, PerpFrame DEF GuardPasses, world, row
<1>6. ASSUME GuardStarts PROVE PerpInv'
  <2>1. sw'.pc = "idle" /\ UNCHANGED <<dbPerp, vPerp>> /\ risk'.later = FALSE
    BY <1>6, FrameRests DEF GuardStarts, row, StopTypeOK, VenueTyped
  <2> QED
    BY <2>1 DEF PerpInv, PerpNotForgotten, RowInHand
<1>7. ASSUME GuardWaits \/ GuardFinishes \/ StartSellDown \/ GraceLookupFails \/ NoStopsNow PROVE PerpInv'
  BY <1>7, FrameRests, PerpFrame
  DEF GuardWaits, GuardFinishes, StartSellDown, GraceLookupFails, NoStopsNow, world, row, memory,
      Watches
<1>8. ASSUME GuardActs PROVE PerpInv'
  <2>1. /\ sw.pc = "guard" /\ hedgeBreak /\ risk.later /\ UNCHANGED <<dbPerp, vPerp, risk>>
    BY <1>8 DEF GuardActs, Confirmed, DeficitSeen, world, row
  <2>2. sw'.pc = "which" /\ sw'.perp = sw.perp /\ sw'.venue = risk.perp
    BY <1>0, <1>8 DEF GuardActs, Sweep, SweepType
  <2>3. sw.perp = dbPerp /\ risk.perp >= vPerp /\ dbPerp >= vPerp
    BY <2>1 DEF PerpInv, RowInHand, PerpNotForgotten, Watches
  <2>4. dbPerp' - vPerp' >= sw'.perp - sw'.venue
    BY <2>1, <2>2, <2>3 DEF StopTypeOK, VenueTyped, RowTyped
  <2> QED
    BY <2>1, <2>2, <2>3, <2>4 DEF PerpInv, PerpNotForgotten, RowInHand
<1>9. ASSUME BookPerp PROVE PerpInv'
  <2>1. CASE Rest /\ UNCHANGED dbPerp
    BY <1>9, <2>1, FrameRests, PerpFrame DEF BookPerp, world, Watches
  <2>2. CASE Goes("twin") /\ dbPerp' = dbPerp - (sw.perp - sw.venue)
    <3>1. sw'.pc = "twin" /\ UNCHANGED <<vPerp, risk>> /\ sw.pc = "which"
      BY <1>0, <1>9, <2>2, FrameGoes DEF BookPerp, world
    <3>4. PerpInv => (risk.later => risk.perp >= vPerp)
      BY <3>1 DEF PerpInv, Watches
    <3>2. dbPerp - vPerp >= sw.perp - sw.venue /\ dbPerp \in Int /\ vPerp \in Int
          /\ sw.perp \in Int /\ sw.venue \in Int
      BY <3>1, FrameInt DEF PerpInv, StopTypeOK, VenueTyped, RowTyped
    <3>3. dbPerp' >= vPerp'
      BY <2>2, <3>1, <3>2
    <3> QED
      BY <3>1, <3>3, <3>4 DEF PerpInv, PerpNotForgotten, RowInHand
  <2> QED
    BY <1>9, <2>1, <2>2 DEF BookPerp
<1>10. ASSUME BookTwin PROVE PerpInv'
  <2>1. sw'.pc \in {"idle", "finish", "free"}
    <3>1. Rest \/ Goes("finish") \/ Goes("free")
      BY <1>10 DEF BookTwin
    <3> QED
      BY <1>0, <3>1, FrameRests, FrameGoes
  <2> QED
    BY <1>10, <2>1, PerpFrame DEF BookTwin, world, Watches
<1>11. ASSUME FreeTheSpot \/ GraceLapses \/ ClearStops PROVE PerpInv'
  <2>1. PICK pc \in {"selldown", "armperp"} : Goes(pc)
    BY <1>11 DEF FreeTheSpot, GraceLapses, ClearStops
  <2>2. sw'.pc = pc
    BY <1>0, <2>1, FrameGoes
  <2> QED
    BY <1>11, <2>2, PerpFrame DEF FreeTheSpot, GraceLapses, ClearStops, row, memory, Watches
<1>12. ASSUME NEW over \in BOOLEAN, GraceLooks(over) PROVE PerpInv'
  <2>1. Rest \/ \E pc \in {"finish", "lapse", "selldown"} : Goes(pc)
    BY <1>12, Zenon DEF GraceLooks
  <2>2. sw'.pc \in {"idle", "finish", "lapse", "selldown"}
    BY <1>0, <2>1, FrameRests, FrameGoes
  <2>3. UNCHANGED <<dbPerp, vPerp, risk, hedgeBreak>>
    BY <1>12, Zenon DEF GraceLooks, world
  <2> QED
    BY <2>2, <2>3, PerpFrame DEF Watches
<1>13. ASSUME EnsureStops \/ ArmPerp \/ ArmSpot PROVE PerpInv'
  <2>1. sw'.pc \in {"clear", "armspot", "idle"}
    BY <1>0, <1>13, FrameRests DEF EnsureStops, ArmPerp, ArmSpot, Sweep, SweepType
  <2> QED
    BY <1>13, <2>1, PerpFrame DEF EnsureStops, ArmPerp, ArmSpot, world, row, memory, Watches
<1> QED
  BY <1>1, <1>2, <1>3, <1>4, <1>5, <1>6, <1>7, <1>8, <1>9, <1>10, <1>11, <1>12, <1>13
  DEF SweepStep, SpotStopStep, GuardStep, GraceStep, EnsureStep

LEMMA PerpUnderCommands ==
    ASSUME StopTypeOK, StopTypeOK', PerpInv, CommandGoesOn \/ Command \/ RenewGoesOn \/ Restart
    PROVE  PerpInv'
<1>1. ASSUME Restart PROVE PerpInv'
  <2>1. sw'.pc = "idle" /\ UNCHANGED <<dbPerp, vPerp>> /\ risk'.later = FALSE
    BY <1>1, FrameRests DEF Restart, row
  <2> QED
    BY <2>1 DEF PerpInv, PerpNotForgotten, RowInHand
<1>2. ASSUME CommandGoesOn \/ Command \/ RenewGoesOn
      PROVE  sw' = sw /\ UNCHANGED <<dbPerp, vPerp, risk, hedgeBreak>>
  BY <1>2
  DEF CommandGoesOn, Command, RenewGoesOn, AskClose, CancelStops, StartClose, StandDown, AskAdd,
      AskStops, RenewClears, RenewPerp, RenewSpot, world, row, memory
<1> QED
  BY <1>1, <1>2, PerpFrame DEF Watches

\* Only contracts the venue confirmed as gone, by a snapshot later than the guard's
\* first sight of the deficit, are booked as gone, in any order of closes, /stops and
\* fills.  The guard does not ask whether an add came after the snapshot: no add
\* begins and ends between two of its looks (add_unseen).
THEOREM PerpIsBookedOnce ==
    ASSUME {"row_moves", "risk_stalls", "add_unseen"} \cap StopFaults = {}
    PROVE  StopSpec => []PerpNotForgotten
<1>1. StopInit => PerpInv
  <2> SUFFICES ASSUME StopInit PROVE PerpInv
    OBVIOUS
  <2>1. sw.pc = "idle" /\ risk.later = FALSE /\ dbPerp = vPerp /\ dbPerp \in Int
    BY StopConstants DEF StopInit, Asleep
  <2> QED
    BY <2>1 DEF PerpInv, PerpNotForgotten, RowInHand
<1>2. StopTypeOK /\ StopTypeOK' /\ PerpInv /\ [StopNext]_stopVars => PerpInv'
  <2> SUFFICES ASSUME StopTypeOK, StopTypeOK', PerpInv, [StopNext]_stopVars PROVE PerpInv'
    OBVIOUS
  <2>1. CASE UNCHANGED stopVars
    BY <2>1, PerpFrame DEF stopVars, world, row, memory, Watches
  <2>2. CASE StopNext
    BY <2>2, PerpUnderVenue, PerpUnderTasks, PerpUnderSweep, PerpUnderCommands DEF StopNext
  <2> QED
    BY <2>1, <2>2
<1>3. PerpInv => PerpNotForgotten
  BY DEF PerpInv
<1> QED
  BY <1>1, <1>2, <1>3, StopTypes, PTL DEF StopSpec

-------------------------------------------------------------------------------
(***************************************************************************)
(* /stops beside the sweep, the closes and the runs.                       *)
(***************************************************************************)

\* Where /stops does not cut in, nothing it must not meet begins while it waits for
\* the lock or holds it: a close needs the lock, and the sweep handles no stop.
LEMMA ApartInvariance ==
    ASSUME "stops_cut_in" \notin StopFaults
    PROVE  StopSpec => []Apart
<1>1. StopInit => Apart
  BY DEF StopInit, NoRenew, Apart
<1>2. ASSUME StopTypeOK, Apart, [StopNext]_stopVars PROVE Apart'
  <2>0. sw \in SweepType /\ renew.pc \in {"none", "wait", "perp", "spot"} /\ ~CutIn
    BY <1>2, FrameInt DEF StopTypeOK, EngineTyped, RenewType, CutIn
  <2> USE DEF SweepPlace, commands
  \* Nothing that /stops must not meet begins, and no /stops does.
  <2>k. ASSUME renew' = renew, grace' = grace \/ grace' = NoGrace,
               renew.pc = "none" \/ sw' = sw \/ ~(sw'.pc \in {"perp", "disarm", "sold", "buyback",
                  "which", "twin", "free", "selldown", "grace", "lapse"}),
               op' = op \/ op' # "cancelled", task' = task \/ task'.kind \notin {"exit", "selldown"}
        PROVE  Apart'
    BY <1>2, <2>k DEF Apart, Fired
  <2>n. ASSUME renew.pc = "none", renew' = renew PROVE Apart'
    BY <2>n DEF Apart
  <2>1. ASSUME \/ VenueMoves \/ VenueTidies \/ RefreshRisk \/ TaskWorks \/ UNCHANGED stopVars
        PROVE  Apart'
    <3>1. UNCHANGED <<sw, grace, op, renew>> /\ (task' = task \/ task' = NoTask)
      BY <2>1
      DEF VenueMoves, VenueTidies, RefreshRisk, OrderFills, OrderLapses, Reduced, TaskWorks,
          TaskTrades, TaskBuys, TaskSells, TaskEnds, AddEnds, stopVars, world, memory
    <3> QED
      BY <3>1, <2>k DEF NoTask
  <2>2. ASSUME SweepBegins PROVE Apart'
    <3>1. UNCHANGED <<grace, op, renew, task>> /\ sw'.pc = IF grace = NoGrace THEN "stop" ELSE "grace"
      BY <2>2 DEF SweepBegins, Sweep, Asleep, memory
    <3>2. CASE grace = NoGrace
      BY <3>1, <3>2, <2>k
    <3>3. CASE grace # NoGrace
      BY <1>2, <3>1, <3>3, <2>n DEF Apart, Fired
    <3> QED
      BY <3>2, <3>3
  <2>3. ASSUME NoPoll \/ NoBalance \/ CheckBalance \/ GuardPasses \/ GuardStarts \/ GuardWaits
               \/ GuardFinishes \/ EnsureStep
        PROVE  Apart'
    <3>1. UNCHANGED <<grace, op, renew, task>>
      BY <2>3
      DEF NoPoll, NoBalance, CheckBalance, GuardPasses, GuardStarts, GuardWaits, GuardFinishes,
          EnsureStep, NoStopsNow, EnsureStops, ClearStops, ArmPerp, ArmSpot, memory
    <3>2. \/ Rest \/ PastGuard \/ \E pc \in {"balance", "guard", "idle", "armperp"} : Goes(pc)
          \/ sw' = [sw EXCEPT !.pc = "guard", !.own = TRUE]
          \/ sw' = [sw EXCEPT !.pc = "clear", !.perp = dbPerp, !.spot = dbSpot]
          \/ \E a \in {Placed + 1, 0} : sw' = [sw EXCEPT !.pc = "armspot", !.a = a]
      BY <2>3
      DEF NoPoll, NoBalance, CheckBalance, GuardPasses, GuardStarts, GuardWaits, GuardFinishes,
          EnsureStep, NoStopsNow, EnsureStops, ClearStops, ArmPerp, ArmSpot, Sweep
    <3>3. sw'.pc \in {"idle", "ensure", "balance", "guard", "armperp", "clear", "armspot"}
      BY <2>0, <3>2, FrameRests, FramePassesGuard, FrameGoes DEF SweepType
    <3> QED
      BY <3>1, <3>3, <2>k
  <2>4. ASSUME PollSpotStop PROVE Apart'
    <3>1. UNCHANGED <<grace, op, renew, task>> /\ (renew.pc = "none" \/ Goes("balance"))
      BY <2>0, <2>4 DEF PollSpotStop, memory
    <3>2. Goes("balance") => sw'.pc = "balance"
      BY <2>0, FrameGoes
    <3> QED
      BY <3>1, <3>2, <2>k
  <2>5. ASSUME \/ PollPerpStop \/ Disarm \/ BookSpotStop \/ BuyBack \/ GuardActs \/ BookPerp
               \/ BookTwin \/ FreeTheSpot \/ StartSellDown \/ GraceStep
        PROVE  Apart'
    <3>1. renew' = renew
      BY <2>5, Zenon
      DEF PollPerpStop, Disarm, BookSpotStop, BuyBack, GuardActs, BookPerp, BookTwin, FreeTheSpot,
          StartSellDown, GraceStep, GraceLooks, GraceLookupFails, GraceLapses
    <3>2. Fired \/ GuardActs
      BY <2>5, Zenon
      DEF Fired, PollPerpStop, Disarm, BookSpotStop, BuyBack, BookPerp, BookTwin, FreeTheSpot,
          StartSellDown, GraceStep, GraceLooks, GraceLookupFails, GraceLapses
    <3>3. GuardActs => renew.pc = "none"
      BY <2>0, Zenon DEF GuardActs
    <3>4. Fired => renew.pc = "none"
      BY <1>2, Zenon DEF Apart
    <3> QED
      BY <3>1, <3>2, <3>3, <3>4, <2>n
  <2>6. ASSUME CommandGoesOn PROVE Apart'
    <3>1. renew' = renew /\ (op = "cancelled" \/ (lock = "none" /\ renew.pc # "wait"))
      BY <2>6 DEF CommandGoesOn, CancelStops, StartClose
    <3>2. lock = "none" => renew.pc \notin {"perp", "spot"}
      BY <1>2 DEF StopTypeOK, LockHeld
    <3>3. op = "cancelled" => renew.pc = "none"
      BY <1>2 DEF Apart
    <3> QED
      BY <2>0, <3>1, <3>2, <3>3, <2>n
  <2>7. ASSUME Command PROVE Apart'
    <3>1. CASE AskStops
      BY <2>0, <3>1 DEF AskStops, NoRenew, Apart, Fired, memory
    <3>2. CASE (\E f \in ExitFloors : AskClose(f)) \/ StandDown \/ AskAdd
      <4>1. /\ UNCHANGED <<sw, grace, renew>> /\ (op' = op \/ op' = "stops")
            /\ task' = task \/ task'.kind \in {"none", "add"}
        BY <3>2 DEF AskClose, StandDown, AskAdd, NoTask, memory
      <4> QED
        BY <4>1, <2>k
    <3> QED
      BY <2>7, <3>1, <3>2 DEF Command
  <2>8. ASSUME RenewGoesOn PROVE Apart'
    <3>1. renew.pc # "none" /\ UNCHANGED <<sw, grace, op, task>>
      BY <2>8 DEF RenewGoesOn, RenewClears, RenewPerp, RenewSpot, memory
    <3>2. ~Fired /\ op # "cancelled" /\ task.kind \notin {"exit", "selldown"}
      BY <1>2, <3>1 DEF Apart
    <3>3. ~Fired'
      BY <3>1, <3>2 DEF Fired
    <3> QED
      BY <3>1, <3>2, <3>3 DEF Apart
  <2>9. ASSUME Restart PROVE Apart'
    BY <2>9 DEF Restart, NoRenew, Apart
  <2> QED
    BY <1>2, <2>1, <2>2, <2>3, <2>4, <2>5, <2>6, <2>7, <2>8, <2>9
    DEF StopNext, SweepStep, SpotStopStep, GuardStep
<1> QED
  BY <1>1, <1>2, StopTypes, PTL DEF StopSpec

-------------------------------------------------------------------------------
(***************************************************************************)
(* Where spot is about to be sold, no sell LIMIT of ours rests.            *)
(***************************************************************************)

\* What a frame of the sweep says of the sell LIMITs that may rest.
FrameSpot ==
    /\ sw.pc \in {"grace", "lapse"} => LiveOn("spot") \subseteq {sw.m}
    /\ sw.pc \in {"which", "twin"} /\ sw.m # 0 => LiveOn("spot") \subseteq {sw.m}
    /\ sw.pc \in {"selldown", "armperp", "armspot"} => LiveOn("spot") = {}

\* Steps that place no sell LIMIT.
LEMMA SpotFewer ==
    ASSUME SpotFree, LiveOn("spot")' \subseteq LiveOn("spot"), FrameSpot',
           known' = known \/ known'.m = 0,
           grace' = NoGrace \/ (grace'.m = grace.m /\ grace # NoGrace /\ sw'.pc \in {"idle", "grace"}),
           op' = "cancelled" => op = "cancelled" \/ LiveOn("spot")' = {},
           lock' = "sweep" => task'.kind \notin {"exit", "selldown"},
           task'.kind \in {"exit", "selldown"} => task' = task \/ LiveOn("spot")' = {},
           renew' = renew \/ renew'.pc \notin {"perp", "spot"} \/ LiveOn("spot")' = {}
    PROVE  SpotFree'
<1>1. /\ \A o, p \in LiveOn("spot")' : o = p
      /\ known'.m # 0 => LiveOn("spot")' \subseteq {known'.m}
      /\ grace' # NoGrace => sw'.pc \in {"idle", "grace"} /\ LiveOn("spot")' \subseteq {grace'.m}
      /\ op' = "cancelled" \/ renew'.pc \in {"perp", "spot"} => LiveOn("spot")' = {}
  BY DEF SpotFree
<1>2. ExitNotLocked'
  BY DEF SpotFree, ExitNotLocked
<1>3. /\ sw'.pc \in {"grace", "lapse"} => LiveOn("spot")' \subseteq {sw'.m}
      /\ sw'.pc \in {"which", "twin"} /\ sw'.m # 0 => LiveOn("spot")' \subseteq {sw'.m}
      /\ sw'.pc \in {"selldown", "armperp", "armspot"} => LiveOn("spot")' = {}
  BY DEF FrameSpot
<1> QED
  BY <1>1, <1>2, <1>3 DEF SpotFree

\* ... and leave sweep, memory, lock and command alone.
LEMMA SpotUntouched ==
    ASSUME SpotFree, LiveOn("spot")' \subseteq LiveOn("spot"), UNCHANGED <<sw, known, grace, lock, op>>,
           renew' = renew \/ renew'.pc \notin {"perp", "spot"},
           task' = task \/ task'.kind \notin {"exit", "selldown"}
    PROVE  SpotFree'
<1>1. FrameSpot'
  BY DEF FrameSpot, SpotFree
<1>2. grace' = NoGrace \/ (grace'.m = grace.m /\ grace # NoGrace /\ sw'.pc \in {"idle", "grace"})
  BY DEF SpotFree
<1>3. lock' = "sweep" => task'.kind \notin {"exit", "selldown"}
  BY DEF SpotFree
<1> QED
  BY <1>1, <1>2, <1>3, SpotFewer

\* ... and move the sweep, which holds no lock and has no run to start.
LEMMA SpotMoves ==
    ASSUME StopTypeOK, SpotFree, LiveOn("spot")' \subseteq LiveOn("spot"), FrameSpot',
           UNCHANGED <<grace, task, lock, op, renew>>,
           known' = known \/ known'.m = 0, sw.pc \notin {"idle", "grace"}
    PROVE  SpotFree'
<1>1. grace' = NoGrace
  BY DEF SpotFree
<1>2. lock' = "sweep" => task'.kind \notin {"exit", "selldown"}
  BY DEF SpotFree
<1> QED
  BY <1>1, <1>2, SpotFewer

LEMMA SameOrders ==
    ASSUME ord' = ord
    PROVE  \A leg : LiveOn(leg)' = LiveOn(leg)
  BY DEF LiveOn, Live

LEMMA SpotUnderVenue ==
    ASSUME StopTypeOK, SpotFree, VenueMoves \/ VenueTidies \/ RefreshRisk
    PROVE  SpotFree'
<1>0. ord \in [Id -> OrderType]
  BY DEF StopTypeOK, VenueTyped
<1> USE DEF commands
<1>1. ASSUME NEW o \in Id, NEW k \in 1..(Held + MaxOps), OrderFills(o, k) PROVE SpotFree'
  <2>1. k \in Nat /\ ord[o].st = "live"
    BY <1>1, StopConstants, StopAssumption DEF OrderFills, Live
  <2>2. PICK st \in {"live", "filled", "dead"} :
           ord' = [ord EXCEPT ![o].exec = @ + k, ![o].st = st]
    BY <1>1 DEF OrderFills
  <2>3. LiveOn("spot")' \subseteq LiveOn("spot")
    BY <1>0, <2>1, <2>2, OrderMoves
  <2> QED
    BY <1>1, <2>3, SpotUntouched DEF OrderFills, memory
<1>2. ASSUME NEW o \in Id, OrderLapses(o) PROVE SpotFree'
  <2>1. LiveOn("spot")' = LiveOn("spot") \ {o}
    BY <1>0, <1>2, OrderDies DEF OrderLapses
  <2> QED
    BY <1>2, <2>1, SpotUntouched DEF OrderLapses, memory
<1>3. ASSUME NEW k \in 1..Held, Reduced(k) PROVE SpotFree'
  BY <1>3, SameOrders, SpotUntouched DEF Reduced, memory
<1>4. ASSUME RefreshRisk PROVE SpotFree'
  BY <1>4, SameOrders, SpotUntouched DEF RefreshRisk, memory
<1> QED
  BY <1>1, <1>2, <1>3, <1>4 DEF VenueMoves, VenueTidies

LEMMA SpotUnderTasks ==
    ASSUME StopTypeOK, SpotFree, TaskWorks
    PROVE  SpotFree'
<1>1. /\ ord' = ord /\ UNCHANGED <<sw, known, grace, lock, op, renew>>
      /\ task' = task \/ task' = NoTask
  BY DEF TaskWorks, TaskTrades, TaskBuys, TaskSells, TaskEnds, AddEnds, world, memory, commands
<1> QED
  BY <1>1, SameOrders, SpotUntouched DEF NoTask

LEMMA SpotUnderSpotStop ==
    ASSUME StopTypeOK, SpotFree, SweepBegins \/ SpotStopStep \/ NoBalance \/ CheckBalance
    PROVE  SpotFree'
<1>0. sw \in SweepType /\ ord \in [Id -> OrderType]
  BY FrameInt DEF StopTypeOK, VenueTyped
<1> USE DEF SweepPlace, commands
<1>1. ASSUME SweepBegins PROVE SpotFree'
  <2>1. /\ sw'.pc = IF grace = NoGrace THEN "stop" ELSE "grace"
        /\ sw'.m = grace.m
    BY <1>1 DEF SweepBegins, Sweep, Asleep
  <2>2. ord' = ord /\ UNCHANGED <<known, grace, task, lock, op, renew>>
    BY <1>1 DEF SweepBegins, world, memory
  <2>3. FrameSpot'
    BY <2>1, <2>2, SameOrders DEF FrameSpot, SpotFree
  <2>4. grace' = NoGrace \/ (grace'.m = grace.m /\ grace # NoGrace /\ sw'.pc \in {"idle", "grace"})
    BY <2>1, <2>2
  <2>5. lock' = "sweep" => task'.kind \notin {"exit", "selldown"}
    BY <2>2 DEF SpotFree
  <2> QED
    BY <2>2, <2>3, <2>4, <2>5, SameOrders, SpotFewer
<1>2. ASSUME SpotStopStep \/ NoBalance \/ CheckBalance PROVE SpotFree'
  <2>1. /\ sw.pc \notin {"idle", "grace"}
        /\ UNCHANGED <<grace, task, lock, op, renew>>
        /\ known' = known \/ known'.m = 0
    BY <1>2
    DEF SpotStopStep, NoPoll, PollSpotStop, PollPerpStop, Disarm, BookSpotStop, BuyBack, NoBalance,
        CheckBalance, memory, StopTypeOK, EngineTyped, StopsType
  <2>2. sw'.pc \in {"perp", "disarm", "sold", "buyback", "balance", "guard", "idle"}
    <3>1. \/ \E pc \in {"disarm", "sold", "buyback", "balance", "guard", "idle"} : Goes(pc)
          \/ sw' = [sw EXCEPT !.pc = "guard", !.own = TRUE]
          \/ sw' = [sw EXCEPT !.pc = "perp", !.a = known.a, !.m = known.m]
      BY <1>2
      DEF SpotStopStep, NoPoll, PollSpotStop, PollPerpStop, Disarm, BookSpotStop, BuyBack,
          NoBalance, CheckBalance, Sweep
    <3> QED
      BY <1>0, <3>1, FrameGoes DEF SweepType
  <2>3. LiveOn("spot")' \subseteq LiveOn("spot")
    <3>1. ASSUME Disarm PROVE LiveOn("spot")' \subseteq LiveOn("spot")
      <4>1. CASE ord' = ord
        BY <4>1, SameOrders
      <4>2. CASE Live(sw.a) /\ ord' = [ord EXCEPT ![sw.a].st = "dead"]
        <5>1. sw.a \in Id
          BY <4>2 DEF Live
        <5>2. LiveOn("spot")' = LiveOn("spot") \ {sw.a}
          BY <1>0, <4>2, <5>1, OrderDies
        <5> QED
          BY <5>2
      <4> QED
        BY <3>1, <4>1, <4>2 DEF Disarm
    <3>2. ASSUME BuyBack PROVE LiveOn("spot")' \subseteq LiveOn("spot")
      <4> DEFINE q == Min({sw.perp, Executed(sw.m)})
      <4>1. q \in Int
        <5>1. Executed(sw.m) \in Int /\ sw.perp \in Int
          BY FrameInt
        <5> QED
          BY <5>1, SmallerOf
      <4>2. CASE ord' = ord
        BY <4>2, SameOrders
      <4>3. CASE ord' = Placing("perp", q)
        BY <1>0, <4>1, <4>3, PlacedOne
      <4> QED
        BY <3>2, <4>2, <4>3 DEF BuyBack
    <3>3. ord' = ord \/ Disarm \/ BuyBack
      BY <1>2
      DEF SpotStopStep, NoPoll, PollSpotStop, PollPerpStop, BookSpotStop, NoBalance, CheckBalance,
          world
    <3> QED
      BY <3>1, <3>2, <3>3, SameOrders
  <2>4. FrameSpot'
    BY <2>2 DEF FrameSpot
  <2> QED
    BY <2>1, <2>3, <2>4, SpotMoves
<1> QED
  BY <1>1, <1>2

LEMMA SpotUnderGuard ==
    ASSUME "cancel_fails" \notin StopFaults, StopTypeOK, SpotFree, GuardStep
    PROVE  SpotFree'
<1>0. sw \in SweepType /\ ord \in [Id -> OrderType] /\ sw.pc \notin {"idle", "grace", "clear", "armperp", "armspot"}
  BY FrameInt
  DEF StopTypeOK, VenueTyped, GuardStep, GuardPasses, GuardStarts, GuardWaits, GuardActs, Confirmed,
      DeficitSeen, BookPerp, BookTwin, GuardFinishes, FreeTheSpot, StartSellDown
<1> USE DEF SweepPlace, commands
<1>1. ASSUME GuardPasses \/ GuardStarts \/ GuardWaits \/ GuardFinishes PROVE SpotFree'
  <2>1. ord' = ord /\ UNCHANGED <<known, grace, task, lock, op, renew>>
    BY <1>1 DEF GuardPasses, GuardStarts, GuardWaits, GuardFinishes, world, memory
  <2>2. sw'.pc \in {"idle", "ensure"}
    BY <1>1, FrameRests, FramePassesGuard DEF GuardPasses, GuardStarts, GuardWaits, GuardFinishes
  <2>3. FrameSpot'
    BY <2>2 DEF FrameSpot
  <2> QED
    BY <1>0, <2>1, <2>3, SameOrders, SpotMoves
<1>2. ASSUME GuardActs PROVE SpotFree'
  <2>1. ord' = ord /\ UNCHANGED <<known, grace, task, lock, op, renew>>
    BY <1>2 DEF GuardActs, world
  <2>2. PICK m \in (IF known.m = 0 /\ Found # {} THEN Found ELSE {known.m}) :
           sw' = [sw EXCEPT !.pc = "which", !.a = known.a, !.m = m, !.venue = risk.perp]
    BY <1>2 DEF GuardActs, Sweep
  <2>3. sw'.pc = "which" /\ sw'.m = m
    BY <1>0, <2>2 DEF SweepType
  <2>4. m # 0 => LiveOn("spot") \subseteq {m}
    <3>1. CASE m = known.m
      BY <3>1 DEF SpotFree
    <3>2. CASE m \in Found
      BY <3>2 DEF Found, SpotFree
    <3> QED
      BY <3>1, <3>2
  <2>5. FrameSpot'
    BY <2>1, <2>3, <2>4, SameOrders DEF FrameSpot
  <2> QED
    BY <1>0, <2>1, <2>5, SameOrders, SpotMoves
<1>3. ASSUME BookPerp PROVE SpotFree'
  <2>1. sw.pc = "which" /\ ord' = ord /\ UNCHANGED <<known, grace, task, lock, op, renew>>
    BY <1>3 DEF BookPerp, world
  <2>2. sw'.pc = "idle" \/ (sw'.pc = "twin" /\ sw'.m = sw.m)
    <3>1. Rest \/ Goes("twin")
      BY <1>3 DEF BookPerp
    <3> QED
      BY <1>0, <3>1, FrameRests, FrameGoes
  <2>3. FrameSpot'
    BY <2>1, <2>2, SameOrders DEF FrameSpot, SpotFree
  <2> QED
    BY <1>0, <2>1, <2>3, SameOrders, SpotMoves
<1>4. ASSUME BookTwin PROVE SpotFree'
  <2>1. sw.pc = "twin" /\ ord' = ord /\ UNCHANGED <<task, lock, op, renew>> /\ known' = NoStops
    BY <1>4 DEF BookTwin, world
  <2>2. grace = NoGrace
    BY <2>1 DEF SpotFree
  <2>3. CASE Rest /\ Live(sw.m) /\ grace' = [m |-> sw.m, booked |-> Executed(sw.m), floor |-> sw.venue]
    <3>1. sw'.pc = "idle" /\ sw.m # 0 /\ grace'.m = sw.m /\ known'.m = 0
      BY <2>1, <2>3, FrameRests DEF Live, Id, NoStops
    <3>2. LiveOn("spot")' \subseteq {grace'.m}
      BY <2>1, <3>1, SameOrders DEF SpotFree
    <3>3. /\ lock' # "sweep" /\ UNCHANGED <<op, renew, task>>
          /\ LiveOn("spot")' = LiveOn("spot")
      BY <1>0, <2>1, SameOrders DEF StopTypeOK, LockHeld
    <3>4. ExitNotLocked'
      BY <3>3 DEF SpotFree, ExitNotLocked
    <3> QED
      BY <3>1, <3>2, <3>3, <3>4 DEF SpotFree
  <2>4. CASE grace' = grace /\ (Goes("finish") \/ Goes("free"))
    <3>1. FrameSpot'
      BY <1>0, <2>4, FrameGoes DEF FrameSpot
    <3> QED
      BY <1>0, <2>1, <2>4, <3>1, SameOrders, SpotMoves DEF NoStops
  <2> QED
    BY <1>4, <2>3, <2>4 DEF BookTwin
<1>5. ASSUME FreeTheSpot PROVE SpotFree'
  <2>1. /\ sw.pc = "free" /\ ord' = AllCancelled /\ UNCHANGED <<task, lock, op, renew>>
        /\ known' = NoStops /\ grace' = NoGrace /\ lock = "none"
    BY <1>5 DEF FreeTheSpot
  <2>2. LiveOn("spot")' = {}
    BY <1>0, <2>1, CancelledAll
  <2>3. sw'.pc = "selldown"
    BY <1>0, <1>5, FrameGoes DEF FreeTheSpot
  <2>4. FrameSpot'
    BY <2>2, <2>3 DEF FrameSpot
  <2> QED
    BY <2>1, <2>2, <2>4, SpotFewer DEF NoStops
<1>6. ASSUME StartSellDown PROVE SpotFree'
  <2>1. sw.pc = "selldown" /\ ord' = ord /\ UNCHANGED <<known, grace, lock, op, renew>> /\ sw'.pc = "idle"
    BY <1>6, FrameRests DEF StartSellDown, world, memory
  <2>2. LiveOn("spot") = {} /\ LiveOn("spot")' = {} /\ lock # "sweep" /\ grace = NoGrace
    BY <2>1, SameOrders DEF SpotFree, StopTypeOK, LockHeld
  <2>3. FrameSpot'
    BY <2>1 DEF FrameSpot
  <2> QED
    BY <2>1, <2>2, <2>3, SpotFewer
<1> QED
  BY <1>1, <1>2, <1>3, <1>4, <1>5, <1>6 DEF GuardStep

LEMMA SpotUnderGrace ==
    ASSUME "cancel_fails" \notin StopFaults, StopTypeOK, SpotFree, GraceStep
    PROVE  SpotFree'
<1>0. sw \in SweepType /\ ord \in [Id -> OrderType] /\ lock # "sweep"
  BY FrameInt
  DEF StopTypeOK, VenueTyped, LockHeld, GraceStep, GraceLooks, GraceLookupFails, GraceLapses
<1> USE DEF SweepPlace, commands
<1>1. ASSUME NEW over \in BOOLEAN, GraceLooks(over) PROVE SpotFree'
  <2>1. sw.pc = "grace" /\ ord' = ord /\ UNCHANGED <<known, task, lock, op, renew>>
    BY <1>1, Zenon DEF GraceLooks, world
  <2>2. LiveOn("spot")' = LiveOn("spot") /\ LiveOn("spot") \subseteq {sw.m}
    BY <2>1, SameOrders DEF SpotFree
  <2>3. \/ Rest /\ (grace' = grace \/ grace' = NoGrace
                    \/ (grace # NoGrace /\ grace' = [grace EXCEPT !.booked = Executed(sw.m)]))
        \/ grace' = NoGrace /\ (Goes("finish") \/ (Live(sw.m) /\ Goes("lapse"))
                                \/ (~Live(sw.m) /\ Goes("selldown")))
    BY <1>1, Zenon DEF GraceLooks
  <2>4. ~Live(sw.m) => LiveOn("spot") = {}
    BY <2>2 DEF LiveOn
  <2>5. CASE Rest /\ (grace' = grace \/ grace' = NoGrace
                      \/ (grace # NoGrace /\ grace' = [grace EXCEPT !.booked = Executed(sw.m)]))
    <3>1. sw'.pc = "idle"
      BY <2>5, FrameRests
    <3>2. FrameSpot'
      BY <3>1 DEF FrameSpot
    <3>3. grace' = NoGrace \/ (grace'.m = grace.m /\ grace # NoGrace)
      BY <2>5 DEF StopTypeOK, EngineTyped, GraceType
    <3> QED
      BY <1>0, <2>1, <2>2, <3>1, <3>2, <3>3, SpotFewer
  <2>6. CASE grace' = NoGrace /\ (Goes("finish") \/ (Live(sw.m) /\ Goes("lapse"))
                                  \/ (~Live(sw.m) /\ Goes("selldown")))
    <3>1. \/ sw'.pc = "finish" \/ (sw'.pc = "lapse" /\ sw'.m = sw.m)
          \/ (~Live(sw.m) /\ sw'.pc = "selldown")
      BY <1>0, <2>6, FrameGoes
    <3>2. FrameSpot'
      BY <2>2, <2>4, <3>1 DEF FrameSpot
    <3> QED
      BY <1>0, <2>1, <2>2, <2>6, <3>2, SpotFewer
  <2> QED
    BY <2>3, <2>5, <2>6
<1>2. ASSUME GraceLookupFails PROVE SpotFree'
  <2>1. sw'.pc = "idle" /\ ord' = ord /\ UNCHANGED <<known, grace, task, lock, op, renew>>
    BY <1>2, FrameRests DEF GraceLookupFails, world, memory
  <2>2. FrameSpot'
    BY <2>1 DEF FrameSpot
  <2> QED
    BY <1>0, <2>1, <2>2, SameOrders, SpotFewer
<1>3. ASSUME GraceLapses PROVE SpotFree'
  <2>1. sw.pc = "lapse" /\ UNCHANGED <<known, grace, task, lock, op, renew>>
    BY <1>3 DEF GraceLapses, memory
  <2>2. LiveOn("spot") \subseteq {sw.m}
    BY <2>1 DEF SpotFree
  <2>3. LiveOn("spot")' = {}
    <3>1. CASE Live(sw.m) /\ ord' = [ord EXCEPT ![sw.m].st = "dead"]
      <4>1. sw.m \in Id
        BY <3>1 DEF Live
      <4>2. LiveOn("spot")' = LiveOn("spot") \ {sw.m}
        BY <1>0, <3>1, <4>1, OrderDies
      <4> QED
        BY <2>2, <4>2
    <3>2. CASE ~Live(sw.m) /\ ord' = ord
      BY <2>2, <3>2, SameOrders DEF LiveOn
    <3> QED
      BY <1>3, <3>1, <3>2 DEF GraceLapses
  <2>4. sw'.pc = "selldown"
    BY <1>0, <1>3, FrameGoes DEF GraceLapses
  <2>5. FrameSpot'
    BY <2>3, <2>4 DEF FrameSpot
  <2> QED
    BY <2>1, <2>3, <2>5, SpotMoves
<1> QED
  BY <1>1, <1>2, <1>3 DEF GraceStep

LEMMA SpotUnderEnsure ==
    ASSUME "cancel_fails" \notin StopFaults, StopTypeOK, SpotFree, EnsureStep
    PROVE  SpotFree'
<1>0. sw \in SweepType /\ ord \in [Id -> OrderType]
  BY FrameInt DEF StopTypeOK, VenueTyped
<1> USE DEF SweepPlace, commands
<1>1. ASSUME NoStopsNow PROVE SpotFree'
  <2>1. sw.pc = "ensure" /\ sw'.pc = "idle" /\ ord' = ord /\ UNCHANGED <<known, grace, task, lock, op, renew>>
    BY <1>1, FrameRests DEF NoStopsNow, world, memory
  <2>2. FrameSpot'
    BY <2>1 DEF FrameSpot
  <2> QED
    BY <2>1, <2>2, SameOrders, SpotMoves
<1>2. ASSUME EnsureStops PROVE SpotFree'
  <2>1. sw' = [sw EXCEPT !.pc = "clear", !.perp = dbPerp, !.spot = dbSpot]
    BY <1>2 DEF EnsureStops, Sweep
  <2>2. sw'.pc = "clear"
    BY <1>0, <2>1 DEF SweepType
  <2>3. /\ ord' = ord /\ UNCHANGED <<known, grace, task, op, renew>>
        /\ task.kind = "none" /\ grace = NoGrace
    BY <1>2 DEF EnsureStops, StopsWanted, world, memory
  <2>4. FrameSpot'
    BY <2>2 DEF FrameSpot
  <2> QED
    BY <2>2, <2>3, <2>4, SameOrders, SpotFewer
<1>3. ASSUME ClearStops PROVE SpotFree'
  <2>1. ord' = AllCancelled /\ UNCHANGED <<known, grace, task, lock, op, renew>> /\ sw.pc = "clear"
    BY <1>3 DEF ClearStops, memory
  <2>2. LiveOn("spot")' = {} /\ sw'.pc = "armperp"
    BY <1>0, <1>3, <2>1, CancelledAll, FrameGoes DEF ClearStops
  <2>3. FrameSpot'
    BY <2>2 DEF FrameSpot
  <2> QED
    BY <2>1, <2>2, <2>3, SpotMoves
<1>4. ASSUME ArmPerp PROVE SpotFree'
  <2>1. sw.pc = "armperp" /\ UNCHANGED <<known, grace, task, lock, op, renew>>
    BY <1>4 DEF ArmPerp, memory
  <2>2. LiveOn("spot") = {}
    BY <2>1 DEF SpotFree
  <2>3. LiveOn("spot")' = {}
    <3>1. CASE ord' = ord
      BY <2>2, <3>1, SameOrders
    <3>2. CASE ord' = Placing("perp", sw.perp)
      BY <1>0, <2>2, <3>2, FrameInt, PlacedOne
    <3> QED
      BY <1>4, <3>1, <3>2 DEF ArmPerp
  <2>4. FrameSpot'
    BY <1>0, <1>4, <2>3 DEF FrameSpot, ArmPerp, Sweep, SweepType
  <2> QED
    BY <2>1, <2>2, <2>3, <2>4, SpotMoves
<1>5. ASSUME ArmSpot PROVE SpotFree'
  <2>1. sw.pc = "armspot" /\ UNCHANGED <<grace, task, op, renew>> /\ sw'.pc = "idle" /\ lock' = "none"
    BY <1>5, FrameRests DEF ArmSpot
  <2>2. LiveOn("spot") = {} /\ grace = NoGrace /\ lock = "sweep" /\ op # "cancelled"
        /\ task.kind \notin {"exit", "selldown"} /\ renew.pc \notin {"perp", "spot"}
    BY <2>1 DEF SpotFree, StopTypeOK, LockHeld
  <2>3. /\ \A o, p \in LiveOn("spot")' : o = p
        /\ known'.m # 0 => LiveOn("spot")' \subseteq {known'.m}
    <3>1. CASE ord' = ord
      BY <2>2, <3>1, SameOrders
    <3>2. CASE ord' = Placing("spot", sw.spot) /\ known' = [a |-> sw.a, m |-> Placed + 1]
      BY <1>0, <2>2, <3>2, FrameInt, PlacedOne
    <3> QED
      BY <1>5, <3>1, <3>2 DEF ArmSpot
  <2> QED
    BY <2>1, <2>2, <2>3 DEF SpotFree, ExitNotLocked
<1> QED
  BY <1>1, <1>2, <1>3, <1>4, <1>5 DEF EnsureStep

LEMMA SpotUnderCommands ==
    ASSUME "cancel_fails" \notin StopFaults, StopTypeOK, SpotFree, Apart,
           CommandGoesOn \/ Command \/ RenewGoesOn \/ Restart
    PROVE  SpotFree'
<1>0. ord \in [Id -> OrderType]
  BY DEF StopTypeOK, VenueTyped
<1> USE DEF commands
<1>1. ASSUME NEW f \in ExitFloors, AskClose(f) PROVE SpotFree'
  <2>1. /\ ord' = ord /\ UNCHANGED <<sw, known, grace, task, lock, renew>> /\ op' = "stops"
    BY <1>1 DEF AskClose, world, memory
  <2>2. FrameSpot' /\ (lock' = "sweep" => task'.kind \notin {"exit", "selldown"})
    BY <2>1, SameOrders DEF FrameSpot, SpotFree
  <2>3. grace' = NoGrace \/ (grace'.m = grace.m /\ grace # NoGrace /\ sw'.pc \in {"idle", "grace"})
    BY <2>1 DEF SpotFree
  <2> QED
    BY <2>1, <2>2, <2>3, SameOrders, SpotFewer
<1>2. ASSUME CancelStops PROVE SpotFree'
  <2>1. /\ ord' = AllCancelled /\ UNCHANGED <<sw, known, task, renew>> /\ grace' = NoGrace /\ lock' = "op"
    BY <1>2 DEF CancelStops
  <2>2. LiveOn("spot")' = {}
    BY <1>0, <2>1, CancelledAll
  <2>3. FrameSpot'
    BY <2>2 DEF FrameSpot
  <2> QED
    BY <2>1, <2>2, <2>3, SpotFewer
<1>3. ASSUME StartClose PROVE SpotFree'
  <2>1. /\ op = "cancelled" /\ ord' = ord /\ UNCHANGED <<sw, grace, renew>> /\ known' = NoStops
        /\ lock' = "none" /\ op' = "none"
    BY <1>3 DEF StartClose, world
  <2>2. LiveOn("spot") = {} /\ LiveOn("spot")' = {}
    BY <2>1, SameOrders DEF SpotFree
  <2>3. FrameSpot'
    BY <2>2 DEF FrameSpot
  <2>4. grace' = NoGrace \/ (grace'.m = grace.m /\ grace # NoGrace /\ sw'.pc \in {"idle", "grace"})
    BY <2>1 DEF SpotFree
  <2> QED
    BY <2>1, <2>2, <2>3, <2>4, SpotFewer DEF NoStops
<1>4. ASSUME StandDown \/ AskAdd PROVE SpotFree'
  <2>1. /\ ord' = ord /\ UNCHANGED <<sw, known, grace, lock, op, renew>>
        /\ task'.kind \in {"none", "add"}
    BY <1>4 DEF StandDown, AskAdd, NoTask, world, memory
  <2> QED
    BY <2>1, SameOrders, SpotUntouched
<1>5. ASSUME Restart PROVE SpotFree'
  <2>1. /\ ord' = ord /\ known' = known /\ grace' = NoGrace /\ task'.kind = "none" /\ lock' = "none"
        /\ sw'.pc = "idle" /\ op' # "cancelled" /\ renew'.pc = "none"
    BY <1>5, FrameRests DEF Restart, NoTask, NoRenew, StopTypeOK, EngineTyped
  <2>2. FrameSpot'
    BY <2>1 DEF FrameSpot
  <2> QED
    BY <2>1, <2>2, SameOrders, SpotFewer
<1>6. ASSUME AskStops PROVE SpotFree'
  <2>1. /\ ord' = ord /\ UNCHANGED <<sw, known, grace, task, lock, op>> /\ renew'.pc = "wait"
    BY <1>6 DEF AskStops, NoRenew, world, memory
  <2> QED
    BY <2>1, SameOrders, SpotUntouched
<1>7. ASSUME RenewGoesOn PROVE SpotFree'
  <2>0. /\ renew.pc # "none" /\ UNCHANGED <<sw, grace, task, op>> /\ lock' \in {"renew", "none"}
        /\ lock' = "renew" \/ sw.pc \notin {"clear", "armperp", "armspot"}
    BY <1>7
    DEF RenewGoesOn, RenewClears, RenewPerp, RenewSpot, memory, StopTypeOK, LockHeld
  <2>1. /\ grace = NoGrace /\ op # "cancelled" /\ task.kind \notin {"exit", "selldown"}
        /\ sw.pc \notin {"grace", "lapse", "which", "twin", "selldown"}
    BY <2>0 DEF Apart, Fired
  <2>2. CASE RenewClears
    <3>1. ord' = AllCancelled /\ known' = known
      BY <2>2 DEF RenewClears, memory
    <3>2. LiveOn("spot")' = {}
      BY <1>0, <3>1, CancelledAll
    <3>3. FrameSpot'
      BY <3>2 DEF FrameSpot
    <3> QED
      BY <2>0, <2>1, <3>1, <3>2, <3>3, SpotFewer
  <2>3. CASE RenewPerp
    <3>1. LiveOn("spot") = {} /\ known' = known /\ renew.perp \in Int
      BY <2>3 DEF RenewPerp, memory, SpotFree, StopTypeOK, EngineTyped, RenewType
    <3>2. LiveOn("spot")' = {}
      <4>1. CASE ord' = ord
        BY <3>1, <4>1, SameOrders
      <4>2. CASE ord' = Placing("perp", renew.perp)
        BY <1>0, <3>1, <4>2, PlacedOne
      <4> QED
        BY <2>3, <4>1, <4>2 DEF RenewPerp
    <3>3. FrameSpot'
      BY <3>2 DEF FrameSpot
    <3> QED
      BY <2>0, <2>1, <3>1, <3>2, <3>3, SpotFewer
  <2>4. CASE RenewSpot
    <3>1. /\ LiveOn("spot") = {} /\ renew.spot \in Int /\ renew'.pc = "none" /\ lock' = "none"
          /\ sw.pc \notin {"armperp", "armspot"}
      BY <2>4 DEF RenewSpot, NoRenew, SpotFree, StopTypeOK, EngineTyped, RenewType, LockHeld
    <3>2. /\ \A o, p \in LiveOn("spot")' : o = p
          /\ known'.m # 0 => LiveOn("spot")' \subseteq {known'.m}
      <4>1. CASE ord' = ord
        BY <3>1, <4>1, SameOrders
      <4>2. CASE ord' = Placing("spot", renew.spot) /\ known' = [a |-> renew.a, m |-> Placed + 1]
        BY <1>0, <3>1, <4>2, PlacedOne
      <4> QED
        BY <2>4, <4>1, <4>2 DEF RenewSpot
    <3> QED
      BY <2>0, <2>1, <3>1, <3>2 DEF SpotFree, ExitNotLocked
  <2> QED
    BY <1>7, <2>2, <2>3, <2>4 DEF RenewGoesOn
<1> QED
  BY <1>1, <1>2, <1>3, <1>4, <1>5, <1>6, <1>7 DEF CommandGoesOn, Command

LEMMA SpotFreeInvariance ==
    ASSUME {"cancel_fails", "stops_cut_in"} \cap StopFaults = {}
    PROVE  StopSpec => []SpotFree
<1>1. StopInit => SpotFree
  <2> SUFFICES ASSUME StopInit PROVE SpotFree
    OBVIOUS
  <2>1. sw.pc = "idle" /\ lock = "none" /\ op = "none" /\ grace = NoGrace /\ renew.pc = "none"
    BY DEF StopInit, Asleep, NoRenew
  <2>2. LiveOn("spot") = {}
    BY DEF StopInit, LiveOn, Live
  <2> QED
    BY <2>1, <2>2 DEF SpotFree, ExitNotLocked
<1>2. StopTypeOK /\ Apart /\ SpotFree /\ [StopNext]_stopVars => SpotFree'
  <2> SUFFICES ASSUME StopTypeOK, Apart, SpotFree, [StopNext]_stopVars PROVE SpotFree'
    OBVIOUS
  <2>1. CASE UNCHANGED stopVars
    BY <2>1, SameOrders, SpotUntouched DEF stopVars, world, memory, commands
  <2>2. CASE StopNext
    BY <2>2, SpotUnderVenue, SpotUnderTasks, SpotUnderSpotStop, SpotUnderGuard, SpotUnderGrace,
       SpotUnderEnsure, SpotUnderCommands
    DEF StopNext, SweepStep
  <2> QED
    BY <2>1, <2>2
<1>3. StopSpec => []Apart
  BY ApartInvariance
<1> QED
  BY <1>1, <1>2, <1>3, StopTypes, PTL DEF StopSpec

\* As long as one of cancel and listing works and /stops does not cut in, no run
\* that sells finds a sell LIMIT of the stops in its way, whatever else fails and
\* whenever the engine restarts: the lock keeps the sweep from arming stops while a
\* close begins, and the guard's sell-down begins when what memory, the grace window
\* or the listing knew of is gone.
THEOREM SpotIsFreeToSell ==
    ASSUME {"cancel_fails", "stops_cut_in"} \cap StopFaults = {}
    PROVE  StopSpec => []ExitNotLocked
<1>1. SpotFree => ExitNotLocked
  BY DEF SpotFree
<1> QED
  BY <1>1, SpotFreeInvariance, PTL

-------------------------------------------------------------------------------
(***************************************************************************)
(* One perp stop, or the buy-back, rests at a time.                        *)
(***************************************************************************)

FramePerp ==
    /\ sw.pc \in {"perp", "disarm", "armspot"} => LiveOn("perp") \subseteq {sw.a}
    /\ sw.pc \in {"sold", "buyback", "armperp"} => LiveOn("perp") = {}

\* Steps that place no order on the perp leg.
LEMMA PerpFewer ==
    ASSUME PerpSingle, LiveOn("perp")' \subseteq LiveOn("perp"), FramePerp',
           known' = known \/ known'.m = 0,
           sw.pc # "armspot" \/ sw'.pc = "armspot",
           renew' = renew \/ (renew.pc # "spot" /\ renew'.pc \notin {"perp", "spot"})
    PROVE  PerpSingle'
<1>1. known'.m # 0 /\ sw'.pc # "armspot" /\ renew'.pc # "spot" => LiveOn("perp")' \subseteq {known'.a}
  BY DEF PerpSingle
<1>2. /\ \A o, p \in LiveOn("perp")' : o = p
      /\ renew'.pc = "perp" => LiveOn("perp")' = {}
      /\ renew'.pc = "spot" => LiveOn("perp")' \subseteq {renew'.a}
  BY DEF PerpSingle
<1> QED
  BY <1>1, <1>2 DEF FramePerp, PerpSingle

LEMMA PerpUntouched ==
    ASSUME PerpSingle, LiveOn("perp")' \subseteq LiveOn("perp"), sw' = sw,
           known' = known \/ known'.m = 0,
           renew' = renew \/ (renew.pc # "spot" /\ renew'.pc \notin {"perp", "spot"})
    PROVE  PerpSingle'
<1>1. FramePerp'
  BY DEF FramePerp, PerpSingle
<1> QED
  BY <1>1, PerpFewer

LEMMA SingleUnderVenue ==
    ASSUME StopTypeOK, PerpSingle, VenueMoves \/ VenueTidies \/ RefreshRisk \/ TaskWorks
    PROVE  PerpSingle'
<1>0. ord \in [Id -> OrderType]
  BY DEF StopTypeOK, VenueTyped
<1> USE DEF commands
<1>1. ASSUME NEW o \in Id, NEW k \in 1..(Held + MaxOps), OrderFills(o, k) PROVE PerpSingle'
  <2>1. k \in Nat /\ ord[o].st = "live"
    BY <1>1, StopConstants, StopAssumption DEF OrderFills, Live
  <2>2. PICK st \in {"live", "filled", "dead"} :
           ord' = [ord EXCEPT ![o].exec = @ + k, ![o].st = st]
    BY <1>1 DEF OrderFills
  <2>3. LiveOn("perp")' \subseteq LiveOn("perp")
    BY <1>0, <2>1, <2>2, OrderMoves
  <2> QED
    BY <1>1, <2>3, PerpUntouched DEF OrderFills, memory
<1>2. ASSUME NEW o \in Id, OrderLapses(o) PROVE PerpSingle'
  <2>1. LiveOn("perp")' = LiveOn("perp") \ {o}
    BY <1>0, <1>2, OrderDies DEF OrderLapses
  <2> QED
    BY <1>2, <2>1, PerpUntouched DEF OrderLapses, memory
<1>3. ASSUME NEW k \in 1..Held, Reduced(k) PROVE PerpSingle'
  BY <1>3, SameOrders, PerpUntouched DEF Reduced, memory
<1>4. ASSUME RefreshRisk \/ TaskWorks PROVE PerpSingle'
  <2>1. ord' = ord /\ UNCHANGED <<sw, known, renew>>
    BY <1>4 DEF RefreshRisk, TaskWorks, TaskTrades, TaskBuys, TaskSells, TaskEnds, AddEnds, world, memory
  <2> QED
    BY <2>1, SameOrders, PerpUntouched
<1> QED
  BY <1>1, <1>2, <1>3, <1>4 DEF VenueMoves, VenueTidies

LEMMA SingleUnderSpotStop ==
    ASSUME {"lost_reply", "stops_cut_in"} \cap StopFaults = {}, StopTypeOK, PerpSingle, Apart,
           SweepBegins \/ SpotStopStep \/ NoBalance \/ CheckBalance
    PROVE  PerpSingle'
<1>0. sw \in SweepType /\ ord \in [Id -> OrderType]
  BY FrameInt DEF StopTypeOK, VenueTyped
<1> USE DEF SweepPlace, commands
<1>1. ASSUME SweepBegins \/ NoPoll \/ NoBalance \/ CheckBalance PROVE PerpSingle'
  <2>1. ord' = ord /\ UNCHANGED <<known, renew>> /\ sw.pc # "armspot"
    BY <1>1 DEF SweepBegins, NoPoll, NoBalance, CheckBalance, world, memory
  <2>2. sw'.pc \in {"stop", "grace", "guard", "balance", "idle"}
    <3>1. CASE SweepBegins
      BY <3>1 DEF SweepBegins, Sweep, Asleep
    <3>2. CASE NoPoll
      BY <1>0, <3>2, FrameGoes DEF NoPoll, Sweep, SweepType
    <3>3. CASE NoBalance \/ CheckBalance
      BY <1>0, <3>3, FrameGoes DEF NoBalance, CheckBalance
    <3> QED
      BY <1>1, <3>1, <3>2, <3>3
  <2>3. FramePerp'
    BY <2>2 DEF FramePerp
  <2> QED
    BY <2>1, <2>3, SameOrders, PerpFewer
<1>2. ASSUME PollSpotStop PROVE PerpSingle'
  <2>1. ord' = ord /\ UNCHANGED <<known, renew>> /\ sw.pc = "stop" /\ known.m # 0
    BY <1>2 DEF PollSpotStop, MinePolls, world, memory
  <2>2. sw'.pc = "balance" \/ (sw'.pc = "perp" /\ sw'.a = known.a /\ renew.pc = "none")
    <3>1. \/ sw' = [sw EXCEPT !.pc = "perp", !.a = known.a, !.m = known.m] /\ renew.pc = "none"
          \/ Goes("balance")
      BY <1>2 DEF PollSpotStop, Sweep, CutIn
    <3> QED
      BY <1>0, <3>1, FrameGoes DEF SweepType
  <2>3. renew.pc = "none" => LiveOn("perp") \subseteq {known.a}
    BY <2>1 DEF PerpSingle
  <2>4. FramePerp'
    BY <2>1, <2>2, <2>3, SameOrders DEF FramePerp
  <2> QED
    BY <2>1, <2>4, SameOrders, PerpFewer
<1>3. ASSUME PollPerpStop PROVE PerpSingle'
  <2>1. ord' = ord /\ UNCHANGED <<known, renew>> /\ sw.pc = "perp"
    BY <1>3 DEF PollPerpStop, world, memory
  <2>2. LiveOn("perp") \subseteq {sw.a} /\ LiveOn("perp") \subseteq Id /\ 0 \notin Id
    BY <2>1 DEF PerpSingle, LiveOn, Id
  <2>3. \/ sw'.pc = "balance" \/ (sw'.pc = "disarm" /\ sw'.a = sw.a)
        \/ sw'.pc = "sold" /\ (sw.a = 0 \/ ~Live(sw.a))
    <3>1. Goes("balance") \/ Goes("disarm") \/ (Goes("sold") /\ (sw.a = 0 \/ ~Live(sw.a)))
      BY <1>3 DEF PollPerpStop
    <3> QED
      BY <1>0, <3>1, FrameGoes
  <2>4. sw.a = 0 \/ ~Live(sw.a) => LiveOn("perp") = {}
    BY <2>2 DEF LiveOn
  <2>5. FramePerp'
    BY <2>1, <2>2, <2>3, <2>4, SameOrders DEF FramePerp
  <2> QED
    BY <2>1, <2>5, SameOrders, PerpFewer
<1>4. ASSUME Disarm PROVE PerpSingle'
  <2>1. UNCHANGED <<known, renew>> /\ sw.pc = "disarm" /\ LiveOn("perp") \subseteq {sw.a}
    BY <1>4 DEF Disarm, memory, PerpSingle
  <2>2. CASE Live(sw.a) /\ ord' = [ord EXCEPT ![sw.a].st = "dead"]
    <3>1. sw.a \in Id
      BY <2>2 DEF Live
    <3>2. LiveOn("perp")' = LiveOn("perp") \ {sw.a}
      BY <1>0, <2>2, <3>1, OrderDies
    <3>3. LiveOn("perp")' = {}
      BY <2>1, <3>2
    <3>4. sw'.pc \in {"sold", "balance"}
      BY <1>0, <1>4, FrameGoes DEF Disarm
    <3>5. FramePerp'
      BY <3>3, <3>4 DEF FramePerp
    <3> QED
      BY <2>1, <3>3, <3>5, PerpFewer
  <2>3. CASE Goes("balance") /\ ord' = ord
    <3>1. FramePerp'
      BY <1>0, <2>3, FrameGoes DEF FramePerp
    <3> QED
      BY <2>1, <2>3, <3>1, SameOrders, PerpFewer
  <2> QED
    BY <1>4, <2>2, <2>3 DEF Disarm
<1>5. ASSUME BookSpotStop PROVE PerpSingle'
  <2>1. ord' = ord /\ UNCHANGED <<known, renew>> /\ sw.pc = "sold" /\ LiveOn("perp") = {}
    BY <1>5 DEF BookSpotStop, world, memory, PerpSingle
  <2>2. sw'.pc \in {"buyback", "balance"}
    BY <1>0, <1>5, FrameGoes DEF BookSpotStop
  <2>3. FramePerp'
    BY <2>1, <2>2, SameOrders DEF FramePerp
  <2> QED
    BY <2>1, <2>3, SameOrders, PerpFewer
<1>6. ASSUME BuyBack PROVE PerpSingle'
  <2> DEFINE q == Min({sw.perp, Executed(sw.m)})
  <2>1. q \in Int
    <3>1. Executed(sw.m) \in Int /\ sw.perp \in Int
      BY FrameInt
    <3> QED
      BY <3>1, SmallerOf
  <2>2. sw.pc = "buyback" /\ LiveOn("perp") = {} /\ renew' = renew /\ renew.pc = "none"
    BY <1>6 DEF BuyBack, PerpSingle, Apart, Fired
  <2>3. sw'.pc = "guard"
    BY <1>0, <1>6 DEF BuyBack, Sweep, SweepType
  <2>4. FramePerp'
    BY <2>3 DEF FramePerp
  <2>5. CASE ord' = ord /\ UNCHANGED <<known, renew>>
    BY <2>2, <2>4, <2>5, SameOrders, PerpFewer
  <2>6. CASE ord' = Placing("perp", q) /\ known' = [known EXCEPT !.a = Placed + 1, !.m = 0]
    <3>1. LiveOn("perp")' \subseteq {Placed + 1}
      BY <1>0, <2>1, <2>2, <2>6, PlacedOne
    <3>2. known'.m = 0
      BY <2>6 DEF StopTypeOK, EngineTyped, StopsType
    <3> QED
      BY <2>2, <2>3, <3>1, <3>2 DEF PerpSingle
  <2> QED
    BY <1>6, <2>5, <2>6 DEF BuyBack
<1> QED
  BY <1>1, <1>2, <1>3, <1>4, <1>5, <1>6 DEF SpotStopStep

LEMMA SingleUnderGuard ==
    ASSUME "cancel_fails" \notin StopFaults, StopTypeOK, PerpSingle, GuardStep \/ GraceStep
    PROVE  PerpSingle'
<1>0. sw \in SweepType /\ ord \in [Id -> OrderType]
  BY FrameInt DEF StopTypeOK, VenueTyped
<1> USE DEF SweepPlace, commands
<1>1. sw.pc # "armspot" /\ (known' = known \/ known'.m = 0) /\ renew' = renew
  <2>1. ASSUME NEW over \in BOOLEAN, GraceLooks(over)
        PROVE  sw.pc = "grace" /\ UNCHANGED <<known, renew>>
    BY <2>1, Zenon DEF GraceLooks
  <2>2. ASSUME GuardStep \/ GraceLookupFails \/ GraceLapses
        PROVE  sw.pc # "armspot" /\ (known' = known \/ known' = NoStops) /\ renew' = renew
    BY <2>2
    DEF GuardStep, GuardPasses, GuardStarts, GuardWaits, GuardActs, Confirmed, DeficitSeen,
        BookPerp, BookTwin, GuardFinishes, FreeTheSpot, StartSellDown, GraceLookupFails,
        GraceLapses, memory
  <2> QED
    BY <2>1, <2>2 DEF GraceStep, NoStops
<1>2. sw'.pc \in {"idle", "ensure", "which", "twin", "finish", "free", "selldown", "lapse"}
  <2>1. ASSUME GuardActs PROVE sw'.pc = "which"
    BY <1>0, <2>1 DEF GuardActs, Sweep, SweepType
  <2>2. \/ Rest \/ PastGuard \/ GuardActs
        \/ \E pc \in {"twin", "finish", "free", "selldown", "lapse"} : Goes(pc)
    BY Zenon
    DEF GuardStep, GuardPasses, GuardStarts, GuardWaits, BookPerp, BookTwin, GuardFinishes,
        FreeTheSpot, StartSellDown, GraceStep, GraceLooks, GraceLookupFails, GraceLapses
  <2> QED
    BY <1>0, <2>1, <2>2, FrameRests, FramePassesGuard, FrameGoes
<1>3. LiveOn("perp")' \subseteq LiveOn("perp")
  <2>1. ord' = ord \/ ord' = AllCancelled \/ GraceLapses
    BY Zenon
    DEF GuardStep, GuardPasses, GuardStarts, GuardWaits, GuardActs, BookPerp, BookTwin,
        GuardFinishes, FreeTheSpot, StartSellDown, GraceStep, GraceLooks, GraceLookupFails, world
  <2>2. ASSUME GraceLapses PROVE LiveOn("perp")' \subseteq LiveOn("perp")
    <3>1. CASE Live(sw.m) /\ ord' = [ord EXCEPT ![sw.m].st = "dead"]
      <4>1. sw.m \in Id
        BY <3>1 DEF Live
      <4>2. LiveOn("perp")' = LiveOn("perp") \ {sw.m}
        BY <1>0, <3>1, <4>1, OrderDies
      <4> QED
        BY <4>2
    <3>2. CASE ord' = ord
      BY <3>2, SameOrders
    <3> QED
      BY <2>2, <3>1, <3>2 DEF GraceLapses
  <2> QED
    BY <1>0, <2>1, <2>2, SameOrders, CancelledAll
<1>4. FramePerp'
  BY <1>2 DEF FramePerp
<1> QED
  BY <1>1, <1>3, <1>4, PerpFewer

LEMMA SingleUnderEnsure ==
    ASSUME "cancel_fails" \notin StopFaults, StopTypeOK, PerpSingle, EnsureStep
    PROVE  PerpSingle'
<1>0. sw \in SweepType /\ ord \in [Id -> OrderType]
  BY FrameInt DEF StopTypeOK, VenueTyped
<1> USE DEF SweepPlace, commands
<1>1. ASSUME NoStopsNow \/ EnsureStops PROVE PerpSingle'
  <2>1. ord' = ord /\ UNCHANGED <<known, renew>> /\ sw.pc = "ensure"
    BY <1>1 DEF NoStopsNow, EnsureStops, world, memory
  <2>2. sw'.pc \in {"idle", "clear"}
    BY <1>0, <1>1, FrameRests DEF NoStopsNow, EnsureStops, Sweep, SweepType
  <2>3. FramePerp'
    BY <2>2 DEF FramePerp
  <2> QED
    BY <2>1, <2>3, SameOrders, PerpFewer
<1>2. ASSUME ClearStops PROVE PerpSingle'
  <2>1. ord' = AllCancelled /\ UNCHANGED <<known, renew>> /\ sw.pc = "clear"
    BY <1>2 DEF ClearStops, memory
  <2>2. LiveOn("perp")' = {}
    BY <1>0, <2>1, CancelledAll
  <2>3. sw'.pc = "armperp"
    BY <1>0, <1>2, FrameGoes DEF ClearStops
  <2>4. FramePerp'
    BY <2>2, <2>3 DEF FramePerp
  <2> QED
    BY <2>1, <2>2, <2>4, PerpFewer
<1>3. ASSUME ArmPerp PROVE PerpSingle'
  <2>1. LiveOn("perp") = {} /\ renew'.pc \notin {"perp", "spot"}
    BY <1>3 DEF ArmPerp, PerpSingle, StopTypeOK, LockHeld
  <2>2. sw'.pc = "armspot"
    BY <1>0, <1>3 DEF ArmPerp, Sweep, SweepType
  <2>3. LiveOn("perp")' \subseteq {sw'.a}
    <3>1. CASE ord' = ord
      BY <2>1, <3>1, SameOrders
    <3>2. CASE ord' = Placing("perp", sw.perp) /\ Sweep([sw EXCEPT !.pc = "armspot", !.a = Placed + 1])
      <4>1. sw'.a = Placed + 1
        BY <1>0, <3>2 DEF Sweep, SweepType
      <4>2. LiveOn("perp")' \subseteq {Placed + 1}
        BY <1>0, <2>1, <3>2, FrameInt, PlacedOne
      <4> QED
        BY <4>1, <4>2
    <3> QED
      BY <1>3, <3>1, <3>2 DEF ArmPerp
  <2> QED
    BY <2>1, <2>2, <2>3 DEF PerpSingle
<1>4. ASSUME ArmSpot PROVE PerpSingle'
  <2>1. sw.pc = "armspot" /\ sw'.pc = "idle" /\ LiveOn("perp") \subseteq {sw.a} /\ known'.a = sw.a
    BY <1>4, FrameRests DEF ArmSpot, PerpSingle
  <2>0. renew'.pc \notin {"perp", "spot"}
    BY <1>4 DEF ArmSpot, StopTypeOK, LockHeld
  <2>2. LiveOn("perp")' \subseteq LiveOn("perp")
    <3>1. CASE ord' = ord
      BY <3>1, SameOrders
    <3>2. CASE ord' = Placing("spot", sw.spot)
      BY <1>0, <3>2, FrameInt, PlacedOne
    <3> QED
      BY <1>4, <3>1, <3>2 DEF ArmSpot
  <2> QED
    BY <2>0, <2>1, <2>2 DEF PerpSingle
<1> QED
  BY <1>1, <1>2, <1>3, <1>4 DEF EnsureStep

LEMMA SingleUnderCommands ==
    ASSUME {"cancel_fails", "dies_between"} \cap StopFaults = {}, StopTypeOK, PerpSingle, Apart,
           CommandGoesOn \/ Command \/ RenewGoesOn \/ Restart
    PROVE  PerpSingle'
<1> USE DEF commands
<1>0. ord \in [Id -> OrderType]
  BY DEF StopTypeOK, VenueTyped
<1>1. ASSUME CommandGoesOn \/ Command PROVE PerpSingle'
  <2>1. /\ sw' = sw /\ (known' = known \/ known'.m = 0)
        /\ ord' = ord \/ ord' = AllCancelled
        /\ renew' = renew \/ (renew.pc = "none" /\ renew'.pc = "wait")
    <3>1. CASE CommandGoesOn
      BY <3>1 DEF CommandGoesOn, CancelStops, StartClose, world, NoStops
    <3>2. CASE AskStops
      BY <3>2 DEF AskStops, world, memory, NoRenew
    <3>3. CASE (\E f \in ExitFloors : AskClose(f)) \/ StandDown \/ AskAdd
      BY <3>3 DEF AskClose, StandDown, AskAdd, world, memory
    <3> QED
      BY <1>1, <3>1, <3>2, <3>3 DEF Command
  <2>2. LiveOn("perp")' \subseteq LiveOn("perp")
    BY <2>1, SameOrders, CancelledAll DEF StopTypeOK, VenueTyped
  <2> QED
    BY <2>1, <2>2, PerpUntouched
<1>3. ASSUME RenewGoesOn PROVE PerpSingle'
  <2>1. renew.pc # "none" /\ sw' = sw
    BY <1>3 DEF RenewGoesOn, RenewClears, RenewPerp, RenewSpot
  <2>2. sw.pc \notin {"perp", "disarm", "sold", "buyback"}
    BY <2>1 DEF Apart, Fired
  <2>3. CASE RenewClears
    <3>1. ord' = AllCancelled /\ renew'.pc = "perp"
      BY <2>3 DEF RenewClears, StopTypeOK, EngineTyped, RenewType
    <3>2. LiveOn("perp")' = {}
      BY <1>0, <3>1, CancelledAll
    <3> QED
      BY <3>1, <3>2 DEF PerpSingle
  <2>4. CASE RenewPerp
    <3>1. /\ renew.pc = "perp" /\ LiveOn("perp") = {} /\ renew.perp \in Int
          /\ sw.pc \notin {"armperp", "armspot"}
      BY <2>4 DEF RenewPerp, PerpSingle, StopTypeOK, EngineTyped, RenewType, LockHeld
    <3>2. renew'.pc = "spot" /\ LiveOn("perp")' \subseteq {renew'.a}
      <4>1. CASE ord' = ord /\ renew' = [renew EXCEPT !.pc = "spot"]
        BY <3>1, <4>1, SameOrders DEF StopTypeOK, EngineTyped, RenewType
      <4>2. CASE /\ ord' = Placing("perp", renew.perp)
                 /\ renew' = [renew EXCEPT !.pc = "spot", !.a = Placed + 1]
        <5>1. LiveOn("perp")' \subseteq {Placed + 1}
          BY <1>0, <3>1, <4>2, PlacedOne
        <5>2. renew'.pc = "spot" /\ renew'.a = Placed + 1
          BY <4>2 DEF StopTypeOK, EngineTyped, RenewType
        <5> QED
          BY <5>1, <5>2
      <4> QED
        BY <2>4, <4>1, <4>2 DEF RenewPerp
    <3> QED
      BY <2>1, <2>2, <3>1, <3>2 DEF PerpSingle
  <2>5. CASE RenewSpot
    <3>1. /\ LiveOn("perp") \subseteq {renew.a} /\ known'.a = renew.a /\ renew.spot \in Int
          /\ renew'.pc = "none" /\ sw.pc \notin {"armperp", "armspot"}
      BY <2>5 DEF RenewSpot, NoRenew, PerpSingle, StopTypeOK, EngineTyped, RenewType, LockHeld
    <3>2. LiveOn("perp")' \subseteq LiveOn("perp")
      <4>1. CASE ord' = ord
        BY <4>1, SameOrders
      <4>2. CASE ord' = Placing("spot", renew.spot)
        BY <1>0, <3>1, <4>2, PlacedOne
      <4> QED
        BY <2>5, <4>1, <4>2 DEF RenewSpot
    <3> QED
      BY <2>1, <2>2, <3>1, <3>2 DEF PerpSingle
  <2> QED
    BY <1>3, <2>3, <2>4, <2>5 DEF RenewGoesOn
<1>2. ASSUME Restart PROVE PerpSingle'
  <2>1. sw.pc # "armspot" /\ sw'.pc = "idle" /\ UNCHANGED <<known, ord>> /\ renew.pc # "spot" /\ renew'.pc = "none"
    BY <1>2, FrameRests DEF Restart, NoRenew, StopTypeOK, EngineTyped
  <2>2. FramePerp'
    BY <2>1 DEF FramePerp
  <2> QED
    BY <2>1, <2>2, SameOrders, PerpFewer
<1> QED
  BY <1>1, <1>2, <1>3

LEMMA AtMostOne ==
    ASSUME NEW S, \A o, p \in S : o = p
    PROVE  Cardinality(S) <= 1
<1>1. CASE S = {}
  BY <1>1, FS_EmptySet
<1>2. CASE S # {}
  <2>1. PICK o \in S : S = {o}
    BY <1>2
  <2>2. Cardinality({o}) = 1
    BY FS_Singleton
  <2> QED
    BY <2>1, <2>2
<1> QED
  BY <1>1, <1>2

\* However often the size changes, closes and /stops come and the engine restarts
\* between two orders, at most one stop rests on each leg: as long as cancels work,
\* every placement is answered, no crash separates one from its row, and /stops does
\* not cut in where a stop that fired is handled.
THEOREM StopsAreSingle ==
    ASSUME {"cancel_fails", "lost_reply", "dies_between", "stops_cut_in"} \cap StopFaults = {}
    PROVE  StopSpec => []StopsDoNotStack
<1>1. StopInit => PerpSingle
  <2> SUFFICES ASSUME StopInit PROVE PerpSingle
    OBVIOUS
  <2>1. LiveOn("perp") = {}
    BY DEF StopInit, LiveOn, Live
  <2> QED
    BY <2>1 DEF PerpSingle
<1>2. StopTypeOK /\ Apart /\ PerpSingle /\ [StopNext]_stopVars => PerpSingle'
  <2> SUFFICES ASSUME StopTypeOK, Apart, PerpSingle, [StopNext]_stopVars PROVE PerpSingle'
    OBVIOUS
  <2>1. CASE UNCHANGED stopVars
    BY <2>1, SameOrders, PerpUntouched DEF stopVars, world, memory, commands
  <2>2. CASE StopNext
    BY <2>2, SingleUnderVenue, SingleUnderSpotStop, SingleUnderGuard, SingleUnderEnsure,
       SingleUnderCommands
    DEF StopNext, SweepStep
  <2> QED
    BY <2>1, <2>2
<1>3. SpotFree /\ PerpSingle => StopsDoNotStack
  BY AtMostOne DEF SpotFree, PerpSingle, StopsDoNotStack
<1>4. StopSpec => []SpotFree
  BY SpotFreeInvariance
<1>5. StopSpec => []Apart
  BY ApartInvariance
<1> QED
  BY <1>1, <1>2, <1>3, <1>4, <1>5, StopTypes, PTL DEF StopSpec

-------------------------------------------------------------------------------
(***************************************************************************)
(* The spot leg is booked no lower than the venue.                         *)
(***************************************************************************)

\* Orders that stay, leave the book or are cancelled.
SameLegs ==
    \A o \in Id : /\ ord'[o].st = "none" <=> ord[o].st = "none"
                  /\ ord'[o].leg = ord[o].leg /\ ord'[o].exec = ord[o].exec
Fills == \E o \in Id, k \in 1..(Held + MaxOps) : OrderFills(o, k)
Places == \E leg \in {"perp", "spot"}, q \in Int : ord' = Placing(leg, q)

LEMMA CancelKeepsLegs ==
    ASSUME StopTypeOK, ord' \in {AllCancelled, ord}
    PROVE  SameLegs
  BY CancelledAll DEF StopTypeOK, VenueTyped, SameLegs

LEMMA DeathKeepsLegs ==
    ASSUME StopTypeOK, NEW o \in Id, ord[o].st = "live", ord' = [ord EXCEPT ![o].st = "dead"]
    PROVE  SameLegs
<1>1. ord \in [Id -> OrderType]
  BY DEF StopTypeOK, VenueTyped
<1>2. \A p \in Id : ord'[p].exec = ord[p].exec /\ ord'[p].leg = ord[p].leg
  BY <1>1, OrderDies
<1>3. \A p \in Id : ord'[p].st = "none" <=> ord[p].st = "none"
  BY <1>1 DEF OrderType
<1> QED
  BY <1>2, <1>3 DEF SameLegs

\* What a step does to the orders.
LEMMA OrderSteps ==
    ASSUME StopTypeOK, [StopNext]_stopVars
    PROVE  SameLegs \/ Fills \/ Places
<1>0. ord' = ord => SameLegs
  BY DEF SameLegs
<1>1. ASSUME VenueMoves \/ VenueTidies \/ RefreshRisk PROVE SameLegs \/ Fills
  <2>1. ASSUME NEW o \in Id, OrderLapses(o) PROVE SameLegs
    BY <2>1, DeathKeepsLegs DEF OrderLapses, Live
  <2> QED
    BY <1>0, <1>1, <2>1 DEF VenueMoves, VenueTidies, RefreshRisk, Reduced, Fills
<1>2. ASSUME TaskWorks PROVE SameLegs
  BY <1>0, <1>2 DEF TaskWorks, TaskTrades, TaskBuys, TaskSells, TaskEnds, AddEnds, world
<1>3. ASSUME SweepBegins \/ NoBalance \/ CheckBalance PROVE SameLegs
  BY <1>0, <1>3 DEF SweepBegins, NoBalance, CheckBalance, world
<1>4. ASSUME SpotStopStep PROVE SameLegs \/ Places
  <2>1. ASSUME Disarm PROVE SameLegs
    <3>1. CASE Live(sw.a) /\ ord' = [ord EXCEPT ![sw.a].st = "dead"]
      BY <3>1, DeathKeepsLegs DEF Live
    <3> QED
      BY <1>0, <2>1, <3>1 DEF Disarm
  <2>2. ASSUME BuyBack PROVE SameLegs \/ Places
    <3> DEFINE q == Min({sw.perp, Executed(sw.m)})
    <3>1. q \in Int
      <4>1. Executed(sw.m) \in Int /\ sw.perp \in Int
        BY FrameInt
      <4> QED
        BY <4>1, SmallerOf
    <3>2. ord' = ord \/ ord' = Placing("perp", q)
      BY <2>2 DEF BuyBack
    <3> QED
      BY <1>0, <3>1, <3>2 DEF Places
  <2>3. Disarm \/ BuyBack \/ ord' = ord
    BY <1>4 DEF SpotStopStep, NoPoll, PollSpotStop, PollPerpStop, BookSpotStop, world
  <2> QED
    BY <1>0, <2>1, <2>2, <2>3
<1>5. ASSUME GuardStep PROVE SameLegs
  <2>1. ord' \in {AllCancelled, ord}
    BY <1>5
    DEF GuardStep, GuardPasses, GuardStarts, GuardWaits, GuardActs, BookPerp, BookTwin,
        GuardFinishes, FreeTheSpot, StartSellDown, world
  <2> QED
    BY <2>1, CancelKeepsLegs
<1>6. ASSUME GraceStep PROVE SameLegs
  <2>1. ASSUME GraceLapses PROVE SameLegs
    <3>1. CASE Live(sw.m) /\ ord' = [ord EXCEPT ![sw.m].st = "dead"]
      BY <3>1, DeathKeepsLegs DEF Live
    <3> QED
      BY <1>0, <2>1, <3>1 DEF GraceLapses
  <2>2. GraceLapses \/ ord' = ord
    BY <1>6, Zenon DEF GraceStep, GraceLooks, GraceLookupFails, world
  <2> QED
    BY <1>0, <2>1, <2>2
<1>7. ASSUME EnsureStep PROVE SameLegs \/ Places
  <2>1. \/ ord' \in {AllCancelled, ord}
        \/ ord' = Placing("perp", sw.perp) \/ ord' = Placing("spot", sw.spot)
    BY <1>7 DEF EnsureStep, NoStopsNow, EnsureStops, ClearStops, ArmPerp, ArmSpot, world
  <2> QED
    BY <2>1, CancelKeepsLegs, FrameInt DEF Places
<1>8. ASSUME CommandGoesOn \/ Command \/ RenewClears \/ Restart PROVE SameLegs
  <2>1. ord' \in {AllCancelled, ord}
    BY <1>8
    DEF CommandGoesOn, Command, AskClose, CancelStops, StartClose, StandDown, AskAdd, AskStops,
        RenewClears, Restart, world
  <2> QED
    BY <2>1, CancelKeepsLegs
<1>9. UNCHANGED stopVars => SameLegs
  BY <1>0 DEF stopVars, world
<1>10. ASSUME RenewPerp \/ RenewSpot PROVE SameLegs \/ Places
  <2>1. renew.perp \in Int /\ renew.spot \in Int
    BY DEF StopTypeOK, EngineTyped, RenewType
  <2>2. ord' = ord \/ ord' = Placing("perp", renew.perp) \/ ord' = Placing("spot", renew.spot)
    BY <1>10 DEF RenewPerp, RenewSpot
  <2> QED
    BY <1>0, <2>1, <2>2 DEF Places
<1> QED
  BY <1>1, <1>2, <1>3, <1>4, <1>5, <1>6, <1>7, <1>8, <1>9, <1>10
  DEF StopNext, SweepStep, RenewGoesOn

\* Orders keep their leg and their place; only fills change what they executed.
LEMMA LegsStay ==
    ASSUME StopTypeOK, InTurn, [StopNext]_stopVars
    PROVE  /\ InTurn' /\ Placed <= Placed' /\ Placed \in Nat /\ Placed' \in Nat
           /\ \A o \in Id : o <= Placed => ord'[o].leg = ord[o].leg
           /\ Fills \/ \A o \in Id : o <= Placed => ord'[o].exec = ord[o].exec
<1>0. ord \in [Id -> OrderType] /\ Placed \in Nat /\ \A o \in Id : o \in Nat
  BY PlacedCounts DEF StopTypeOK, VenueTyped, Id
<1>1. CASE SameLegs
  <2>1. Placed' = Placed
    BY <1>1, PlacedStays DEF SameLegs
  <2>2. InTurn'
    BY <1>1, <2>1 DEF SameLegs, InTurn, Id
  <2> QED
    BY <1>0, <1>1, <2>1, <2>2 DEF SameLegs
<1>2. CASE Fills
  <2>1. PICK o \in Id, k \in 1..(Held + MaxOps) : OrderFills(o, k)
    BY <1>2 DEF Fills
  <2>2. k \in Nat /\ ord[o].st = "live"
    BY <2>1, StopConstants, StopAssumption DEF OrderFills, Live
  <2>3. PICK st \in {"live", "filled", "dead"} :
           ord' = [ord EXCEPT ![o].exec = @ + k, ![o].st = st]
    BY <2>1 DEF OrderFills
  <2>4. /\ ord'[o].leg = ord[o].leg /\ ord'[o].st = st
        /\ \A p \in Id : p # o => ord'[p] = ord[p]
    BY <1>0, <2>2, <2>3, OrderMoves
  <2>5. \A p \in Id : ord'[p].st = "none" <=> ord[p].st = "none"
    BY <2>2, <2>4
  <2>6. Placed' = Placed
    BY <2>5, PlacedStays
  <2>7. InTurn'
    BY <2>5, <2>6 DEF InTurn, Id
  <2> QED
    BY <1>0, <1>2, <2>4, <2>6, <2>7
<1>3. CASE Places
  <2>1. PICK leg \in {"perp", "spot"}, q \in Int : ord' = Placing(leg, q)
    BY <1>3 DEF Places
  <2>2. /\ Placed + 1 \in Id => ord'[Placed + 1].st = "live"
        /\ \A o \in Id : o # Placed + 1 => ord'[o] = ord[o]
    BY <1>0, <2>1, PlacedOne
  <2>3. /\ Placed + 1 \in Id => Placed' = Placed + 1
        /\ Placed + 1 \notin Id => Placed' = Placed
    <3> DEFINE S == {o \in Id : ord[o].st # "none"}
               T == {o \in Id : ord'[o].st # "none"}
    <3>1. Placed = Cardinality(S) /\ Placed' = Cardinality(T) /\ IsFiniteSet(S)
      BY StopConstants, FS_Subset DEF Placed, Id
    <3>2. Placed + 1 \notin S
      BY <1>0 DEF InTurn
    <3>3. CASE Placed + 1 \in Id
      <4>1. T = S \cup {Placed + 1}
        BY <2>2, <3>3
      <4> QED
        BY <3>1, <3>2, <3>3, <4>1, FS_AddElement
    <3>4. CASE Placed + 1 \notin Id
      <4>1. T = S
        BY <2>2, <3>4
      <4> QED
        BY <3>1, <3>4, <4>1
    <3> QED
      BY <3>3, <3>4
  <2>4. InTurn'
    <3>1. ASSUME NEW o \in Id PROVE ord'[o].st # "none" <=> o <= Placed'
      BY <1>0, <2>2, <2>3, <3>1 DEF InTurn
    <3> QED
      BY <3>1 DEF InTurn, Id
  <2>5. \A o \in Id : o <= Placed => ord'[o] = ord[o]
    BY <1>0, <2>2
  <2>6. Placed <= Placed' /\ Placed' \in Nat
    BY <1>0, <2>3
  <2> QED
    BY <1>0, <2>4, <2>5, <2>6
<1> QED
  BY <1>1, <1>2, <1>3, OrderSteps

\* Where the names of spot orders come from.
LEMMA NamesCome ==
    ASSUME StopTypeOK, [StopNext]_stopVars
    PROVE  /\ known'.m \in {known.m, 0} \/ ArmSpot \/ RenewSpot
           /\ grace'.m \in {grace.m, sw.m, 0}
           /\ sw'.m \in {sw.m, grace.m, known.m, 0} \cup LiveOn("spot")
<1>0. sw \in SweepType /\ known \in StopsType /\ grace \in GraceType
  BY FrameInt DEF StopTypeOK, EngineTyped
<1> DEFINE Kept == known'.m = known.m /\ grace'.m = grace.m
           Framed == sw'.m \in {sw.m, grace.m, known.m, 0} \cup LiveOn("spot")
<1> USE DEF SweepPlace
<1>r. Rest \/ PastGuard => Framed
  <2>1. Rest => sw'.m = 0
    BY DEF Rest, Sweep, Asleep
  <2>2. ASSUME PastGuard PROVE sw'.m = 0
    <3>1. PICK pc \in SweepPlace : sw' = [Asleep EXCEPT !.pc = pc]
      <4> DEFINE at == IF sw.own \/ ~sw.open THEN "idle" ELSE "ensure"
      <4>1. sw' = [Asleep EXCEPT !.pc = at]
        BY <2>2 DEF PastGuard, Sweep
      <4> QED
        BY <4>1
    <3> QED
      BY <3>1 DEF Asleep
  <2> QED
    BY <2>1, <2>2
<1>g. \A pc \in SweepPlace : Goes(pc) => Framed
  BY <1>0, FrameGoes
<1>s. sw' = sw => Framed
  OBVIOUS
<1>1. ASSUME \/ VenueMoves \/ VenueTidies \/ RefreshRisk \/ TaskWorks \/ Command \/ UNCHANGED stopVars
      PROVE  Kept /\ Framed
  BY <1>1, <1>s
  DEF VenueMoves, VenueTidies, RefreshRisk, OrderFills, OrderLapses, Reduced, TaskWorks, TaskTrades,
      TaskBuys, TaskSells, TaskEnds, AddEnds, Command, AskClose, StandDown, AskAdd, AskStops, stopVars,
      memory
<1>16. ASSUME RenewGoesOn PROVE (known'.m = known.m \/ RenewSpot) /\ grace'.m = grace.m /\ Framed
  BY <1>16, <1>s DEF RenewGoesOn, RenewClears, RenewPerp, RenewSpot, memory
<1>2. ASSUME CommandGoesOn \/ Restart
      PROVE  known'.m \in {known.m, 0} /\ grace'.m \in {grace.m, 0} /\ Framed
  <2>1. CASE CommandGoesOn
    BY <2>1, <1>s DEF CommandGoesOn, CancelStops, StartClose, NoStops, NoGrace
  <2>2. CASE Restart
    BY <2>2, <1>r DEF Restart, NoGrace, StopTypeOK, EngineTyped
  <2> QED
    BY <1>2, <2>1, <2>2
<1>3. ASSUME SweepBegins PROVE Kept /\ Framed
  <2>1. sw'.m = grace.m
    BY <1>3 DEF SweepBegins, Sweep, Asleep
  <2> QED
    BY <1>3, <2>1 DEF SweepBegins, memory
<1>4. ASSUME NoPoll \/ PollSpotStop PROVE Kept /\ Framed
  <2>1. \/ \E pc \in SweepPlace : Goes(pc)
        \/ sw' = [sw EXCEPT !.pc = "guard", !.own = TRUE]
        \/ sw' = [sw EXCEPT !.pc = "perp", !.a = known.a, !.m = known.m]
    BY <1>4 DEF NoPoll, PollSpotStop, Sweep
  <2>2. Framed
    BY <1>0, <1>g, <2>1 DEF SweepType
  <2> QED
    BY <1>4, <2>2 DEF NoPoll, PollSpotStop, memory
<1>5. ASSUME PollPerpStop \/ Disarm \/ BookSpotStop \/ NoBalance \/ CheckBalance PROVE Kept /\ Framed
  <2>1. \E pc \in SweepPlace : Goes(pc)
    BY <1>5 DEF PollPerpStop, Disarm, BookSpotStop, NoBalance, CheckBalance
  <2> QED
    BY <1>5, <1>g, <2>1 DEF PollPerpStop, Disarm, BookSpotStop, NoBalance, CheckBalance, memory
<1>6. ASSUME BuyBack PROVE known'.m \in {known.m, 0} /\ grace'.m = grace.m /\ Framed
  <2>1. sw'.m = sw.m
    BY <1>0, <1>6 DEF BuyBack, Sweep, SweepType
  <2>2. known' = known \/ known' = [known EXCEPT !.a = Placed + 1, !.m = 0]
    BY <1>6 DEF BuyBack
  <2> QED
    BY <1>0, <1>6, <2>1, <2>2 DEF BuyBack, StopsType
<1>7. ASSUME GuardPasses \/ GuardStarts \/ GuardWaits \/ GuardFinishes \/ StartSellDown PROVE Kept /\ Framed
  BY <1>7, <1>r DEF GuardPasses, GuardStarts, GuardWaits, GuardFinishes, StartSellDown, memory
<1>8. ASSUME GuardActs PROVE Kept /\ Framed
  <2>1. PICK m \in Found \cup {known.m} :
           sw' = [sw EXCEPT !.pc = "which", !.a = known.a, !.m = m, !.venue = risk.perp]
    BY <1>8 DEF GuardActs, Sweep
  <2>2. sw'.m = m
    BY <1>0, <2>1 DEF SweepType
  <2> QED
    BY <1>8, <2>2 DEF GuardActs, Found
<1>9. ASSUME BookPerp PROVE Kept /\ Framed
  <2>1. Rest \/ Goes("twin")
    BY <1>9 DEF BookPerp
  <2> QED
    BY <1>9, <1>r, <1>g, <2>1 DEF BookPerp
<1>10. ASSUME BookTwin PROVE known'.m = 0 /\ grace'.m \in {grace.m, sw.m} /\ Framed
  <2>1. Rest \/ Goes("finish") \/ Goes("free")
    BY <1>10 DEF BookTwin
  <2>2. grace' \in {grace, [m |-> sw.m, booked |-> Executed(sw.m), floor |-> sw.venue]}
    BY <1>10 DEF BookTwin
  <2> QED
    BY <1>10, <1>r, <1>g, <2>1, <2>2 DEF BookTwin, NoStops
<1>11. ASSUME FreeTheSpot PROVE known'.m = 0 /\ grace'.m = 0 /\ Framed
  BY <1>11, <1>g DEF FreeTheSpot, NoStops, NoGrace
<1>12. ASSUME GraceStep PROVE known' = known /\ grace'.m \in {grace.m, 0} /\ Framed
  <2>1. CASE GraceLookupFails \/ GraceLapses
    BY <2>1, <1>r, <1>g DEF GraceLookupFails, GraceLapses, memory
  <2>2. ASSUME NEW over \in BOOLEAN, GraceLooks(over)
        PROVE  known' = known /\ grace'.m \in {grace.m, 0} /\ Framed
    <3>1. Rest \/ Goes("finish") \/ Goes("lapse") \/ Goes("selldown")
      BY <2>2, Zenon DEF GraceLooks
    <3>2. known' = known /\ grace' \in {grace, NoGrace, [grace EXCEPT !.booked = Executed(sw.m)]}
      BY <2>2, Zenon DEF GraceLooks
    <3>3. Framed
      BY <1>r, <1>g, <3>1
    <3> QED
      BY <1>0, <3>2, <3>3 DEF GraceType, NoGrace
  <2> QED
    BY <1>12, <2>1, <2>2 DEF GraceStep
<1>13. ASSUME EnsureStep PROVE (known'.m = known.m \/ ArmSpot) /\ grace'.m = grace.m /\ Framed
  <2>1. CASE NoStopsNow \/ ClearStops
    BY <2>1, <1>r, <1>g DEF NoStopsNow, ClearStops, memory
  <2>2. CASE EnsureStops \/ ArmPerp
    <3>1. sw'.m = sw.m
      BY <1>0, <2>2 DEF EnsureStops, ArmPerp, Sweep, SweepType
    <3> QED
      BY <2>2, <3>1 DEF EnsureStops, ArmPerp, memory
  <2>3. CASE ArmSpot
    BY <2>3, <1>r DEF ArmSpot
  <2> QED
    BY <1>13, <2>1, <2>2, <2>3 DEF EnsureStep
<1> HIDE DEF Framed
<1>14. /\ known'.m \in {known.m, 0} \/ ArmSpot \/ RenewSpot
       /\ grace'.m \in {grace.m, sw.m, 0}
       /\ Framed
  BY <1>1, <1>2, <1>3, <1>4, <1>5, <1>6, <1>7, <1>8, <1>9, <1>10, <1>11, <1>12, <1>13, <1>16
  DEF StopNext, SweepStep, SpotStopStep, GuardStep
<1> QED
  BY <1>14 DEF Framed

LEMMA NamedStep ==
    ASSUME StopTypeOK, StopTypeOK', Named, [StopNext]_stopVars
    PROVE  Named'
<1>1. /\ InTurn' /\ Placed <= Placed' /\ Placed \in Nat /\ Placed' \in Nat
      /\ \A o \in Id : o <= Placed => ord'[o].leg = ord[o].leg
  BY LegsStay DEF Named
<1>2. \A m \in Id \cup {0} : SpotOrder(m) => (m # 0 => m <= Placed' /\ ord'[m].leg = "spot")
  BY <1>1 DEF SpotOrder, Id
<1>3. \A m \in LiveOn("spot") : m \in Id /\ SpotOrder(m)
  BY DEF LiveOn, Live, SpotOrder, Named, InTurn
<1>4. /\ known.m \in Id \cup {0} /\ grace.m \in Id \cup {0} /\ sw.m \in Id \cup {0}
      /\ SpotOrder(known.m) /\ SpotOrder(grace.m) /\ SpotOrder(sw.m) /\ SpotOrder(0)
  BY FrameInt DEF StopTypeOK, EngineTyped, GraceType, Named, SpotOrder
<1>5. SpotOrder(grace.m)'
  BY <1>2, <1>4, NamesCome DEF SpotOrder
<1>6. SpotOrder(sw.m)'
  BY <1>2, <1>3, <1>4, NamesCome DEF SpotOrder
<1>7. SpotOrder(known.m)'
  <2>1. CASE known'.m \in {known.m, 0}
    BY <1>2, <1>4, <2>1 DEF SpotOrder
  <2>2. CASE ArmSpot
    <3>1. CASE known'.m = 0
      BY <3>1 DEF SpotOrder
    <3>2. CASE ord' = Placing("spot", sw.spot) /\ known' = [a |-> sw.a, m |-> Placed + 1]
      <4>1. Placed + 1 \in Id
        BY <1>1, <2>2, StopConstants DEF ArmSpot, StopTypeOK, Roomy, SlotsLeft, Id
      <4>2. ord'[Placed + 1].leg = "spot" /\ ord'[Placed + 1].st = "live"
        BY <3>2, <4>1, FrameInt, PlacedOne DEF StopTypeOK, VenueTyped
      <4>3. Placed + 1 <= Placed'
        BY <1>1, <4>1, <4>2 DEF InTurn, Id
      <4> QED
        BY <3>2, <4>2, <4>3 DEF SpotOrder
    <3> QED
      BY <2>2, <3>1, <3>2 DEF ArmSpot
  <2>3. CASE RenewSpot
    <3>1. CASE known'.m = 0
      BY <3>1 DEF SpotOrder
    <3>2. CASE /\ ord' = Placing("spot", renew.spot) /\ Placed < MaxStops
               /\ known' = [a |-> renew.a, m |-> Placed + 1]
      <4>1. Placed + 1 \in Id /\ renew.spot \in Int
        BY <1>1, <3>2, StopConstants DEF StopTypeOK, EngineTyped, RenewType, Id
      <4>2. ord'[Placed + 1].leg = "spot" /\ ord'[Placed + 1].st = "live"
        BY <3>2, <4>1, PlacedOne DEF StopTypeOK, VenueTyped
      <4>3. Placed + 1 <= Placed'
        BY <1>1, <4>1, <4>2 DEF InTurn, Id
      <4> QED
        BY <3>2, <4>2, <4>3 DEF SpotOrder
    <3>3. PICK ok \in {FALSE} \cup {Placed < MaxStops /\ renew.spot <= FreeSpot} :
             /\ ord' = IF ok THEN Placing("spot", renew.spot) ELSE ord
             /\ known' = [a |-> renew.a, m |-> IF ok THEN Placed + 1 ELSE 0]
      BY <2>3 DEF RenewSpot
    <3> QED
      BY <3>1, <3>2, <3>3
  <2> QED
    BY <2>1, <2>2, <2>3, NamesCome
<1> QED
  BY <1>1, <1>5, <1>6, <1>7 DEF Named

\* Faults that make the engine book a sale twice.
BooksTwice ==
    {"row_moves", "check_first", "refound", "dies_between", "refused", "lost_reply"}

LEMMA SpotNumbers ==
    ASSUME StopTypeOK
    PROVE  dbSpot \in Int /\ vSpot \in Int /\ grace.booked \in Int /\ grace.m \in Id \cup {0}
           /\ \A m \in Id \cup {0} : Executed(m) \in Int
  BY ExecutedIsNat DEF StopTypeOK, VenueTyped, RowTyped, EngineTyped, GraceType

LEMMA MoreLeft ==
    ASSUME NEW a \in Int, NEW b \in Int, NEW c \in Int, NEW d \in Int, NEW q \in Int,
           a - b >= c - d, c - d >= q
    PROVE  a - b >= q
  OBVIOUS

LEMMA StillAbove ==
    ASSUME NEW a \in Int, NEW b \in Int, NEW c \in Int, NEW d \in Int, a - b >= c - d, c >= d
    PROVE  a >= b
  OBVIOUS

\* What a fill sells is missing at the venue: a step that books nothing leaves in
\* the row what was there to be booked.
LEMMA StillUnsold ==
    ASSUME StopTypeOK, StopTypeOK', Named, [StopNext]_stopVars,
           dbSpot' - vSpot' >= dbSpot - vSpot
    PROVE  \A m \in Id \cup {0}, b \in Int :
              SpotOrder(m) /\ Unsold(Executed(m) - b) => dbSpot' - vSpot' >= Executed(m)' - b
<1>1. dbSpot \in Int /\ vSpot \in Int /\ \A m \in Id \cup {0} : Executed(m) \in Int
  BY SpotNumbers
<1>2. dbSpot' \in Int /\ vSpot' \in Int
  BY DEF StopTypeOK, RowTyped, VenueTyped
<1>3. ASSUME NEW m \in Id \cup {0}, SpotOrder(m)
      PROVE  \/ Executed(m)' = Executed(m)
             \/ \E k \in Nat : /\ Executed(m)' = Executed(m) + k
                              /\ vSpot' = vSpot - k /\ dbSpot' = dbSpot
  <2>1. CASE m = 0
    BY <2>1 DEF Executed
  <2>2. CASE m # 0 /\ ~Fills
    <3>1. ord'[m].exec = ord[m].exec
      BY <1>3, <2>2, LegsStay DEF SpotOrder, Named
    <3> QED
      BY <2>2, <3>1 DEF Executed
  <2>3. CASE m # 0 /\ Fills
    <3>1. PICK o \in Id, k \in 1..(Held + MaxOps) : OrderFills(o, k)
      BY <2>3 DEF Fills
    <3>2. k \in Nat /\ ord[o].st = "live" /\ ord \in [Id -> OrderType]
      BY <3>1, StopConstants, StopAssumption DEF OrderFills, Live, StopTypeOK, VenueTyped
    <3>3. PICK st \in {"live", "filled", "dead"} :
             ord' = [ord EXCEPT ![o].exec = @ + k, ![o].st = st]
      BY <3>1 DEF OrderFills
    <3>4. ord'[o].exec = ord[o].exec + k /\ \A p \in Id : p # o => ord'[p] = ord[p]
      BY <3>2, <3>3, OrderMoves
    <3>5. CASE m = o
      <4>1. ord[o].leg = "spot"
        BY <1>3, <2>3, <3>5 DEF SpotOrder
      <4>2. vSpot' = vSpot - k /\ dbSpot' = dbSpot
        BY <3>1, <4>1 DEF OrderFills, row
      <4> QED
        BY <2>3, <3>2, <3>4, <3>5, <4>2 DEF Executed
    <3>6. CASE m # o
      BY <2>3, <3>4, <3>6 DEF Executed
    <3> QED
      BY <3>5, <3>6
  <2> QED
    BY <2>1, <2>2, <2>3
<1>4. ASSUME NEW m \in Id \cup {0}, NEW b \in Int, SpotOrder(m), Unsold(Executed(m) - b)
      PROVE  dbSpot' - vSpot' >= Executed(m)' - b
  <2>1. Executed(m) \in Int /\ dbSpot - vSpot >= Executed(m) - b
    BY <1>1, <1>4 DEF Unsold
  <2>2. CASE Executed(m)' = Executed(m)
    <3>1. Executed(m) - b \in Int
      BY <2>1
    <3>2. dbSpot' - vSpot' >= Executed(m) - b
      BY <1>1, <1>2, <2>1, <3>1, MoreLeft
    <3> QED
      BY <2>2, <3>2
  <2>3. CASE \E k \in Nat : /\ Executed(m)' = Executed(m) + k
                           /\ vSpot' = vSpot - k /\ dbSpot' = dbSpot
    BY <1>1, <2>1, <2>3
  <2> QED
    BY <1>3, <1>4, <2>2, <2>3
<1> QED
  BY <1>4

LEMMA UnsoldStays ==
    ASSUME StopTypeOK, StopTypeOK', Named, [StopNext]_stopVars,
           dbSpot' - vSpot' >= dbSpot - vSpot, sw'.m = sw.m, sw'.booked = sw.booked
    PROVE  /\ Unsold(Executed(sw.m)) => Unsold(Executed(sw.m))'
           /\ Unsold(Executed(sw.m) - sw.booked) => Unsold(Executed(sw.m) - sw.booked)'
<1>1. sw.booked \in Int /\ sw.m \in Id \cup {0} /\ SpotOrder(sw.m) /\ Executed(sw.m) \in Int
  BY SpotNumbers, FrameInt DEF Named
<1>2. \A n \in Id \cup {0}, c \in Int :
         SpotOrder(n) /\ Unsold(Executed(n) - c) => dbSpot' - vSpot' >= Executed(n)' - c
  BY StillUnsold
<1>3. PICK n \in Id \cup {0} : n = sw.m
  BY <1>1
<1>4. PICK c \in Int : c = sw.booked
  BY <1>1
<1>5. /\ Unsold(Executed(n) - c) => dbSpot' - vSpot' >= Executed(n)' - c
      /\ Unsold(Executed(n) - 0) => dbSpot' - vSpot' >= Executed(n)' - 0
  BY <1>1, <1>2, <1>3
<1>6. Executed(sw.m)' = Executed(n)' /\ Executed(sw.m) = Executed(n)
  BY <1>3 DEF Executed
<1>7. Executed(n)' \in Int /\ Executed(n) \in Int
  BY <1>1, <1>3 DEF Executed, StopTypeOK, VenueTyped, OrderType
<1> QED
  BY <1>3, <1>4, <1>5, <1>6, <1>7 DEF Unsold

LEMMA FrameSoldStays ==
    ASSUME StopTypeOK, StopTypeOK', Named, SpotInv, [StopNext]_stopVars,
           dbSpot' - vSpot' >= dbSpot - vSpot, dbSpot' = dbSpot \/ dbSpot' >= dbSpot \/ ~RowInHand,
           sw' = sw, grace' \in {grace, NoGrace}, known'.m \in {known.m, 0}
    PROVE  FrameSold'
<1>1. /\ Unsold(Executed(sw.m)) => Unsold(Executed(sw.m))'
      /\ Unsold(Executed(sw.m) - sw.booked) => Unsold(Executed(sw.m) - sw.booked)'
  BY UnsoldStays
<1>2. sw.pc \in {"stop", "perp", "disarm", "sold", "balance"} => dbSpot' >= sw.spot
  <2>1. dbSpot \in Int /\ dbSpot' \in Int /\ sw.spot \in Int
    BY FrameInt DEF StopTypeOK, RowTyped
  <2> QED
    BY <2>1 DEF SpotInv, FrameSold, RowInHand
<1> QED
  BY <1>1, <1>2 DEF SpotInv, FrameSold

LEMMA SpotInvKept ==
    ASSUME StopTypeOK, StopTypeOK', Named, SpotInv, [StopNext]_stopVars,
           dbSpot' - vSpot' >= dbSpot - vSpot, FrameSold', known'.m \in {known.m, 0},
           sw.pc # "buyback" \/ sw'.pc = "buyback" \/ known'.m = 0,
           grace' = NoGrace \/ (grace' = grace /\ sw'.pc \in {"idle", "grace"})
    PROVE  SpotInv'
<1>0. /\ dbSpot \in Int /\ vSpot \in Int /\ dbSpot' \in Int /\ vSpot' \in Int
      /\ known.m \in Id \cup {0} /\ SpotOrder(known.m) /\ Executed(known.m) \in Int
      /\ grace.m \in Id \cup {0} /\ SpotOrder(grace.m) /\ grace.booked \in Int
  BY SpotNumbers, FrameInt DEF StopTypeOK, RowTyped, VenueTyped, Named
<1>1. SpotNotForgotten'
  <2>1. dbSpot >= vSpot
    BY DEF SpotInv, SpotNotForgotten
  <2> QED
    BY <1>0, <2>1, StillAbove DEF SpotNotForgotten
<1>2. \A n \in Id \cup {0}, c \in Int :
           SpotOrder(n) /\ Unsold(Executed(n) - c) => dbSpot' - vSpot' >= Executed(n)' - c
  BY StillUnsold
<1>3. known'.m # 0 /\ sw'.pc # "buyback" => Unsold(Executed(known.m))'
  <2>1. SUFFICES ASSUME known'.m # 0, sw'.pc # "buyback" PROVE Unsold(Executed(known.m))'
    OBVIOUS
  <2>2. PICK n \in Id \cup {0} : n = known.m
    BY <1>0
  <2>3. known'.m = n /\ Unsold(Executed(n) - 0)
    BY <1>0, <2>1, <2>2 DEF SpotInv, Unsold
  <2>4. dbSpot' - vSpot' >= Executed(n)' - 0
    BY <1>0, <1>2, <2>2, <2>3
  <2>5. Executed(known.m)' = Executed(n)' /\ Executed(n)' \in Int
    BY <2>3, <1>0, <2>2 DEF Executed, StopTypeOK, VenueTyped, OrderType
  <2> QED
    BY <2>4, <2>5 DEF Unsold
<1>4. grace' # NoGrace => Unsold(Executed(grace.m) - grace.booked)'
  <2>1. SUFFICES ASSUME grace' # NoGrace PROVE Unsold(Executed(grace.m) - grace.booked)'
    OBVIOUS
  <2>2. PICK n \in Id \cup {0} : n = grace.m
    BY <1>0
  <2>3. PICK c \in Int : c = grace.booked
    BY <1>0
  <2>4. grace' = grace /\ Unsold(Executed(n) - c)
    BY <2>1, <2>2, <2>3 DEF SpotInv
  <2>5. dbSpot' - vSpot' >= Executed(n)' - c
    BY <1>0, <1>2, <2>2, <2>4
  <2>6. Executed(grace.m)' = Executed(n)' /\ grace'.booked = c
    BY <2>2, <2>3, <2>4 DEF Executed
  <2> QED
    BY <2>5, <2>6 DEF Unsold
<1>5. grace' # NoGrace => sw'.pc \in {"idle", "grace"} /\ known'.m = 0
  BY DEF SpotInv
<1> QED
  BY <1>1, <1>3, <1>4, <1>5 DEF SpotInv

LEMMA SoldUnderVenue ==
    ASSUME StopTypeOK, StopTypeOK', Named, SpotInv, [StopNext]_stopVars,
           VenueMoves \/ VenueTidies \/ RefreshRisk
    PROVE  SpotInv'
<1>1. UNCHANGED <<sw, known, grace, dbSpot>>
  BY DEF VenueMoves, VenueTidies, RefreshRisk, OrderFills, OrderLapses, Reduced, row, memory
<1>2. vSpot' = vSpot \/ \E k \in Nat : vSpot' = vSpot - k
  <2>1. ASSUME NEW o \in Id, NEW k \in 1..(Held + MaxOps), OrderFills(o, k)
        PROVE  k \in Nat /\ (vSpot' = vSpot \/ vSpot' = vSpot - k)
    BY <2>1, StopConstants, StopAssumption DEF OrderFills
  <2> QED
    BY <2>1 DEF VenueMoves, VenueTidies, RefreshRisk, OrderLapses, Reduced
<1>3. dbSpot' - vSpot' >= dbSpot - vSpot
  BY <1>1, <1>2, SpotNumbers
<1>4. FrameSold'
  BY <1>1, <1>3, FrameSoldStays
<1> QED
  BY <1>1, <1>3, <1>4, SpotInvKept DEF SpotInv

LEMMA SoldUnderTasks ==
    ASSUME "row_moves" \notin StopFaults, StopTypeOK, StopTypeOK', Named, SpotInv,
           [StopNext]_stopVars, TaskWorks
    PROVE  SpotInv'
<1>1. UNCHANGED <<sw, known, grace>>
  BY DEF TaskWorks, TaskTrades, TaskBuys, TaskSells, TaskEnds, AddEnds, memory
<1>2. \/ dbSpot' = dbSpot /\ vSpot' = vSpot
      \/ dbSpot' = dbSpot + 1 /\ vSpot' = vSpot + 1
      \/ \E k \in Nat : dbSpot' = dbSpot - k /\ vSpot' = vSpot - k /\ ~RowInHand
  <2>1. ASSUME NEW k \in 1..(Held + MaxOps), TaskSells(k)
        PROVE  k \in Nat /\ dbSpot' = dbSpot - k /\ vSpot' = vSpot - k /\ ~RowInHand
    BY <2>1, StopConstants, StopAssumption DEF TaskSells, RowMayMove
  <2> QED
    BY <2>1 DEF TaskWorks, TaskTrades, TaskBuys, TaskEnds, AddEnds, world
<1>3. dbSpot' - vSpot' >= dbSpot - vSpot
  BY <1>2, SpotNumbers
<1>4. dbSpot' = dbSpot \/ dbSpot' >= dbSpot \/ ~RowInHand
  BY <1>2, SpotNumbers
<1>5. FrameSold'
  BY <1>1, <1>3, <1>4, FrameSoldStays
<1> QED
  BY <1>1, <1>3, <1>5, SpotInvKept DEF SpotInv

\* Steps that leave both legs' spot as it was.
LEMMA SoldKept ==
    ASSUME StopTypeOK, StopTypeOK', Named, SpotInv, [StopNext]_stopVars,
           dbSpot' = dbSpot, vSpot' = vSpot, FrameSold', known'.m \in {known.m, 0},
           sw.pc # "buyback" \/ sw'.pc = "buyback" \/ known'.m = 0,
           grace' = NoGrace \/ (grace' = grace /\ (sw'.pc \in {"idle", "grace"} \/ sw.pc \notin {"idle", "grace"}))
    PROVE  SpotInv'
<1>1. dbSpot' - vSpot' >= dbSpot - vSpot
  BY SpotNumbers
<1>2. grace' = NoGrace \/ (grace' = grace /\ sw'.pc \in {"idle", "grace"})
  BY DEF SpotInv
<1> QED
  BY <1>1, <1>2, SpotInvKept

LEMMA SoldUnderCommands ==
    ASSUME "dies_between" \notin StopFaults, StopTypeOK, StopTypeOK', Named, SpotInv, Apart,
           [StopNext]_stopVars, CommandGoesOn \/ Command \/ RenewGoesOn \/ Restart
    PROVE  SpotInv'
<1>1. ASSUME CommandGoesOn \/ Command \/ RenewClears \/ RenewPerp PROVE SpotInv'
  <2>1. /\ UNCHANGED <<sw, dbSpot, vSpot>> /\ known'.m \in {known.m, 0} /\ grace' \in {grace, NoGrace}
    <3>1. CASE CommandGoesOn
      <4>1. known' = known \/ known' = NoStops
        BY <3>1 DEF CommandGoesOn, CancelStops, StartClose
      <4> QED
        BY <3>1, <4>1 DEF CommandGoesOn, CancelStops, StartClose, NoStops, world, row
    <3>2. CASE Command \/ RenewClears \/ RenewPerp
      BY <3>2
      DEF Command, AskClose, StandDown, AskAdd, AskStops, RenewClears, RenewPerp, world, row, memory
    <3> QED
      BY <1>1, <3>1, <3>2
  <2>2. dbSpot' - vSpot' >= dbSpot - vSpot
    BY <2>1, SpotNumbers
  <2>3. FrameSold'
    BY <2>1, <2>2, FrameSoldStays
  <2> QED
    BY <2>1, <2>3, SoldKept DEF SpotInv
<1>2. ASSUME Restart PROVE SpotInv'
  <2>1. /\ sw'.pc = "idle" /\ UNCHANGED <<dbSpot, vSpot>> /\ known' = known /\ grace' = NoGrace
        /\ sw.pc # "buyback"
    BY <1>2, FrameRests DEF Restart, row, StopTypeOK, EngineTyped
  <2>2. FrameSold'
    BY <2>1 DEF FrameSold
  <2> QED
    BY <2>1, <2>2, SoldKept
<1>3. ASSUME RenewSpot PROVE SpotInv'
  <2>0. dbSpot \in Int /\ vSpot \in Int /\ dbSpot >= vSpot
    BY SpotNumbers DEF SpotInv, SpotNotForgotten
  <2>1. UNCHANGED <<dbSpot, vSpot, grace, sw>> /\ renew.pc = "spot" /\ renew.spot \in Int
    BY <1>3 DEF RenewSpot, row, StopTypeOK, EngineTyped, RenewType
  <2>2. grace = NoGrace /\ sw.pc \notin {"perp", "disarm", "sold", "buyback", "grace", "which", "twin"}
    BY <2>1 DEF Apart, Fired
  <2>3. FrameSold'
    BY <2>1, <2>2 DEF SpotInv, FrameSold
  <2>4. CASE known'.m = 0
    BY <2>1, <2>2, <2>3, <2>4, SoldKept
  <2>5. CASE ord' = Placing("spot", renew.spot) /\ known'.m = Placed + 1 /\ Placed < MaxStops
    <3>1. Placed + 1 \in Id
      BY <2>5, PlacedCounts, StopConstants DEF Id
    <3>2. ord'[Placed + 1].exec = 0
      BY <2>1, <2>5, <3>1, PlacedOne DEF StopTypeOK, VenueTyped
    <3>3. Executed(known.m)' = 0
      BY <2>5, <3>2 DEF Executed
    <3>4. dbSpot' - vSpot' >= Executed(known.m)'
      BY <2>0, <2>1, <3>3
    <3> QED
      BY <2>0, <2>1, <2>2, <2>3, <3>4 DEF SpotInv, SpotNotForgotten, Unsold
  <2>6. PICK ok \in {FALSE} \cup {Placed < MaxStops /\ renew.spot <= FreeSpot} :
           /\ ord' = IF ok THEN Placing("spot", renew.spot) ELSE ord
           /\ known' = [a |-> renew.a, m |-> IF ok THEN Placed + 1 ELSE 0]
    BY <1>3 DEF RenewSpot
  <2> QED
    BY <2>4, <2>5, <2>6
<1> QED
  BY <1>1, <1>2, <1>3 DEF RenewGoesOn

LEMMA SoldUnderSpotStop ==
    ASSUME {"refused", "lost_reply", "check_first"} \cap StopFaults = {},
           StopTypeOK, StopTypeOK', Named, SpotInv, [StopNext]_stopVars,
           SweepBegins \/ SpotStopStep \/ NoBalance \/ CheckBalance
    PROVE  SpotInv'
<1>0. /\ sw \in SweepType /\ sw.perp \in Int /\ sw.spot \in Int
      /\ dbSpot \in Int /\ vSpot \in Int /\ Executed(sw.m) \in Nat /\ Executed(known.m) \in Nat
  BY FrameInt, SpotNumbers
<1> USE DEF SweepPlace
<1>1. ASSUME SweepBegins PROVE SpotInv'
  <2>1. /\ sw.pc = "idle" /\ UNCHANGED <<dbSpot, vSpot, known, grace, ord>>
    BY <1>1 DEF SweepBegins, world, row, memory
  <2>2. /\ sw'.pc = IF grace = NoGrace THEN "stop" ELSE "grace"
        /\ sw'.spot = dbSpot /\ sw'.m = grace.m /\ sw'.booked = grace.booked
    BY <1>1 DEF SweepBegins, Sweep, Asleep
  <2>3. CASE grace = NoGrace
    <3>1. FrameSold'
      BY <1>0, <2>1, <2>2, <2>3 DEF FrameSold
    <3> QED
      BY <2>1, <2>3, <3>1, SoldKept
  <2>4. CASE grace # NoGrace
    <3>1. known.m = 0 /\ Unsold(Executed(grace.m) - grace.booked)
      BY <2>4 DEF SpotInv
    <3>2. Unsold(Executed(sw.m) - sw.booked)'
      BY <2>1, <2>2, <3>1 DEF Unsold, Executed
    <3>3. FrameSold'
      BY <2>1, <2>2, <2>4, <3>1, <3>2 DEF FrameSold
    <3> QED
      BY <2>1, <2>2, <2>4, <3>3, SoldKept
  <2> QED
    BY <2>3, <2>4
<1>2. ASSUME NoPoll PROVE SpotInv'
  <2>1. /\ sw.pc = "stop" /\ UNCHANGED <<dbSpot, vSpot, known, grace>>
    BY <1>2 DEF NoPoll, world, row, memory
  <2>2. sw'.pc = "guard" \/ (sw'.pc = "balance" /\ sw'.spot = sw.spot)
    <3>1. Goes("balance") \/ sw' = [sw EXCEPT !.pc = "guard", !.own = TRUE]
      BY <1>2 DEF NoPoll, Sweep
    <3> QED
      BY <1>0, <3>1, FrameGoes DEF SweepType
  <2>3. FrameSold'
    BY <2>1, <2>2 DEF SpotInv, FrameSold
  <2> QED
    BY <2>1, <2>3, SoldKept
<1>3. ASSUME PollSpotStop PROVE SpotInv'
  <2>1. /\ sw.pc = "stop" /\ UNCHANGED <<dbSpot, vSpot, known, grace, ord>>
        /\ known.m # 0 /\ sw.perp > 0
    BY <1>3 DEF PollSpotStop, MinePolls, world, row, memory
  <2>2. /\ sw'.perp = sw.perp /\ sw'.spot = sw.spot
        /\ sw'.pc = "balance" \/ (sw'.pc = "perp" /\ sw'.m = known.m)
    <3>1. Goes("balance") \/ sw' = [sw EXCEPT !.pc = "perp", !.a = known.a, !.m = known.m]
      BY <1>3 DEF PollSpotStop, Sweep
    <3> QED
      BY <1>0, <3>1, FrameGoes DEF SweepType
  <2>3. Unsold(Executed(known.m)) /\ dbSpot >= sw.spot
    BY <2>1 DEF SpotInv, FrameSold
  <2>4. sw'.m = known.m => Unsold(Executed(sw.m))'
    BY <2>1, <2>3 DEF Unsold, Executed
  <2>5. FrameSold'
    BY <2>1, <2>2, <2>3, <2>4 DEF FrameSold
  <2> QED
    BY <2>1, <2>5, SoldKept
<1>4. ASSUME PollPerpStop \/ Disarm PROVE SpotInv'
  <2>1. /\ sw.pc \in {"perp", "disarm"} /\ UNCHANGED <<dbSpot, vSpot, known, grace>>
    BY <1>4 DEF PollPerpStop, Disarm, world, row, memory
  <2>2. PICK pc \in {"disarm", "sold", "balance"} : Goes(pc)
    BY <1>4 DEF PollPerpStop, Disarm
  <2>3. sw'.pc = pc /\ sw'.perp = sw.perp /\ sw'.spot = sw.spot /\ sw'.m = sw.m /\ sw'.booked = sw.booked
    BY <1>0, <2>2, FrameGoes
  <2>4. Unsold(Executed(sw.m)) /\ dbSpot >= sw.spot /\ sw.perp > 0
    BY <2>1 DEF SpotInv, FrameSold
  <2>5. Unsold(Executed(sw.m))'
    <3>1. dbSpot' - vSpot' >= dbSpot - vSpot
      BY <1>0, <2>1
    <3> QED
      BY <2>3, <2>4, <3>1, UnsoldStays
  <2>6. FrameSold'
    BY <2>1, <2>3, <2>4, <2>5 DEF FrameSold
  <2> QED
    BY <2>1, <2>6, SoldKept
<1>5. ASSUME BookSpotStop PROVE SpotInv'
  <2> DEFINE sale == Min({Executed(sw.m), sw.spot})
  <2>1. /\ sw.pc = "sold" /\ UNCHANGED <<vSpot, known, grace>> /\ dbSpot' = dbSpot - sale
    BY <1>5 DEF BookSpotStop, world, memory
  <2>2. Unsold(Executed(sw.m)) /\ dbSpot >= sw.spot /\ sw.perp > 0 /\ grace = NoGrace
    BY <2>1 DEF SpotInv, FrameSold
  <2>3. sale \in Int /\ sale <= Executed(sw.m)
    <3>1. Executed(sw.m) \in Int
      BY <1>0
    <3> QED
      BY <1>0, <3>1, SmallerOf
  <2>4. Min({sw.perp, Executed(sw.m)}) > 0 \/ Executed(sw.m) = 0
    <3>1. Executed(sw.m) \in Int
      BY <1>0
    <3>2. Min({sw.perp, Executed(sw.m)}) \in {sw.perp, Executed(sw.m)}
      BY <1>0, <3>1, SmallerOf
    <3> QED
      BY <1>0, <2>2, <3>2
  <2> HIDE DEF sale
  <2>5. CASE Goes("buyback")
    <3>1. sw'.pc = "buyback"
      BY <1>0, <2>5, FrameGoes
    <3>2. dbSpot' >= vSpot'
      BY <1>0, <2>1, <2>2, <2>3 DEF Unsold
    <3> QED
      BY <2>1, <2>2, <3>1, <3>2 DEF SpotInv, SpotNotForgotten, FrameSold
  <2>6. CASE Executed(sw.m) = 0 /\ Goes("balance")
    <3>1. sw'.pc = "balance" /\ sw'.spot = sw.spot
      BY <1>0, <2>6, FrameGoes
    <3>2. dbSpot' >= dbSpot
      BY <1>0, <2>1, <2>3, <2>6
    <3>3. dbSpot' - vSpot' >= dbSpot - vSpot /\ dbSpot' >= sw.spot
      BY <1>0, <2>1, <2>2, <2>3, <2>6
    <3>4. FrameSold'
      BY <3>1, <3>3 DEF FrameSold
    <3> QED
      BY <2>1, <2>2, <3>3, <3>4, SpotInvKept
  <2> QED
    BY <1>5, <2>4, <2>5, <2>6 DEF BookSpotStop
<1>6. ASSUME BuyBack PROVE SpotInv'
  <2>1. /\ UNCHANGED <<dbSpot, vSpot, grace>> /\ sw.pc = "buyback"
        /\ known' = [known EXCEPT !.a = Placed + 1, !.m = 0]
    BY <1>6 DEF BuyBack, row
  <2>2. known'.m = 0
    BY <2>1 DEF StopTypeOK, EngineTyped, StopsType
  <2>3. sw'.pc = "guard"
    BY <1>0, <1>6 DEF BuyBack, Sweep, SweepType
  <2>4. FrameSold'
    BY <2>3 DEF FrameSold
  <2> QED
    BY <2>1, <2>2, <2>4, SoldKept
<1>7. ASSUME NoBalance \/ CheckBalance PROVE SpotInv'
  <2>1. /\ sw.pc = "balance" /\ UNCHANGED <<vSpot, known, grace, ord>>
    BY <1>7 DEF NoBalance, CheckBalance, world, memory
  <2>2. sw'.pc \in {"guard", "idle"}
    BY <1>0, <1>7, FrameGoes DEF NoBalance, CheckBalance
  <2>3. FrameSold'
    BY <2>2 DEF FrameSold
  <2>4. dbSpot >= sw.spot /\ grace = NoGrace
    BY <2>1 DEF SpotInv, FrameSold
  <2>5. CASE dbSpot' = dbSpot
    BY <2>1, <2>3, <2>5, SoldKept
  <2>6. CASE dbSpot' = dbSpot - (sw.spot - vSpot) /\ Executed(known.m) = 0
    <3>1. dbSpot' >= vSpot'
      BY <1>0, <2>1, <2>4, <2>6
    <3>2. Executed(known.m)' = 0
      BY <2>1, <2>6 DEF Executed
    <3>3. Unsold(Executed(known.m))'
      BY <1>0, <2>1, <2>6, <3>1, <3>2 DEF Unsold
    <3> QED
      BY <2>1, <2>3, <2>4, <3>1, <3>3 DEF SpotInv, SpotNotForgotten
  <2>7. CASE CheckBalance /\ dbSpot' # dbSpot
    <3>1. sw.spot - vSpot > 0 /\ spotDeficit
      BY <1>0, <2>7 DEF CheckBalance
    <3> QED
      BY <2>6, <2>7, <3>1 DEF CheckBalance
  <2> QED
    BY <1>7, <2>5, <2>7 DEF NoBalance, row
<1> QED
  BY <1>1, <1>2, <1>3, <1>4, <1>5, <1>6, <1>7 DEF SpotStopStep

LEMMA SoldUnderGuard ==
    ASSUME "refound" \notin StopFaults, StopTypeOK, StopTypeOK', Named, SpotInv,
           [StopNext]_stopVars, GuardStep
    PROVE  SpotInv'
<1>0. /\ sw \in SweepType /\ sw.m \in Id \cup {0} /\ known.m \in Id \cup {0}
      /\ dbSpot \in Int /\ vSpot \in Int /\ Executed(sw.m) \in Nat /\ Executed(known.m) \in Nat
      /\ dbSpot >= vSpot
  BY FrameInt, SpotNumbers DEF SpotInv, SpotNotForgotten
<1>n. grace = NoGrace /\ sw.pc # "buyback"
  BY DEF SpotInv, GuardStep, GuardPasses, GuardStarts, GuardWaits, GuardActs, Confirmed, DeficitSeen,
         BookPerp, BookTwin, GuardFinishes, FreeTheSpot, StartSellDown
<1> USE DEF SweepPlace
<1>1. ASSUME GuardPasses \/ GuardStarts \/ GuardWaits \/ GuardFinishes \/ StartSellDown PROVE SpotInv'
  <2>1. UNCHANGED <<dbSpot, vSpot, known, grace>>
    BY <1>1 DEF GuardPasses, GuardStarts, GuardWaits, GuardFinishes, StartSellDown, world, row, memory
  <2>2. sw'.pc \in {"idle", "ensure"}
    BY <1>1, FrameRests, FramePassesGuard
    DEF GuardPasses, GuardStarts, GuardWaits, GuardFinishes, StartSellDown
  <2>3. FrameSold'
    BY <2>2 DEF FrameSold
  <2> QED
    BY <1>n, <2>1, <2>3, SoldKept
<1>2. ASSUME GuardActs PROVE SpotInv'
  <2>1. UNCHANGED <<ord, dbSpot, vSpot, known, grace>>
    BY <1>2 DEF GuardActs, world, row
  <2>2. PICK m \in Found \cup {known.m} :
           sw' = [sw EXCEPT !.pc = "which", !.a = known.a, !.m = m, !.venue = risk.perp]
    BY <1>2 DEF GuardActs, Sweep
  <2>3. sw'.pc = "which" /\ sw'.m = m
    BY <1>0, <2>2 DEF SweepType
  <2>4. Unsold(Executed(m))
    <3>1. CASE m \in Found
      <4>1. Executed(m) = 0
        BY <3>1 DEF Found, Executed
      <4> QED
        BY <1>0, <4>1 DEF Unsold
    <3>2. CASE m = known.m /\ known.m # 0
      BY <1>n, <3>2 DEF SpotInv
    <3>3. CASE m = 0
      <4>1. Executed(m) = 0
        BY <3>3 DEF Executed
      <4> QED
        BY <1>0, <4>1 DEF Unsold
    <3> QED
      BY <3>1, <3>2, <3>3
  <2>5. Unsold(Executed(sw.m))'
    BY <2>1, <2>3, <2>4 DEF Unsold, Executed
  <2>6. FrameSold'
    BY <2>3, <2>5 DEF FrameSold
  <2> QED
    BY <1>n, <2>1, <2>6, SoldKept
<1>3. ASSUME BookPerp PROVE SpotInv'
  <2>1. sw.pc = "which" /\ UNCHANGED <<ord, dbSpot, vSpot, known, grace>>
    BY <1>3 DEF BookPerp, world
  <2>2. sw'.pc = "idle" \/ (sw'.pc = "twin" /\ sw'.m = sw.m)
    <3>1. Rest \/ Goes("twin")
      BY <1>3 DEF BookPerp
    <3> QED
      BY <1>0, <3>1, FrameRests, FrameGoes
  <2>3. Unsold(Executed(sw.m))
    BY <2>1 DEF SpotInv, FrameSold
  <2>4. sw'.m = sw.m => Unsold(Executed(sw.m))'
    BY <2>1, <2>3 DEF Unsold, Executed
  <2>5. FrameSold'
    BY <2>2, <2>4 DEF FrameSold
  <2> QED
    BY <1>n, <2>1, <2>5, SoldKept
<1>4. ASSUME BookTwin PROVE SpotInv'
  <2>1. /\ sw.pc = "twin" /\ UNCHANGED <<ord, vSpot>> /\ dbSpot' = dbSpot - Executed(sw.m)
        /\ known'.m = 0
    BY <1>4 DEF BookTwin, world, NoStops
  <2>2. dbSpot - vSpot >= Executed(sw.m)
    BY <2>1 DEF SpotInv, FrameSold, Unsold
  <2>3. SpotNotForgotten'
    BY <1>0, <2>1, <2>2 DEF SpotNotForgotten
  <2>4. CASE Rest /\ grace' = [m |-> sw.m, booked |-> Executed(sw.m), floor |-> sw.venue]
    <3>1. sw'.pc = "idle"
      BY <2>4, FrameRests
    <3>2. Executed(grace.m)' = Executed(sw.m) /\ grace'.booked = Executed(sw.m)
      BY <2>1, <2>4 DEF Executed
    <3>3. dbSpot' - vSpot' >= Executed(grace.m)' - grace'.booked
      BY <1>0, <2>1, <2>2, <3>2
    <3>4. FrameSold'
      BY <3>1 DEF FrameSold
    <3> QED
      BY <2>1, <2>3, <3>1, <3>3, <3>4 DEF SpotInv, Unsold
  <2>5. CASE grace' = grace /\ (Goes("finish") \/ Goes("free"))
    <3>1. sw'.pc \in {"finish", "free"}
      BY <1>0, <2>5, FrameGoes
    <3>2. FrameSold'
      BY <3>1 DEF FrameSold
    <3> QED
      BY <1>n, <2>1, <2>3, <2>5, <3>2 DEF SpotInv
  <2> QED
    BY <1>4, <2>4, <2>5 DEF BookTwin
<1>5. ASSUME FreeTheSpot PROVE SpotInv'
  <2>1. UNCHANGED <<dbSpot, vSpot>> /\ known'.m = 0 /\ grace' = NoGrace
    BY <1>5 DEF FreeTheSpot, row, NoStops
  <2>2. sw'.pc = "selldown"
    BY <1>0, <1>5, FrameGoes DEF FreeTheSpot
  <2>3. FrameSold'
    BY <2>2 DEF FrameSold
  <2> QED
    BY <2>1, <2>3, SoldKept
<1> QED
  BY <1>1, <1>2, <1>3, <1>4, <1>5 DEF GuardStep

LEMMA SoldUnderGrace ==
    ASSUME StopTypeOK, StopTypeOK', Named, SpotInv, [StopNext]_stopVars, GraceStep
    PROVE  SpotInv'
<1>0. /\ sw \in SweepType /\ sw.booked \in Int /\ grace \in GraceType
      /\ dbSpot \in Int /\ vSpot \in Int /\ Executed(sw.m) \in Nat
  BY FrameInt, SpotNumbers DEF StopTypeOK, EngineTyped
<1> USE DEF SweepPlace
<1>1. ASSUME NEW over \in BOOLEAN, GraceLooks(over) PROVE SpotInv'
  <2>1. /\ sw.pc = "grace" /\ UNCHANGED <<ord, vSpot, known>>
        /\ dbSpot' = dbSpot - (Executed(sw.m) - sw.booked)
    BY <1>1, Zenon DEF GraceLooks, world
  <2>2. /\ known.m = 0 /\ dbSpot - vSpot >= Executed(sw.m) - sw.booked
        /\ grace # NoGrace => grace.m = sw.m
    BY <2>1 DEF SpotInv, FrameSold, Unsold
  <2>3. SpotNotForgotten'
    BY <1>0, <2>1, <2>2 DEF SpotNotForgotten
  <2>4. \/ Rest /\ (grace' = NoGrace
                    \/ (grace # NoGrace /\ grace' = [grace EXCEPT !.booked = Executed(sw.m)]))
        \/ grace' = NoGrace /\ (Goes("finish") \/ Goes("lapse") \/ Goes("selldown"))
    BY <1>1, Zenon DEF GraceLooks
  <2>5. sw'.pc \in {"idle", "finish", "lapse", "selldown"} /\ (grace' # NoGrace => sw'.pc = "idle")
    BY <1>0, <2>4, FrameRests, FrameGoes
  <2>6. FrameSold'
    BY <2>5 DEF FrameSold
  <2>7. ASSUME grace' # NoGrace PROVE Unsold(Executed(grace.m) - grace.booked)'
    <3>1. grace # NoGrace /\ grace' = [grace EXCEPT !.booked = Executed(sw.m)]
      BY <2>4, <2>7
    <3>2. grace'.m = sw.m /\ grace'.booked = Executed(sw.m)
      BY <1>0, <2>2, <3>1 DEF GraceType
    <3>3. Executed(grace.m)' = Executed(sw.m)
      BY <2>1, <3>2 DEF Executed
    <3>4. dbSpot' - vSpot' >= Executed(grace.m)' - grace'.booked
      BY <1>0, <2>1, <2>2, <3>2, <3>3
    <3> QED
      BY <3>4 DEF Unsold
  <2> QED
    BY <2>1, <2>2, <2>3, <2>5, <2>6, <2>7 DEF SpotInv
<1>2. ASSUME GraceLookupFails \/ GraceLapses PROVE SpotInv'
  <2>1. /\ UNCHANGED <<dbSpot, vSpot, known, grace>>
        /\ \/ sw.pc = "grace" /\ Rest
           \/ sw.pc = "lapse" /\ Goes("selldown")
    BY <1>2 DEF GraceLookupFails, GraceLapses, world, row, memory
  <2>2. \/ sw.pc = "grace" /\ sw'.pc = "idle"
        \/ sw.pc = "lapse" /\ sw'.pc = "selldown"
    BY <1>0, <2>1, FrameRests, FrameGoes
  <2>3. FrameSold'
    BY <2>2 DEF FrameSold
  <2> QED
    BY <2>1, <2>2, <2>3, SoldKept
<1> QED
  BY <1>1, <1>2 DEF GraceStep

LEMMA SoldUnderEnsure ==
    ASSUME StopTypeOK, StopTypeOK', Named, SpotInv, [StopNext]_stopVars, EnsureStep
    PROVE  SpotInv'
<1>0. /\ sw \in SweepType /\ known \in StopsType /\ dbSpot \in Int /\ vSpot \in Int
  BY FrameInt, SpotNumbers DEF StopTypeOK, EngineTyped
<1> USE DEF SweepPlace
<1>n. grace = NoGrace /\ sw.pc # "buyback"
  BY DEF SpotInv, EnsureStep, NoStopsNow, EnsureStops, ClearStops, ArmPerp, ArmSpot
<1>1. ASSUME NoStopsNow \/ EnsureStops \/ ClearStops \/ ArmPerp PROVE SpotInv'
  <2>1. UNCHANGED <<dbSpot, vSpot, known, grace>>
    BY <1>1 DEF NoStopsNow, EnsureStops, ClearStops, ArmPerp, world, row, memory
  <2>2. \/ Rest \/ Goes("armperp")
        \/ sw' = [sw EXCEPT !.pc = "clear", !.perp = dbPerp, !.spot = dbSpot]
        \/ \E a \in Int : sw' = [sw EXCEPT !.pc = "armspot", !.a = a]
    <3>1. Placed + 1 \in Int /\ 0 \in Int
      BY PlacedCounts
    <3> QED
      BY <1>1, <3>1 DEF NoStopsNow, EnsureStops, ClearStops, ArmPerp, Sweep
  <2>3. sw'.pc \in {"idle", "clear", "armperp", "armspot"}
    BY <1>0, <2>2, FrameRests, FrameGoes DEF SweepType
  <2>4. FrameSold'
    BY <2>3 DEF FrameSold
  <2> QED
    BY <1>n, <2>1, <2>4, SoldKept
<1>2. ASSUME ArmSpot PROVE SpotInv'
  <2>1. UNCHANGED <<dbSpot, vSpot, grace>> /\ sw'.pc = "idle"
    BY <1>2, FrameRests DEF ArmSpot, row
  <2>2. FrameSold'
    BY <2>1 DEF FrameSold
  <2>3. CASE known'.m = 0
    BY <1>n, <2>1, <2>2, <2>3, SoldKept
  <2>4. CASE ord' = Placing("spot", sw.spot) /\ known'.m = Placed + 1
    <3>1. Placed + 1 \in Id
      BY <1>2, PlacedCounts, StopConstants DEF ArmSpot, StopTypeOK, Roomy, SlotsLeft, Id
    <3>2. ord'[Placed + 1].exec = 0
      BY <2>4, <3>1, FrameInt, PlacedOne DEF StopTypeOK, VenueTyped
    <3>3. Executed(known.m)' = 0
      BY <2>4, <3>2 DEF Executed
    <3>4. dbSpot >= vSpot
      BY DEF SpotInv, SpotNotForgotten
    <3>5. dbSpot' - vSpot' >= Executed(known.m)'
      BY <1>0, <2>1, <3>3, <3>4
    <3> QED
      BY <1>n, <2>1, <2>2, <3>4, <3>5 DEF SpotInv, SpotNotForgotten, Unsold
  <2>5. \/ known'.m = 0
        \/ ord' = Placing("spot", sw.spot) /\ known'.m = Placed + 1
    BY <1>2 DEF ArmSpot
  <2> QED
    BY <2>3, <2>4, <2>5
<1> QED
  BY <1>1, <1>2 DEF EnsureStep

\* A sale that a stop made is booked once, so the rows never hold less spot than
\* the wallet: whichever of the poll, the guard, the grace window and the balance
\* check sees it first takes it out of reach of the others, or remembers what it
\* booked.  Proved where no fault that breaks it is at work and /stops does not cut
\* in, and with every other fault.
THEOREM SpotIsBookedOnce ==
    ASSUME (BooksTwice \cup {"stops_cut_in"}) \cap StopFaults = {}
    PROVE  StopSpec => []SpotNotForgotten
<1> DEFINE Inv == Named /\ SpotInv
<1>1. StopInit => Inv
  <2> SUFFICES ASSUME StopInit PROVE Inv
    OBVIOUS
  <2>1. /\ dbSpot = vSpot /\ vSpot \in Nat /\ sw.pc = "idle" /\ grace = NoGrace
        /\ known.m = 0 /\ grace.m = 0 /\ sw.m = 0 /\ \A o \in Id : ord[o].st = "none"
    BY StopConstants DEF StopInit, Asleep, NoGrace, NoStops
  <2>2. Placed = 0
    <3>1. {o \in Id : ord[o].st # "none"} = {}
      BY <2>1
    <3> QED
      BY <3>1, FS_EmptySet DEF Placed
  <2>3. Named
    BY <2>1, <2>2 DEF Named, InTurn, SpotOrder, Id
  <2>4. SpotInv
    BY <2>1 DEF SpotInv, SpotNotForgotten, FrameSold
  <2> QED
    BY <2>3, <2>4
<1>2. StopTypeOK /\ StopTypeOK' /\ Apart /\ Inv /\ [StopNext]_stopVars => Inv'
  <2> SUFFICES ASSUME StopTypeOK, StopTypeOK', Apart, Named, SpotInv, [StopNext]_stopVars
               PROVE  Named' /\ SpotInv'
    OBVIOUS
  <2>1. Named'
    BY NamedStep
  <2>2. CASE UNCHANGED stopVars
    <3>1. UNCHANGED <<dbSpot, vSpot, sw, known, grace>> /\ ord' = ord
      BY <2>2 DEF stopVars, world, row, memory
    <3>2. dbSpot' - vSpot' >= dbSpot - vSpot
      BY <3>1, SpotNumbers
    <3>3. FrameSold'
      BY <3>1, <3>2, FrameSoldStays
    <3> QED
      BY <2>1, <3>1, <3>3, SoldKept
  <2>3. CASE StopNext
    BY <2>1, <2>3, SoldUnderVenue, SoldUnderTasks, SoldUnderSpotStop, SoldUnderGuard, SoldUnderGrace,
       SoldUnderEnsure, SoldUnderCommands
    DEF StopNext, SweepStep, BooksTwice
  <2> QED
    BY <2>1, <2>2, <2>3
<1>3. Inv => SpotNotForgotten
  BY DEF SpotInv
<1>4. StopSpec => []Apart
  BY ApartInvariance
<1> QED
  BY <1>1, <1>2, <1>3, <1>4, StopTypes, PTL DEF StopSpec

================================================================================
