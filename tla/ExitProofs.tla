------------------------------- MODULE ExitProofs -------------------------------
(***************************************************************************)
(* Proofs about the coroutines of an exit, for any sizes, floors and       *)
(* bounds, any number of callers and every fault, as long as no two callers*)
(* replace the task at once: at most one exit task works on a position     *)
(* (OneTask), and its frame has the shape of the await it is at (ShapeInv).*)
(* The effect lemmas say what every step makes of that frame; the proofs   *)
(* about the legs and the rows rest on them.                               *)
(***************************************************************************)
EXTENDS ExitRun, TLAPS

\* No two callers are between _cancel_task and the end of _spawn at once.
OneReplacer ==
    \A c, d \in Callers : {caller[c].pc, caller[d].pc} \subseteq {"cancel", "await"} => c = d

\* A frame that waits for a cancellation has an order, and one with a leg on its
\* way waits for it.
FrameOK(f) ==
    /\ f \in TaskType
    /\ f.pc = "cancel" => f.oid # 0
    /\ f.perpLeg.at = "sent" \/ f.spotLeg.at = "sent" => f.pc = "sent"

\* The venues, the rows and the observations.
World ==
    /\ ost \in [Order -> {"none", "sent", "open", "filled", "cancelled", "rejected"}]
    /\ oqty \in [Order -> Nat] /\ exec \in [Order -> Nat] /\ placed \in Nat
    /\ vPerp \in Int /\ vSpot \in Nat /\ lock \in BOOLEAN /\ adl \in Nat
    /\ state \in {"OPEN", "EXITING", "CLOSED"}
    /\ mode \in {"none", "passive", "now"} /\ floorReq \in Nat
    /\ dbPerp \in Int /\ dbSpot \in Int
    /\ requests \in Nat /\ taker \in BOOLEAN /\ warned \in BOOLEAN

\* The registry knows the task that works, and so does the caller that waits.
Registry ==
    /\ tasks \in [TaskId -> TaskType] /\ latest \in TaskId \cup {0} /\ spawned = latest
    /\ caller \in [Callers -> CallerType]
    /\ \A i \in TaskId : FrameOK(tasks[i])
    /\ \A i \in TaskId : Alive(i) => i = latest
    /\ \A c \in Callers : caller[c].pc = "await" => caller[c].waits = latest

RegistryInv == World /\ Registry

-------------------------------------------------------------------------------
LEMMA LargerOf ==
    ASSUME NEW a \in Int, NEW b \in Int
    PROVE  Max({a, b}) \in {a, b} /\ Max({a, b}) >= a /\ Max({a, b}) >= b
<1>1. \E x \in {a, b} : \A y \in {a, b} : x >= y
  OBVIOUS
<1> QED
  BY <1>1 DEF Max

LEMMA SmallerOf ==
    ASSUME NEW a \in Int, NEW b \in Int
    PROVE  Min({a, b}) \in {a, b} /\ Min({a, b}) <= a /\ Min({a, b}) <= b
<1>1. \E x \in {a, b} : \A y \in {a, b} : x =< y
  OBVIOUS
<1> QED
  BY <1>1 DEF Min

LEMMA AtLeast0Nat ==
    ASSUME NEW n \in Int
    PROVE  AtLeast0(n) \in Nat /\ AtLeast0(n) >= n /\ (AtLeast0(n) = n \/ AtLeast0(n) = 0)
  BY LargerOf DEF AtLeast0

LEMMA UnbornOK == FrameOK(Unborn) /\ Unborn.pc = "dead" /\ NoSale \in SaleType /\ NoLeg \in LegType
  BY DEF FrameOK, Unborn, TaskType, NoSale, NoLeg, SaleType, LegType

LEMMA RegistryInit == ExitInit => RegistryInv
<1> SUFFICES ASSUME ExitInit PROVE RegistryInv
  OBVIOUS
<1>1. World
  <2>1. Size \in Nat
    BY ExitAssumption
  <2>2. /\ ost \in [Order -> {"none", "sent", "open", "filled", "cancelled", "rejected"}]
        /\ oqty \in [Order -> Nat] /\ exec \in [Order -> Nat]
    BY DEF ExitInit
  <2>3. lock \in BOOLEAN /\ taker \in BOOLEAN /\ warned \in BOOLEAN
    BY Zenon DEF ExitInit
  <2>4. /\ placed \in Nat /\ vPerp \in Int /\ vSpot \in Nat /\ adl \in Nat /\ floorReq \in Nat
        /\ dbPerp \in Int /\ dbSpot \in Int /\ requests \in Nat
    BY <2>1 DEF ExitInit
  <2>5. state \in {"OPEN", "EXITING", "CLOSED"} /\ mode \in {"none", "passive", "now"}
    BY DEF ExitInit
  <2> QED
    BY <2>2, <2>3, <2>4, <2>5, Zenon DEF World
<1>2. \A c \in Callers : caller[c] = Idle
  BY DEF ExitInit
<1>3. Idle \in CallerType /\ Idle.pc = "idle"
  BY DEF Idle, CallerType
<1>4. caller \in [Callers -> CallerType]
  BY <1>3 DEF ExitInit
<1>5. Unborn \in TaskType
  BY UnbornOK DEF FrameOK
<1>6. tasks \in [TaskId -> TaskType] /\ \A i \in TaskId : tasks[i] = Unborn
  BY <1>5 DEF ExitInit
<1> QED
  BY <1>1, <1>2, <1>3, <1>4, <1>6, UnbornOK DEF ExitInit, RegistryInv, Registry, Alive

\* A step of a task changes its frame and revives nobody.
LEMMA FrameStep ==
    ASSUME Registry, NEW i \in TaskId, NEW f, FrameOK(f), f.pc # "dead" => Alive(i),
           Become(i, f), UNCHANGED <<latest, spawned, caller>>
    PROVE  Registry'
<1>1. tasks' \in [TaskId -> TaskType] /\ tasks'[i] = f /\ \A j \in TaskId \ {i} : tasks'[j] = tasks[j]
  BY DEF Registry, Become, FrameOK
<1>2. \A j \in TaskId : FrameOK(tasks'[j])
  BY <1>1 DEF Registry
<1>3. \A j \in TaskId : Alive(j)' => Alive(j)
  BY <1>1 DEF Alive
<1>4. \A j \in TaskId : FrameOK(tasks[j])'
  BY <1>2 DEF FrameOK
<1> QED
  BY <1>1, <1>3, <1>4 DEF Registry

LEMMA TaskFrame ==
    ASSUME Registry, NEW i \in TaskId
    PROVE  tasks[i] \in TaskType /\ FrameOK(tasks[i])
  BY DEF Registry

\* A task goes on to another await, or ends.
LEMMA GoesOK ==
    ASSUME Registry, NEW i \in TaskId, Alive(i),
           NEW pc \in {"dead", "start", "top", "placing", "sell", "selling", "check", "wait",
                       "complete", "accrue"},
           tasks[i].pc # "sent"
    PROVE  LET f == [tasks[i] EXCEPT !.pc = pc] IN FrameOK(f)
  BY TaskFrame DEF FrameOK, TaskType

LEMMA EndsOK ==
    ASSUME Registry, NEW i \in TaskId
    PROVE  LET f == [Unborn EXCEPT !.sale = tasks[i].sale] IN FrameOK(f) /\ f.pc = "dead"
  BY TaskFrame, UnbornOK DEF FrameOK, TaskType, Unborn

LEMMA WorldStays ==
    ASSUME World, UNCHANGED <<venue, rows, requests, taker, warned>>
    PROVE  World'
  BY DEF World, venue, book, rows

\* The executed quantity of the order at hand.
LEMMA NewlyInt ==
    ASSUME RegistryInv, NEW i \in TaskId, tasks[i].oid # 0
    PROVE  /\ tasks[i].oid \in Order /\ exec[tasks[i].oid] \in Nat /\ Newly(i) \in Int
           /\ Newly(i) = exec[tasks[i].oid] - tasks[i].seen
<1>1. tasks[i] \in TaskType
  BY TaskFrame DEF RegistryInv
<1>2. tasks[i].oid \in Order /\ tasks[i].seen \in Nat
  BY <1>1 DEF TaskType
<1> QED
  BY <1>2 DEF Newly, RegistryInv, World

LEMMA SoldButOK ==
    ASSUME Registry, NEW i \in TaskId, Alive(i), tasks[i].pc # "sent", NEW q \in Int
    PROVE  FrameOK(SoldBut(i, q))
<1>1. tasks[i] \in TaskType /\ FrameOK(tasks[i])
  BY TaskFrame
<1> DEFINE f == [tasks[i] EXCEPT !.toSell = q, !.sale = NoSale]
           pc == IF f.ending /\ q <= 0 THEN "complete" ELSE "top"
<1>2. FrameOK(f) /\ f.pc # "sent"
  BY <1>1, UnbornOK DEF FrameOK, TaskType
<1>3. pc \in {"complete", "top"}
  OBVIOUS
<1>4. SoldBut(i, q) \in {Unborn, [f EXCEPT !.pc = pc, !.force = FALSE, !.ending = FALSE]}
  BY DEF SoldBut
<1> HIDE DEF f, pc
<1>5. FrameOK([f EXCEPT !.pc = pc, !.force = FALSE, !.ending = FALSE])
  BY <1>2, <1>3 DEF FrameOK, TaskType
<1> QED
  BY <1>4, <1>5, UnbornOK

LEMMA ModeChangedRegistry ==
    ASSUME RegistryInv, NEW i \in TaskId, ModeChanged(i)
    PROVE  RegistryInv'
<1>1. World'
  BY WorldStays DEF ModeChanged, RegistryInv
<1>2. Registry'
  BY FrameStep, EndsOK DEF ModeChanged, Ends, RegistryInv
<1> QED
  BY <1>1, <1>2 DEF RegistryInv

\* Whether a cancel succeeds or fails, an order is in one of its states.
LEMMA CancelsTyped ==
    ASSUME RegistryInv, NEW o, Cancels(o)
    PROVE  ost' \in [Order -> {"none", "sent", "open", "filled", "cancelled", "rejected"}]
  BY DEF Cancels, RegistryInv, World

LEMMA EndPhaseRegistry ==
    ASSUME RegistryInv, NEW i \in TaskId, EndPhase(i)
    PROVE  RegistryInv'
<1> DEFINE f == [tasks[i] EXCEPT !.pc = "sell", !.oid = 0, !.force = TRUE, !.ending = TRUE,
                                 !.toSell = Max({@, dbSpot - tasks[i].floor})]
<1>1. tasks[i] \in TaskType /\ FrameOK(tasks[i]) /\ tasks[i].pc = "top"
  BY TaskFrame DEF RegistryInv, EndPhase, AtTop
<1>2. Max({tasks[i].toSell, dbSpot - tasks[i].floor}) \in Int
  <2>1. tasks[i].toSell \in Int /\ tasks[i].floor \in Int /\ dbSpot \in Int
    BY <1>1 DEF TaskType, RegistryInv, World
  <2>2. dbSpot - tasks[i].floor \in Int
    BY <2>1
  <2> QED
    BY <2>1, <2>2, LargerOf
<1>3. FrameOK(f)
  BY <1>1, <1>2 DEF FrameOK, TaskType
<1>4. World'
  <2>1. ost' \in [Order -> {"none", "sent", "open", "filled", "cancelled", "rejected"}]
    BY CancelsTyped DEF EndPhase
  <2> QED
    BY <2>1 DEF EndPhase, RegistryInv, World, rows
<1>5. Become(i, f) /\ Alive(i)
  BY <1>1 DEF EndPhase, Alive
<1> HIDE DEF f
<1>6. Registry'
  BY <1>3, <1>5, FrameStep DEF EndPhase, RegistryInv
<1> QED
  BY <1>4, <1>6 DEF RegistryInv

LEMMA RestNothingRegistry ==
    ASSUME RegistryInv, NEW i \in TaskId, RestNothing(i)
    PROVE  RegistryInv'
<1>1. World'
  BY WorldStays DEF RestNothing, RegistryInv
<1>2. tasks[i].pc = "top" /\ Alive(i)
  BY DEF RestNothing, AtTop, Alive
<1>3. Registry'
  BY <1>2, FrameStep, GoesOK DEF RestNothing, Goes, RegistryInv
<1> QED
  BY <1>1, <1>3 DEF RegistryInv

LEMMA PlaceRegistry ==
    ASSUME RegistryInv, NEW i \in TaskId, NEW q \in 1..Size, Place(i, q)
    PROVE  RegistryInv'
<1> DEFINE f == [tasks[i] EXCEPT !.pc = "placing", !.oid = placed', !.seen = 0]
<1>1. tasks[i] \in TaskType /\ FrameOK(tasks[i]) /\ tasks[i].pc = "top"
  BY TaskFrame DEF RegistryInv, Place, AtTop
<1>2. placed' \in Order /\ placed' \in Nat /\ q \in Nat
  BY ExitAssumption, SMTT(30) DEF Place, RegistryInv, World, Order
<1>3. FrameOK(f)
  BY <1>1, <1>2 DEF FrameOK, TaskType
<1>4. World'
  <2>1. /\ ost' \in [Order -> {"none", "sent", "open", "filled", "cancelled", "rejected"}]
        /\ oqty' \in [Order -> Nat]
    BY <1>2 DEF Place, RegistryInv, World
  <2> QED
    BY <1>2, <2>1 DEF Place, RegistryInv, World, rows
<1>5. Become(i, f) /\ Alive(i)
  BY <1>1 DEF Place, Alive
<1> HIDE DEF f
<1>6. Registry'
  BY <1>3, <1>5, FrameStep DEF Place, RegistryInv
<1> QED
  BY <1>4, <1>6 DEF RegistryInv

LEMMA PlaceRepliesRegistry ==
    ASSUME RegistryInv, NEW i \in TaskId, PlaceReplies(i)
    PROVE  RegistryInv'
<1>1. World'
  BY WorldStays DEF PlaceReplies, RegistryInv
<1>2. tasks[i] \in TaskType /\ FrameOK(tasks[i]) /\ tasks[i].pc = "placing" /\ Alive(i)
  BY TaskFrame DEF RegistryInv, PlaceReplies, Alive
<1> DEFINE f == [tasks[i] EXCEPT !.pc = "sell"]
           g == [tasks[i] EXCEPT !.pc = "sell", !.oid = 0]
<1>3. FrameOK(f) /\ FrameOK(g)
  BY <1>2 DEF FrameOK, TaskType
<1>4. Become(i, f) \/ Become(i, g)
  BY DEF PlaceReplies, Goes
<1> HIDE DEF f, g
<1>5. Registry'
  BY <1>2, <1>3, <1>4, FrameStep DEF PlaceReplies, RegistryInv
<1> QED
  BY <1>1, <1>5 DEF RegistryInv

LEMMA AbsorbedOK ==
    ASSUME RegistryInv, NEW i \in TaskId, tasks[i].oid # 0
    PROVE  FrameOK(Absorbed(i)) /\ Absorbed(i).pc = tasks[i].pc /\ Absorbed(i).oid = tasks[i].oid
<1>1. tasks[i] \in TaskType /\ FrameOK(tasks[i])
  BY TaskFrame DEF RegistryInv
<1>2. exec[tasks[i].oid] \in Nat /\ Newly(i) \in Int /\ tasks[i].toSell + Newly(i) \in Int
  <2>1. Newly(i) \in Int /\ exec[tasks[i].oid] \in Nat
    BY NewlyInt
  <2>2. tasks[i].toSell \in Int
    BY <1>1 DEF TaskType
  <2> QED
    BY <2>1, <2>2
<1> QED
  BY <1>1, <1>2 DEF Absorbed, FrameOK, TaskType

LEMMA PollRegistry ==
    ASSUME RegistryInv, NEW i \in TaskId, NEW reprice \in BOOLEAN, Poll(i, reprice)
    PROVE  RegistryInv'
<1> DEFINE a == Absorbed(i)
           f == [a EXCEPT !.pc = IF reprice THEN "cancel" ELSE "sell"]
           g == [a EXCEPT !.pc = "sell", !.oid = 0]
<1>1. tasks[i].pc = "top" /\ tasks[i].oid # 0 /\ Alive(i)
  BY DEF Poll, AtTop, Alive
<1>2. World'
  BY <1>1, NewlyInt DEF Poll, RegistryInv, World, venue, book
<1>3. FrameOK(a) /\ a.pc = "top" /\ a.oid # 0
  BY <1>1, AbsorbedOK
<1>4. Become(i, f) \/ Become(i, g)
  BY DEF Poll
<1> HIDE DEF a
<1>5. FrameOK(f) /\ FrameOK(g)
  BY <1>3 DEF FrameOK, TaskType
<1> HIDE DEF f, g
<1>6. Registry'
  BY <1>1, <1>4, <1>5, FrameStep DEF Poll, RegistryInv
<1> QED
  BY <1>2, <1>6 DEF RegistryInv

LEMMA PollFailsRegistry ==
    ASSUME RegistryInv, NEW i \in TaskId, PollFails(i)
    PROVE  RegistryInv'
<1>1. World'
  BY WorldStays DEF PollFails, RegistryInv
<1>2. Registry'
  BY FrameStep, EndsOK DEF PollFails, Ends, RegistryInv
<1> QED
  BY <1>1, <1>2 DEF RegistryInv

LEMMA CancelOrderRegistry ==
    ASSUME RegistryInv, NEW i \in TaskId, CancelOrder(i)
    PROVE  RegistryInv'
<1> DEFINE a == Absorbed(i)
           f == [a EXCEPT !.oid = 0, !.pc = IF tasks[i].dying THEN "check" ELSE "sell"]
<1>1. tasks[i].pc = "cancel" /\ tasks[i].oid # 0 /\ Alive(i)
  BY TaskFrame DEF CancelOrder, Alive, FrameOK, RegistryInv
<1>2. World'
  <2>1. ost' \in [Order -> {"none", "sent", "open", "filled", "cancelled", "rejected"}]
    BY CancelsTyped DEF CancelOrder
  <2>2. dbPerp' \in Int
    BY <1>1, NewlyInt DEF CancelOrder, RegistryInv, World
  <2> QED
    BY <2>1, <2>2 DEF CancelOrder, RegistryInv, World
<1>3. FrameOK(a) /\ a.pc = "cancel"
  BY <1>1, AbsorbedOK
<1>4. Become(i, f)
  BY DEF CancelOrder
<1> HIDE DEF a
<1>5. FrameOK(f)
  BY <1>3 DEF FrameOK, TaskType
<1> HIDE DEF f
<1>6. Registry'
  BY <1>1, <1>4, <1>5, FrameStep DEF CancelOrder, RegistryInv
<1> QED
  BY <1>2, <1>6 DEF RegistryInv

LEMMA LastLookFailsRegistry ==
    ASSUME RegistryInv, NEW i \in TaskId, LastLookFails(i)
    PROVE  RegistryInv'
<1> DEFINE f == [tasks[i] EXCEPT !.oid = 0, !.pc = "check"]
<1>1. World'
  <2>1. ost' \in [Order -> {"none", "sent", "open", "filled", "cancelled", "rejected"}]
    BY CancelsTyped DEF LastLookFails
  <2> QED
    BY <2>1 DEF LastLookFails, RegistryInv, World, rows
<1>2. FrameOK(tasks[i]) /\ Alive(i) /\ tasks[i].pc # "sent"
  <2>1. tasks[i].pc \in {"cancel", "top"}
    BY DEF LastLookFails, AtTop
  <2> QED
    BY <2>1, TaskFrame DEF Alive, RegistryInv
<1>3. FrameOK(f)
  BY <1>2 DEF FrameOK, TaskType
<1>4. CASE tasks[i].dying
  <2>1. Become(i, f)
    BY <1>4 DEF LastLookFails
  <2> HIDE DEF f
  <2>2. Registry'
    BY <1>2, <1>3, <2>1, FrameStep DEF LastLookFails, RegistryInv
  <2> QED
    BY <1>1, <2>2 DEF RegistryInv
<1>5. CASE ~tasks[i].dying
  <2>1. Registry'
    BY <1>5, FrameStep, EndsOK DEF LastLookFails, Ends, RegistryInv
  <2> QED
    BY <1>1, <2>1 DEF RegistryInv
<1> QED
  BY <1>4, <1>5

LEMMA SaleOfOK == ASSUME NEW q \in Int PROVE SaleOf(q) \in SaleType
  BY UnbornOK DEF SaleOf, SaleType

\* A sale step changes nothing of its frame but the sale.
LEMMA WithSaleOK ==
    ASSUME NEW f, FrameOK(f), NEW s \in SaleType
    PROVE  LET g == [f EXCEPT !.sale = s] IN FrameOK(g) /\ g.pc = f.pc
  BY DEF FrameOK, TaskType

LEMMA SkipSaleRegistry ==
    ASSUME RegistryInv, NEW i \in TaskId, SkipSale(i)
    PROVE  RegistryInv'
<1>1. World'
  BY WorldStays DEF SkipSale, RegistryInv
<1>2. tasks[i] \in TaskType /\ tasks[i].pc = "sell" /\ Alive(i)
  BY TaskFrame DEF RegistryInv, SkipSale, Alive
<1>3. tasks[i].toSell \in Int
  BY <1>2 DEF TaskType
<1>4. FrameOK(SoldBut(i, tasks[i].toSell)) /\ FrameOK(SoldBut(i, 0))
  BY <1>2, <1>3, SoldButOK DEF RegistryInv
<1>5. Become(i, SoldBut(i, tasks[i].toSell)) \/ Become(i, SoldBut(i, 0))
  BY DEF SkipSale
<1>6. Registry'
  BY <1>2, <1>4, <1>5, FrameStep DEF SkipSale, RegistryInv
<1> QED
  BY <1>1, <1>6 DEF RegistryInv

LEMMA ToSellInt ==
    ASSUME RegistryInv, NEW i \in TaskId
    PROVE  /\ tasks[i].toSell \in Int /\ dbSpot \in Int
           /\ ToSell(i) \in Int /\ ToSell(i) <= tasks[i].toSell /\ ToSell(i) <= dbSpot
           /\ ToSell(i) \in {tasks[i].toSell, dbSpot}
<1>1. tasks[i].toSell \in Int /\ dbSpot \in Int
  BY TaskFrame DEF RegistryInv, World, TaskType
<1> QED
  BY <1>1, SmallerOf DEF ToSell

LEMMA BeginSaleRegistry ==
    ASSUME RegistryInv, NEW i \in TaskId, BeginSale(i)
    PROVE  RegistryInv'
<1> DEFINE s == SaleOf(ToSell(i))
           f == [tasks[i] EXCEPT !.pc = "selling", !.sale = s]
<1>1. World'
  BY WorldStays DEF BeginSale, RegistryInv
<1>2. FrameOK(tasks[i]) /\ tasks[i].pc = "sell" /\ Alive(i) /\ Become(i, f)
  BY TaskFrame DEF RegistryInv, BeginSale, Alive
<1>3. s \in SaleType
  BY ToSellInt, SaleOfOK
<1> HIDE DEF s
<1>4. FrameOK(f)
  BY <1>2, <1>3 DEF FrameOK, TaskType
<1> HIDE DEF f
<1>5. Registry'
  BY <1>2, <1>4, FrameStep DEF BeginSale, RegistryInv
<1> QED
  BY <1>1, <1>5 DEF RegistryInv

LEMMA SaleOverRegistry ==
    ASSUME RegistryInv, NEW i \in TaskId, SaleOver(i)
    PROVE  RegistryInv'
<1> DEFINE s == tasks[i].sale
           release == s.at = "done" /\ s.need > 0 /\ s.refused /\ ~tasks[i].released
           q == IF s.at = "done" THEN s.need ELSE 0
           f == SoldBut(i, q)
           g == IF release /\ f # Unborn THEN [f EXCEPT !.released = TRUE] ELSE f
<1>1. tasks[i] \in TaskType /\ tasks[i].pc = "selling" /\ Alive(i) /\ Become(i, g)
  BY TaskFrame DEF RegistryInv, SaleOver, Alive
<1>2. q \in Int
  BY <1>1 DEF TaskType, SaleType
<1>3. lock' \in BOOLEAN /\ warned' \in BOOLEAN
  BY Zenon DEF SaleOver
<1>4. World'
  <2>1. UNCHANGED <<book, vPerp, vSpot, adl, rows, requests, taker>>
    BY DEF SaleOver
  <2> QED
    BY <1>3, <2>1 DEF RegistryInv, World, book, rows
<1> HIDE DEF q, release
<1>5. FrameOK(f)
  BY <1>1, <1>2, SoldButOK DEF RegistryInv
<1> HIDE DEF f
<1>6. FrameOK(g)
  <2>1. g \in {f, [f EXCEPT !.released = TRUE]}
    BY Zenon
  <2>2. FrameOK([f EXCEPT !.released = TRUE])
    BY <1>5 DEF FrameOK, TaskType
  <2> QED
    BY <1>5, <2>1, <2>2
<1> HIDE DEF g
<1>7. Registry'
  BY <1>1, <1>6, FrameStep DEF SaleOver, RegistryInv
<1> QED
  BY <1>4, <1>7 DEF RegistryInv

LEMMA UnhedgedOK ==
    ASSUME RegistryInv, NEW i \in TaskId, tasks[i].pc # "sent"
    PROVE  FrameOK(Unhedged(i)) /\ Unhedged(i).pc = "sell"
<1>1. tasks[i] \in TaskType /\ FrameOK(tasks[i])
  BY TaskFrame DEF RegistryInv
<1>2. AtLeast0(dbSpot - dbPerp) \in Int
  <2>1. dbSpot - dbPerp \in Int
    BY DEF RegistryInv, World
  <2> QED
    BY <2>1, AtLeast0Nat
<1> QED
  BY <1>1, <1>2, UnbornOK DEF Unhedged, FrameOK, TaskType

LEMMA CheckSaleRegistry ==
    ASSUME RegistryInv, NEW i \in TaskId, CheckSale(i)
    PROVE  RegistryInv'
<1> DEFINE f == [tasks[i] EXCEPT !.pc = "wait"]
<1>1. World'
  BY WorldStays DEF CheckSale, RegistryInv
<1>2. tasks[i] \in TaskType /\ FrameOK(tasks[i]) /\ tasks[i].pc = "check" /\ Alive(i)
  BY TaskFrame DEF RegistryInv, CheckSale, Alive
<1>3. FrameOK(f)
  BY <1>2 DEF FrameOK, TaskType
<1>4. Become(i, f) \/ Become(i, Unhedged(i))
  BY DEF CheckSale, Goes
<1> HIDE DEF f
<1>5. Registry'
  BY <1>2, <1>3, <1>4, UnhedgedOK, FrameStep DEF CheckSale, RegistryInv
<1> QED
  BY <1>1, <1>5 DEF RegistryInv

LEMMA SaleAwaitedRegistry ==
    ASSUME RegistryInv, NEW i \in TaskId, SaleAwaited(i)
    PROVE  RegistryInv'
<1>1. World'
  BY DEF SaleAwaited, RegistryInv, World, venue, book, rows
<1>2. tasks[i].pc = "wait" /\ Alive(i)
  BY DEF SaleAwaited, Alive
<1>3. Become(i, Unborn) \/ Become(i, Unhedged(i))
  BY DEF SaleAwaited
<1>4. Registry'
  BY <1>2, <1>3, UnhedgedOK, UnbornOK, FrameStep DEF SaleAwaited, RegistryInv
<1> QED
  BY <1>1, <1>4 DEF RegistryInv

LEMMA PassiveStepRegistry ==
    ASSUME RegistryInv, NEW i \in TaskId, PassiveStep(i)
    PROVE  RegistryInv'
  BY ModeChangedRegistry, EndPhaseRegistry, RestNothingRegistry, PlaceRegistry,
     PlaceRepliesRegistry, PollRegistry, PollFailsRegistry, CancelOrderRegistry, LastLookFailsRegistry,
     SkipSaleRegistry, BeginSaleRegistry, SaleOverRegistry, CheckSaleRegistry,
     SaleAwaitedRegistry
  DEF PassiveStep

LEMMA LegOfOK == ASSUME NEW q \in Int, NEW on PROVE LegOf(q, on) \in LegType
  BY DEF LegOf, LegType

\* Some legs of a frame that waits for them have moved on.
LEMMA WithLegsOK ==
    ASSUME NEW f, FrameOK(f), f.pc = "sent", NEW p \in LegType, NEW s \in LegType
    PROVE  /\ FrameOK([f EXCEPT !.perpLeg = p])
           /\ FrameOK([f EXCEPT !.spotLeg = s])
  BY DEF FrameOK, TaskType

LEMMA LegsOf ==
    ASSUME RegistryInv, NEW i \in TaskId
    PROVE  tasks[i].perpLeg \in LegType /\ tasks[i].spotLeg \in LegType
  BY TaskFrame DEF RegistryInv, TaskType

LEMMA LegAnswered ==
    ASSUME NEW l \in LegType, NEW k \in Nat
    PROVE  [l EXCEPT !.at = "done", !.fill = k] \in LegType /\ [l EXCEPT !.at = "ambiguous"] \in LegType
  BY DEF LegType

LEMMA SendLegsRegistry ==
    ASSUME RegistryInv, NEW i \in TaskId, NEW legs, SendLegs(i, legs)
    PROVE  RegistryInv'
<1> DEFINE p == LegOf(Remaining(i), "perp" \in legs)
           s == LegOf(SpotLeft(i), "spot" \in legs)
           f == [tasks[i] EXCEPT !.pc = "sent", !.perpLeg = p, !.spotLeg = s]
<1>1. World'
  BY WorldStays DEF SendLegs, RegistryInv
<1>2. FrameOK(tasks[i]) /\ tasks[i].pc = "top" /\ Alive(i) /\ Become(i, f)
  BY TaskFrame DEF RegistryInv, SendLegs, AtTop, Alive
<1>3. p \in LegType /\ s \in LegType
  <2>1. dbPerp - tasks[i].floor \in Int /\ dbSpot - tasks[i].floor \in Int
    BY TaskFrame DEF RegistryInv, World, TaskType
  <2>2. Remaining(i) \in Int /\ SpotLeft(i) \in Int
    BY <2>1, AtLeast0Nat DEF Remaining, SpotLeft
  <2> QED
    BY <2>2, LegOfOK
<1> HIDE DEF p, s
<1>4. FrameOK(f)
  BY <1>2, <1>3 DEF FrameOK, TaskType
<1> HIDE DEF f
<1>5. Registry'
  BY <1>2, <1>4, FrameStep DEF SendLegs, RegistryInv
<1> QED
  BY <1>1, <1>5 DEF RegistryInv

LEMMA PerpLegRegistry ==
    ASSUME RegistryInv, NEW i \in TaskId, NEW k \in 0..Size, PerpLeg(i, k)
    PROVE  RegistryInv'
<1> DEFINE l == [tasks[i].perpLeg EXCEPT !.at = "done", !.fill = k]
           f == [tasks[i] EXCEPT !.perpLeg = l]
<1>1. k \in Nat
  BY ExitAssumption
<1>2. World'
  <2>1. vPerp' \in Int
    BY <1>1 DEF PerpLeg, RegistryInv, World
  <2> QED
    BY <2>1 DEF PerpLeg, RegistryInv, World, book, rows
<1>3. FrameOK(tasks[i]) /\ tasks[i].pc = "sent" /\ Alive(i)
  BY TaskFrame DEF RegistryInv, PerpLeg, FrameOK, Alive
<1>4. Become(i, f)
  BY DEF PerpLeg
<1>5. l \in LegType
  BY <1>1, LegsOf, LegAnswered
<1> HIDE DEF l
<1>6. FrameOK(f)
  BY <1>3, <1>5, WithLegsOK
<1> HIDE DEF f
<1>7. Registry'
  BY <1>3, <1>4, <1>6, FrameStep DEF PerpLeg, RegistryInv
<1> QED
  BY <1>2, <1>7 DEF RegistryInv

LEMMA SpotLegRegistry ==
    ASSUME RegistryInv, NEW i \in TaskId, NEW k \in 0..Size, SpotLeg(i, k)
    PROVE  RegistryInv'
<1> DEFINE l == [tasks[i].spotLeg EXCEPT !.at = "done", !.fill = k]
           f == [tasks[i] EXCEPT !.spotLeg = l]
<1>1. k \in Nat
  BY ExitAssumption
<1>2. World'
  <2>1. vSpot' \in Nat
    <3>1. tasks[i].spotLeg.need \in Int /\ vSpot \in Nat
      BY LegsOf DEF LegType, RegistryInv, World
    <3> QED
      BY <1>1, <3>1 DEF SpotLeg
  <2> QED
    BY <2>1 DEF SpotLeg, RegistryInv, World, book, rows
<1>3. FrameOK(tasks[i]) /\ tasks[i].pc = "sent" /\ Alive(i)
  BY TaskFrame DEF RegistryInv, SpotLeg, FrameOK, Alive
<1>4. Become(i, f)
  BY DEF SpotLeg
<1>5. l \in LegType
  BY <1>1, LegsOf, LegAnswered
<1> HIDE DEF l
<1>6. FrameOK(f)
  BY <1>3, <1>5, WithLegsOK
<1> HIDE DEF f
<1>7. Registry'
  BY <1>3, <1>4, <1>6, FrameStep DEF SpotLeg, RegistryInv
<1> QED
  BY <1>2, <1>7 DEF RegistryInv

LEMMA LegAmbiguousRegistry ==
    ASSUME RegistryInv, NEW i \in TaskId, LegAmbiguous(i)
    PROVE  RegistryInv'
<1> DEFINE p == [tasks[i].perpLeg EXCEPT !.at = "ambiguous"]
           s == [tasks[i].spotLeg EXCEPT !.at = "ambiguous"]
           f == [tasks[i] EXCEPT !.perpLeg = p]
           g == [tasks[i] EXCEPT !.spotLeg = s]
<1>1. World'
  BY WorldStays DEF LegAmbiguous, RegistryInv
<1>2. FrameOK(tasks[i]) /\ tasks[i].pc = "sent" /\ Alive(i)
  BY TaskFrame DEF RegistryInv, LegAmbiguous, Alive
<1>3. Become(i, f) \/ Become(i, g)
  BY DEF LegAmbiguous
<1>4. p \in LegType /\ s \in LegType
  BY LegsOf, LegAnswered
<1> HIDE DEF p, s
<1>5. FrameOK(f) /\ FrameOK(g)
  BY <1>2, <1>4, WithLegsOK
<1> HIDE DEF f, g
<1>6. Registry'
  BY <1>2, <1>3, <1>5, FrameStep DEF LegAmbiguous, RegistryInv
<1> QED
  BY <1>1, <1>6 DEF RegistryInv

LEMMA GatherRegistry ==
    ASSUME RegistryInv, NEW i \in TaskId, Gather(i)
    PROVE  RegistryInv'
<1> DEFINE unknown == "ambiguous" \in {tasks[i].perpLeg.at, tasks[i].spotLeg.at}
           pc == IF unknown THEN "complete" ELSE "top"
           f == [tasks[i] EXCEPT !.pc = pc, !.perpLeg = NoLeg, !.spotLeg = NoLeg]
<1>1. FrameOK(tasks[i]) /\ tasks[i].pc = "sent" /\ Alive(i) /\ Become(i, f)
  BY TaskFrame DEF RegistryInv, Gather, Alive
<1>2. World'
  <2>1. dbPerp' \in Int /\ dbSpot' \in Int
    BY LegsOf DEF Gather, RegistryInv, World, LegType
  <2>2. warned' \in BOOLEAN
    BY Zenon DEF Gather
  <2> QED
    BY <2>1, <2>2 DEF Gather, RegistryInv, World, venue, book
<1>3. pc \in {"complete", "top"}
  OBVIOUS
<1> HIDE DEF pc
<1>4. FrameOK(f)
  BY <1>1, <1>3, UnbornOK DEF FrameOK, TaskType, NoLeg
<1> HIDE DEF f
<1>5. Registry'
  BY <1>1, <1>4, FrameStep DEF Gather, RegistryInv
<1> QED
  BY <1>2, <1>5 DEF RegistryInv

LEMMA TrancheRegistry ==
    ASSUME RegistryInv, NEW i \in TaskId, NEW q \in 1..Size, Tranche(i, q)
    PROVE  RegistryInv'
<1> DEFINE s == SaleOf(q)
           f == [tasks[i] EXCEPT !.pc = "selling", !.sale = s]
<1>1. World'
  BY WorldStays DEF Tranche, RegistryInv
<1>2. FrameOK(tasks[i]) /\ tasks[i].pc = "top" /\ Alive(i) /\ Become(i, f)
  BY TaskFrame DEF RegistryInv, Tranche, AtTop, Alive
<1>3. s \in SaleType
  BY SaleOfOK
<1> HIDE DEF s
<1>4. FrameOK(f)
  BY <1>2, <1>3 DEF FrameOK, TaskType
<1> HIDE DEF f
<1>5. Registry'
  BY <1>2, <1>4, FrameStep DEF Tranche, RegistryInv
<1> QED
  BY <1>1, <1>5 DEF RegistryInv

LEMMA TrancheOverRegistry ==
    ASSUME RegistryInv, NEW i \in TaskId, TrancheOver(i)
    PROVE  RegistryInv'
<1> DEFINE f == [tasks[i] EXCEPT !.pc = "top", !.sale = NoSale]
<1>1. World'
  BY DEF TrancheOver, RegistryInv, World, venue, book, rows
<1>2. FrameOK(tasks[i]) /\ tasks[i].pc = "selling" /\ Alive(i)
  BY TaskFrame DEF RegistryInv, TrancheOver, Alive
<1>3. Become(i, f) \/ Become(i, Unborn)
  BY DEF TrancheOver
<1>4. FrameOK(f)
  BY <1>2, UnbornOK DEF FrameOK, TaskType
<1> HIDE DEF f
<1>5. Registry'
  BY <1>2, <1>3, <1>4, UnbornOK, FrameStep DEF TrancheOver, RegistryInv
<1> QED
  BY <1>1, <1>5 DEF RegistryInv

\* Finished and TimesOut only move the task on.
LEMMA FinishedRegistry ==
    ASSUME RegistryInv, NEW i \in TaskId, Finished(i) \/ TimesOut(i)
    PROVE  RegistryInv'
<1>1. World'
  BY WorldStays DEF Finished, TimesOut, RegistryInv
<1>2. tasks[i].pc = "top" /\ Alive(i)
  BY DEF Finished, TimesOut, AtTop, Alive
<1>3. Registry'
  BY <1>2, FrameStep, GoesOK DEF Finished, TimesOut, Goes, RegistryInv
<1> QED
  BY <1>1, <1>3 DEF RegistryInv

LEMMA TakerStepRegistry ==
    ASSUME RegistryInv, NEW i \in TaskId, TakerStep(i)
    PROVE  RegistryInv'
  BY FinishedRegistry, SendLegsRegistry, PerpLegRegistry, SpotLegRegistry,
     LegAmbiguousRegistry, GatherRegistry, TrancheRegistry, TrancheOverRegistry
  DEF TakerStep

LEMMA StartRegistry ==
    ASSUME RegistryInv, NEW i \in TaskId, Start(i)
    PROVE  RegistryInv'
<1> DEFINE f == [tasks[i] EXCEPT !.pc = "top"]
           kind == IF mode = "passive" THEN mode ELSE "now"
           g == [tasks[i] EXCEPT !.pc = "top", !.floor = floorReq, !.kind = kind]
<1>1. FrameOK(tasks[i]) /\ tasks[i].pc = "start" /\ Alive(i)
  BY TaskFrame DEF RegistryInv, Start, Alive
<1>2. Become(i, f) \/ Become(i, g)
  BY DEF Start, Goes
<1>3. World'
  <2>1. taker' \in BOOLEAN
    BY Zenon DEF Start, RegistryInv, World
  <2> QED
    BY <2>1 DEF Start, RegistryInv, World, venue, book
<1>4. kind \in {"passive", "now"} /\ floorReq \in Nat
  BY DEF RegistryInv, World
<1> HIDE DEF kind
<1>5. FrameOK(f) /\ FrameOK(g)
  BY <1>1, <1>4 DEF FrameOK, TaskType
<1> HIDE DEF f, g
<1>6. Registry'
  BY <1>1, <1>2, <1>5, FrameStep DEF Start, RegistryInv
<1> QED
  BY <1>3, <1>6 DEF RegistryInv

LEMMA CompleteRegistry ==
    ASSUME RegistryInv, NEW i \in TaskId, Complete(i)
    PROVE  RegistryInv'
<1> DEFINE f == [tasks[i] EXCEPT !.pc = "accrue"]
           e == [Unborn EXCEPT !.sale = tasks[i].sale]
<1>1. tasks[i].pc = "complete" /\ Alive(i)
  BY DEF Complete, Alive
<1>2. World'
  <2>1. warned' \in BOOLEAN
    BY Zenon DEF Complete, RegistryInv, World
  <2>2. /\ UNCHANGED <<venue, dbPerp, dbSpot, requests, taker>>
        /\ floorReq' \in Nat /\ state' \in {"OPEN", "EXITING", "CLOSED"}
        /\ mode' \in {"none", "passive", "now"}
    BY DEF Complete, RegistryInv, World
  <2> QED
    BY <2>1, <2>2 DEF RegistryInv, World, venue, book
<1>3. Become(i, f) \/ Become(i, e)
  BY DEF Complete, Goes, Ends
<1>4. FrameOK(f) /\ FrameOK(e)
  BY <1>1, GoesOK, EndsOK DEF RegistryInv
<1> HIDE DEF f, e
<1>5. Registry'
  BY <1>1, <1>3, <1>4, FrameStep DEF Complete, RegistryInv
<1> QED
  BY <1>2, <1>5 DEF RegistryInv

LEMMA AccruedRegistry ==
    ASSUME RegistryInv, NEW i \in TaskId, Accrued(i)
    PROVE  RegistryInv'
<1>1. World'
  BY DEF Accrued, RegistryInv, World, venue, book
<1>2. Registry'
  BY FrameStep, EndsOK DEF Accrued, Ends, RegistryInv
<1> QED
  BY <1>1, <1>2 DEF RegistryInv

-------------------------------------------------------------------------------
\* The sale of a task, alive or not, moves on.
LEMMA SaleFrame ==
    ASSUME Registry, NEW i \in TaskId, NEW s \in SaleType, SaleBecomes(i, s),
           UNCHANGED <<latest, spawned, caller>>
    PROVE  Registry'
<1> DEFINE f == [tasks[i] EXCEPT !.sale = s]
           g == [tasks[i] EXCEPT !.sale = NoSale]
<1>1. FrameOK(f) /\ f.pc = tasks[i].pc /\ FrameOK(g) /\ g.pc = tasks[i].pc
  BY TaskFrame, WithSaleOK, UnbornOK
<1>2. Become(i, f) \/ Become(i, g)
  BY DEF SaleBecomes
<1> HIDE DEF f, g
<1> QED
  BY <1>1, <1>2, FrameStep DEF Alive

LEMMA AfterAttemptOK ==
    ASSUME NEW s \in SaleType, NEW q \in Int, NEW refused \in BOOLEAN
    PROVE  AfterAttempt(s, q, refused) \in SaleType
<1> DEFINE at == IF q = 0 \/ s.tries + 1 = Attempts THEN "done" ELSE "send"
<1>1. at \in {"done", "send"}
  OBVIOUS
<1> DEFINE n == s.tries + 1
<1>2. AfterAttempt(s, q, refused) =
        [s EXCEPT !.at = at, !.need = q, !.tries = n, !.fill = 0, !.refused = refused]
  BY DEF AfterAttempt
<1>3. n \in Nat
  BY DEF SaleType
<1> HIDE DEF at, n
<1>4. [s EXCEPT !.at = at, !.need = q, !.tries = n, !.fill = 0, !.refused = refused] \in SaleType
  BY <1>1, <1>3 DEF SaleType
<1> QED
  BY <1>2, <1>4

LEMMA SaleOfTask ==
    ASSUME RegistryInv, NEW i \in TaskId
    PROVE  /\ tasks[i].sale \in SaleType
           /\ tasks[i].sale.need \in Int /\ tasks[i].sale.fill \in Nat
           /\ tasks[i].sale.refused \in BOOLEAN /\ tasks[i].sale.tries \in Nat
  BY TaskFrame DEF RegistryInv, TaskType, SaleType

LEMMA SaleStepRegistry ==
    ASSUME RegistryInv, SaleStep
    PROVE  RegistryInv'
<1>1. ASSUME NEW i \in TaskId, NEW k \in 0..Size, SaleSends(i, k) PROVE RegistryInv'
  <2> DEFINE s == [tasks[i].sale EXCEPT !.at = "sent", !.fill = k]
  <2>1. k \in Nat /\ vSpot' \in Nat
    BY <1>1, SaleOfTask, ExitAssumption DEF SaleSends, RegistryInv, World
  <2>2. World'
    BY <1>1, <2>1 DEF SaleSends, RegistryInv, World, book, rows
  <2>3. s \in SaleType
    BY <2>1, SaleOfTask DEF SaleType
  <2> HIDE DEF s
  <2> QED
    BY <1>1, <2>2, <2>3, SaleFrame DEF SaleSends, RegistryInv, s
<1>2. ASSUME NEW i \in TaskId, SaleRefused(i) PROVE RegistryInv'
  <2> DEFINE s == tasks[i].sale
             short == lock \/ s.need > vSpot
  <2>1. World'
    BY <1>2, WorldStays DEF SaleRefused, RegistryInv
  <2>2. short \in BOOLEAN
    BY Zenon DEF RegistryInv, World
  <2>3. AfterAttempt(s, s.need, short) \in SaleType
    <3> HIDE DEF short
    <3> QED
      BY <2>2, SaleOfTask, AfterAttemptOK
  <2> QED
    BY <1>2, <2>1, <2>3, SaleFrame DEF SaleRefused, RegistryInv
<1>3. ASSUME NEW i \in TaskId, SaleReplies(i) PROVE RegistryInv'
  <2> DEFINE s == tasks[i].sale
             still == s.refused /\ s.fill = 0
  <2>1. World'
    <3>1. dbSpot' \in Int
      BY <1>3, SaleOfTask DEF SaleReplies, RegistryInv, World
    <3> QED
      BY <1>3, <3>1 DEF SaleReplies, RegistryInv, World, venue, book
  <2>2. still \in BOOLEAN
    BY Zenon
  <2>3. AfterAttempt(s, s.need - s.fill, still) \in SaleType
    <3> HIDE DEF still
    <3>1. s.need - s.fill \in Int
      BY SaleOfTask
    <3> QED
      BY <2>2, <3>1, SaleOfTask, AfterAttemptOK
  <2> QED
    BY <1>3, <2>1, <2>3, SaleFrame DEF SaleReplies, RegistryInv
<1>4. ASSUME NEW i \in TaskId, SaleAmbiguous(i) PROVE RegistryInv'
  <2> DEFINE s == [tasks[i].sale EXCEPT !.at = "ambiguous"]
  <2>1. World'
    BY <1>4, WorldStays DEF SaleAmbiguous, RegistryInv
  <2>2. s \in SaleType
    BY SaleOfTask DEF SaleType
  <2> HIDE DEF s
  <2> QED
    BY <1>4, <2>1, <2>2, SaleFrame DEF SaleAmbiguous, RegistryInv, s
<1> QED
  BY <1>1, <1>2, <1>3, <1>4 DEF SaleStep

LEMMA VenueStepRegistry ==
    ASSUME RegistryInv, VenueStep
    PROVE  RegistryInv'
<1>1. Registry'
  BY DEF VenueStep, VenueAnswers, VenueAccept, VenueReject, VenueFill, VenueReduces, process,
         RegistryInv, Registry, Alive
<1>2. ASSUME NEW o \in Order, VenueAccept(o) \/ VenueReject(o) PROVE World'
  <2>1. ost' \in [Order -> {"none", "sent", "open", "filled", "cancelled", "rejected"}]
    BY <1>2 DEF VenueAccept, VenueReject, RegistryInv, World
  <2>2. UNCHANGED <<oqty, exec, placed, vPerp, vSpot, lock, adl, rows, requests, taker, warned>>
    BY <1>2 DEF VenueAccept, VenueReject, process
  <2> QED
    BY <2>1, <2>2 DEF RegistryInv, World, rows
<1>3. ASSUME NEW o \in Order, NEW k \in 1..Size, VenueFill(o, k) PROVE World'
  <2>1. k \in Nat
    BY ExitAssumption
  <2>2. ost' \in [Order -> {"none", "sent", "open", "filled", "cancelled", "rejected"}]
    BY <1>3 DEF VenueFill, RegistryInv, World
  <2>3. exec' \in [Order -> Nat] /\ vPerp' \in Int
    BY <1>3, <2>1 DEF VenueFill, RegistryInv, World
  <2>4. UNCHANGED <<oqty, placed, vSpot, lock, adl, rows, requests, taker, warned>>
    BY <1>3 DEF VenueFill, process
  <2> QED
    BY <2>2, <2>3, <2>4 DEF RegistryInv, World, rows
<1>4. ASSUME NEW k \in 1..Size, VenueReduces(k) PROVE World'
  <2>1. vPerp' \in Int /\ adl' \in Nat
    BY <1>4, ExitAssumption DEF VenueReduces, RegistryInv, World
  <2>2. UNCHANGED <<book, vSpot, lock, rows, requests, taker, warned>>
    BY <1>4 DEF VenueReduces, process
  <2> QED
    BY <2>1, <2>2 DEF RegistryInv, World, book, rows
<1> QED
  BY <1>1, <1>2, <1>3, <1>4 DEF VenueStep, VenueAnswers, RegistryInv

-------------------------------------------------------------------------------
\* A caller goes on, no task comes or goes.
LEMMA CallerMoves ==
    ASSUME Registry, NEW c \in Callers, NEW pc \in {"idle", "stops", "cancel"},
           NEW op \in {"none", "exit", "standdown", "selldown"}, NEW floor \in Nat,
           CallerGoes(c, pc, op, floor, 0), UNCHANGED <<tasks, latest, spawned>>
    PROVE  Registry'
<1> DEFINE r == [pc |-> pc, op |-> op, floor |-> floor, waits |-> 0]
<1>1. r \in CallerType /\ r.pc # "await"
  BY DEF CallerType
<1>2. caller' = [caller EXCEPT ![c] = r]
  BY DEF CallerGoes
<1> HIDE DEF r
<1>3. /\ caller' \in [Callers -> CallerType]
      /\ \A d \in Callers : caller'[d].pc = "await" => caller'[d].waits = latest
  BY <1>1, <1>2 DEF Registry
<1> QED
  BY <1>3 DEF Registry, Alive

LEMMA CallerTypes ==
    ASSUME Registry, NEW c \in Callers
    PROVE  /\ caller[c].op \in {"none", "exit", "standdown", "selldown"}
           /\ caller[c].floor \in Nat
  BY DEF Registry, CallerType

LEMMA AsksRegistry ==
    ASSUME RegistryInv, NEW c \in Callers,
           \/ \E m \in Modes, f \in Floors : AskExit(c, m, f)
           \/ AskStandDown(c)
           \/ GuardRebalance(c)
           \/ StopsCancelled(c)
           \/ StoodDown(c)
    PROVE  RegistryInv'
<1>1. ASSUME NEW m \in Modes, NEW f \in Floors, AskExit(c, m, f) PROVE RegistryInv'
  <2>1. m \in {"passive", "now"} /\ f \in Nat
    BY ExitAssumption
  <2>2. UNCHANGED <<venue, state, dbPerp, dbSpot, taker, warned>> /\ mode' = m /\ floorReq' = f
    BY <1>1 DEF AskExit
  <2>3. requests' \in Nat
    BY <1>1 DEF AskExit, RegistryInv, World
  <2>4. World'
    BY <2>1, <2>2, <2>3 DEF RegistryInv, World, venue, book
  <2> QED
    BY <1>1, <2>4, CallerMoves DEF AskExit, RegistryInv
<1>2. ASSUME AskStandDown(c) PROVE RegistryInv'
  <2>1. UNCHANGED <<venue, rows, taker, warned>> /\ requests' \in Nat
    BY <1>2 DEF AskStandDown, RegistryInv, World
  <2>2. World'
    BY <2>1 DEF RegistryInv, World, venue, book, rows
  <2> QED
    BY <1>2, <2>2, CallerMoves DEF AskStandDown, RegistryInv
<1>3. ASSUME GuardRebalance(c) PROVE RegistryInv'
  <2> DEFINE floor == IF vPerp > Tolerance THEN vPerp ELSE 0
  <2>1. floor \in Nat /\ vPerp \in Int
    BY <1>3 DEF GuardRebalance, RegistryInv, World, Tolerance
  <2>2. /\ UNCHANGED <<venue, state, dbSpot, requests, taker, warned>>
        /\ dbPerp' = vPerp /\ mode' = "now" /\ floorReq' = floor
    BY <1>3 DEF GuardRebalance
  <2>3. World'
    <3> HIDE DEF floor
    <3> QED
      BY <2>1, <2>2 DEF RegistryInv, World, venue, book
  <2>4. CallerGoes(c, "stops", "selldown", floor, 0) /\ UNCHANGED <<tasks, latest, spawned>>
    BY <1>3 DEF GuardRebalance
  <2> HIDE DEF floor
  <2> QED
    BY <2>1, <2>3, <2>4, CallerMoves DEF RegistryInv
<1>4. ASSUME StopsCancelled(c) PROVE RegistryInv'
  <2>1. lock' \in BOOLEAN
    BY <1>4 DEF StopsCancelled, RegistryInv, World
  <2>2. UNCHANGED <<book, vPerp, vSpot, adl, rows, requests, taker, warned>>
    BY <1>4 DEF StopsCancelled
  <2>3. World'
    BY <2>1, <2>2 DEF RegistryInv, World, book, rows
  <2> QED
    BY <1>4, <2>3, CallerMoves, CallerTypes DEF StopsCancelled, RegistryInv
<1>5. ASSUME StoodDown(c) PROVE RegistryInv'
  <2>1. World'
    BY <1>5 DEF StoodDown, RegistryInv, World, venue, book
  <2> QED
    BY <1>5, <2>1, CallerMoves DEF StoodDown, RegistryInv
<1> QED
  BY <1>1, <1>2, <1>3, <1>4, <1>5

\* The task that is cancelled cleans up, or ends.
LEMMA CancelledOK ==
    ASSUME Registry, NEW i \in TaskId
    PROVE  FrameOK(Cancelled(i))
<1> DEFINE f == tasks[i]
           known == IF f.pc = "placing" THEN 0 ELSE f.oid
           pc == IF known # 0 THEN "cancel" ELSE "check"
           g == [f EXCEPT !.dying = TRUE, !.oid = known, !.pc = pc]
           e == [Unborn EXCEPT !.sale = f.sale]
<1>1. f \in TaskType /\ FrameOK(f)
  BY TaskFrame
<1>2. known \in Order \cup {0} /\ pc \in {"cancel", "check"} /\ (pc = "cancel" => known # 0)
  BY <1>1 DEF TaskType
<1>3. Cancelled(i) \in {Unborn, e} \/ (Cancelled(i) = g /\ f.pc # "sent")
  BY DEF Cancelled, NeedsCleanup
<1>4. FrameOK(e)
  BY EndsOK
<1> HIDE DEF known, pc, e
<1>5. f.pc # "sent" => FrameOK(g)
  BY <1>1, <1>2 DEF FrameOK, TaskType
<1> QED
  BY <1>3, <1>4, <1>5, UnbornOK

LEMMA CancelTaskRegistry ==
    ASSUME RegistryInv, NEW c \in Callers, CancelTask(c)
    PROVE  RegistryInv'
<1> DEFINE f == Cancelled(latest)
           r == [pc |-> "await", op |-> caller[c].op, floor |-> caller[c].floor, waits |-> latest]
<1>1. latest \in TaskId /\ Alive(latest)
  BY DEF CancelTask, HasTask, RegistryInv, Registry
<1>2. World'
  BY WorldStays DEF CancelTask, RegistryInv
<1>3. FrameOK(f)
  BY <1>1, CancelledOK DEF RegistryInv
<1>4. tasks' = [tasks EXCEPT ![latest] = f] /\ caller' = [caller EXCEPT ![c] = r]
      /\ UNCHANGED <<latest, spawned>>
  BY DEF CancelTask, Become, CallerGoes
<1>5. r \in CallerType /\ r.waits = latest
  BY <1>1, CallerTypes DEF CallerType, RegistryInv
<1> HIDE DEF f, r
<1>6. /\ caller' \in [Callers -> CallerType]
      /\ \A d \in Callers : caller'[d].pc = "await" => caller'[d].waits = latest
  BY <1>4, <1>5 DEF RegistryInv, Registry
<1>7. /\ tasks' \in [TaskId -> TaskType]
      /\ \A j \in TaskId : FrameOK(tasks'[j])
      /\ \A j \in TaskId : tasks'[j].pc # "dead" => j = latest
  BY <1>1, <1>3, <1>4 DEF RegistryInv, Registry, FrameOK, Alive
<1>8. \A j \in TaskId : FrameOK(tasks[j])'
  BY <1>7 DEF FrameOK
<1>9. Registry'
  BY <1>4, <1>6, <1>7, <1>8 DEF RegistryInv, Registry, Alive
<1> QED
  BY <1>2, <1>9 DEF RegistryInv

\* The new task is the only one: the old one has ended, and no one else waits for it.
LEMMA SpawnRegistry ==
    ASSUME RegistryInv, OneReplacer, NEW c \in Callers, Spawn(c)
    PROVE  RegistryInv'
<1> DEFINE f == [Unborn EXCEPT !.kind = caller[c].op, !.pc = "start", !.floor = caller[c].floor]
           r == [pc |-> "idle", op |-> "none", floor |-> 0, waits |-> 0]
<1>1. World'
  BY WorldStays DEF Spawn, RegistryInv
<1>2. \A i \in TaskId : ~Alive(i)
  <2>1. latest = 0 \/ ~Alive(latest)
    BY DEF Spawn, MayProceed, HasTask, RegistryInv, Registry
  <2>2. \A i \in TaskId : i # 0
    BY DEF TaskId
  <2> QED
    BY <2>1, <2>2 DEF RegistryInv, Registry
<1>3. latest' \in TaskId /\ spawned' = latest'
  <2>1. MaxTasks \in Nat
    BY ExitAssumption
  <2>2. latest' = latest + 1 /\ spawned' = latest' /\ latest < MaxTasks /\ latest \in TaskId \cup {0}
    BY DEF Spawn, RegistryInv, Registry
  <2> QED
    BY <2>1, <2>2 DEF TaskId
<1>4. FrameOK(f)
  <2>1. caller[c].op \in {"none", "exit", "selldown"} /\ caller[c].floor \in Nat
    BY CallerTypes DEF Spawn, RegistryInv
  <2> QED
    BY <2>1, UnbornOK DEF FrameOK, TaskType, Unborn
<1>5. tasks' = [tasks EXCEPT ![latest'] = f] /\ caller' = [caller EXCEPT ![c] = r]
  BY DEF Spawn, Become, CallerGoes
<1>6. \A d \in Callers \ {c} : caller[d].pc # "await"
  BY DEF OneReplacer, Spawn, MayProceed
<1>7. r \in CallerType /\ r.pc # "await"
  BY DEF CallerType
<1> HIDE DEF f, r
<1>8. /\ caller' \in [Callers -> CallerType]
      /\ \A d \in Callers : caller'[d].pc # "await"
  BY <1>5, <1>6, <1>7 DEF RegistryInv, Registry
<1>9. /\ tasks' \in [TaskId -> TaskType]
      /\ \A j \in TaskId : FrameOK(tasks'[j])
      /\ \A j \in TaskId : tasks'[j].pc # "dead" => j = latest'
  BY <1>2, <1>3, <1>4, <1>5 DEF RegistryInv, Registry, FrameOK, Alive
<1>10. \A j \in TaskId : FrameOK(tasks[j])'
  BY <1>9 DEF FrameOK
<1>11. Registry'
  BY <1>3, <1>8, <1>9, <1>10 DEF Registry, Alive
<1> QED
  BY <1>1, <1>11 DEF RegistryInv

LEMMA RegistryStep ==
    ASSUME RegistryInv, OneReplacer, [ExitNext]_exitVars
    PROVE  RegistryInv'
<1>1. CASE VenueStep
  BY <1>1, VenueStepRegistry
<1>2. CASE SaleStep
  BY <1>2, SaleStepRegistry
<1>3. CASE \E i \in TaskId : TaskStep(i) \/ Deadline(i)
  BY <1>3, StartRegistry, PassiveStepRegistry, TakerStepRegistry, CompleteRegistry,
     AccruedRegistry, FinishedRegistry
  DEF TaskStep, Deadline
<1>4. CASE \E c \in Callers : CallerStep(c)
  BY <1>4, AsksRegistry, CancelTaskRegistry, SpawnRegistry DEF CallerStep, CallerGoesOn
<1>5. CASE ArmStops
  <2>1. lock' \in BOOLEAN /\ UNCHANGED <<book, vPerp, vSpot, adl, rows, process, taker, warned>>
    BY <1>5 DEF ArmStops
  <2>2. World'
    BY <2>1 DEF RegistryInv, World, book, rows, process
  <2>3. Registry'
    BY <2>1 DEF RegistryInv, Registry, process, Alive
  <2> QED
    BY <2>2, <2>3 DEF RegistryInv
<1>6. CASE UNCHANGED exitVars
  <2>1. World'
    BY <1>6, WorldStays DEF exitVars, process, RegistryInv
  <2>2. Registry'
    BY <1>6 DEF exitVars, RegistryInv, Registry, process, Alive
  <2> QED
    BY <2>1, <2>2 DEF RegistryInv
<1> QED
  BY <1>1, <1>2, <1>3, <1>4, <1>5, <1>6 DEF ExitNext

\* The registry knows the task that works, whatever fails or is cancelled.
THEOREM RegistryInvariance == ExitSpec /\ []OneReplacer => []RegistryInv
<1>1. ExitInit => RegistryInv
  BY RegistryInit
<1>2. RegistryInv /\ OneReplacer /\ [ExitNext]_exitVars => RegistryInv'
  BY RegistryStep
<1> QED
  BY <1>1, <1>2, PTL DEF ExitSpec

\* The types of the books, of the rows and of every coroutine's frame.
THEOREM ExitTypes == ExitSpec /\ []OneReplacer => []ExitTypeOK
<1>1. RegistryInv => ExitTypeOK
  BY ExitAssumption DEF RegistryInv, World, Registry, ExitTypeOK, TaskId
<1> QED
  BY <1>1, RegistryInvariance, PTL

\* At most one task works on the position, however runs are replaced, cancelled in
\* mid-request, cut short in their cleanup or ended by an error (_cancel_task).
THEOREM OneTaskAtATime == ExitSpec /\ []OneReplacer => []OneTask
<1>1. RegistryInv => OneTask
  BY DEF RegistryInv, Registry, OneTask
<1> QED
  BY <1>1, RegistryInvariance, PTL

-------------------------------------------------------------------------------
\* The frame of the task that works: its shape at every await, and what every step
\* makes of it.

\* What the registry knows of the task that works.
Current == IF latest = 0 THEN Unborn ELSE tasks[latest]

\* The frames a task can have at each await: which of its parts are in use.
FrameShape(f) ==
    /\ f.pc = "dead" => f = Unborn
    /\ f.kind = "none" => f.pc = "dead"
    /\ f.kind = "exit" => f.pc = "start"
    /\ f.kind = "passive" => f.pc \in {"top", "placing", "cancel", "sell", "selling", "check",
                                       "wait", "complete", "accrue"}
    /\ f.kind = "now" => f.pc \in {"top", "sent", "complete", "accrue"}
    /\ f.kind = "selldown" => f.pc \in {"start", "top", "selling", "complete", "accrue"}
    /\ f.oid # 0 => f.pc \in {"top", "placing", "cancel", "sell", "selling"} /\ f.kind = "passive"
    /\ f.pc = "placing" => f.oid # 0
    /\ f.dying => f.pc \in {"cancel", "check", "wait", "sell", "selling"} /\ f.kind = "passive"
    /\ f.dying /\ f.oid # 0 => f.pc = "cancel"
    /\ f.pc \in {"check", "wait"} => f.dying
    /\ f.ending => f.oid = 0 /\ f.pc \in {"sell", "selling", "check", "wait"} /\ f.kind = "passive"
    /\ f.sale.at # "none" => f.pc = "selling" \/ (f.dying /\ f.pc \in {"cancel", "check", "wait"})
    /\ f.pc \in {"selling", "wait"} => f.sale.at # "none"
    /\ f.sale.at = "none" => f.sale = NoSale
    /\ f.sale.at = "sent" => f.sale.fill <= f.sale.need
    /\ f.toSell >= 0 /\ f.sale.need >= 0 /\ (f.kind # "passive" => f.toSell = 0)
    /\ f.pc # "sent" => f.perpLeg = NoLeg /\ f.spotLeg = NoLeg
    /\ f.pc = "sent" => f.perpLeg.at # "none" /\ f.spotLeg.at # "none"
    /\ f.sale.at = "ambiguous" => "sale_ambiguous" \in ExitFaults
    /\ "ambiguous" \in {f.perpLeg.at, f.spotLeg.at} => "leg_ambiguous" \in ExitFaults

\* A dying task is waited for, and the one that is waited for is dying; a caller
\* at work is there for something.
ShapeInv ==
    /\ \A i \in TaskId : FrameShape(tasks[i])
    /\ Current.dying => \E c \in Callers : caller[c].pc = "await"
    /\ \A c \in Callers : caller[c].pc = "await" /\ HasTask => Current.dying
    /\ Current.kind = "now" => taker
    /\ Current.oid # 0 => Current.seen <= exec[Current.oid]
    /\ \A c \in Callers : caller[c].pc = "idle" <=> caller[c].op = "none"

LEMMA CurrentStep ==
    ASSUME RegistryInv, NEW i \in TaskId, Alive(i), NEW f, Become(i, f), UNCHANGED latest
    PROVE  Current = tasks[i] /\ Current' = f /\ HasTask /\ latest = i
<1>1. latest = i /\ i # 0
  BY DEF RegistryInv, Registry, TaskId
<1>2. tasks'[i] = f
  BY DEF Become, RegistryInv, Registry
<1> QED
  BY <1>1, <1>2 DEF Current, HasTask

LEMMA ShapeStep ==
    ASSUME RegistryInv, ShapeInv, NEW i \in TaskId, Alive(i), NEW f, FrameShape(f), Become(i, f),
           UNCHANGED <<latest, caller>>, f.pc # "dead" => (f.dying <=> tasks[i].dying),
           f.kind = "now" => taker', f.oid # 0 => f.seen <= exec'[f.oid]
    PROVE  ShapeInv'
<1>1. Current = tasks[i] /\ Current' = f /\ HasTask /\ latest = i
  BY CurrentStep
<1>2. \A j \in TaskId : FrameShape(tasks'[j])
  BY DEF Become, RegistryInv, Registry, ShapeInv
<1>3. \A j \in TaskId : FrameShape(tasks[j])'
  BY <1>2 DEF FrameShape
<1>4. HasTask' => f.pc # "dead"
  BY <1>1 DEF HasTask, Alive, Current
<1>5. f.pc = "dead" => ~f.dying
  BY DEF FrameShape, Unborn
<1>6. Current'.dying => \E c \in Callers : caller'[c].pc = "await"
  BY <1>1, <1>5 DEF ShapeInv
<1>7. \A c \in Callers : caller'[c].pc = "await" /\ HasTask' => Current'.dying
  BY <1>1, <1>4 DEF ShapeInv
<1> QED
  BY <1>1, <1>3, <1>6, <1>7 DEF ShapeInv

LEMMA ShapeInit == ExitInit => ShapeInv
<1> SUFFICES ASSUME ExitInit PROVE ShapeInv
  OBVIOUS
<1>1. FrameShape(Unborn) /\ ~Unborn.dying /\ Unborn.kind = "none"
  BY DEF FrameShape, Unborn, NoSale, NoLeg
<1>2. \A i \in TaskId : tasks[i] = Unborn
  BY DEF ExitInit
<1>3. latest = 0 /\ Current = Unborn /\ Unborn.oid = 0
  BY DEF ExitInit, Current, Unborn
<1>4. \A c \in Callers : caller[c].pc = "idle" /\ caller[c].op = "none"
  BY DEF ExitInit, Idle
<1> QED
  BY <1>1, <1>2, <1>3, <1>4 DEF ShapeInv, HasTask

LEMMA ShapeOf ==
    ASSUME RegistryInv, ShapeInv, NEW i \in TaskId
    PROVE  tasks[i] \in TaskType /\ FrameShape(tasks[i]) /\ tasks[i].sale \in SaleType
           /\ tasks[i].toSell \in Int /\ tasks[i].sale.need \in Int
  BY TaskFrame DEF RegistryInv, ShapeInv, TaskType, SaleType

LEMMA UnbornShape ==
    /\ FrameShape(Unborn) /\ ~Unborn.dying /\ Unborn.kind = "none" /\ Unborn.pc = "dead"
    /\ Unborn.oid = 0 /\ Unborn.toSell = 0 /\ Unborn.sale = NoSale /\ Unborn.perpLeg = NoLeg
    /\ Unborn.spotLeg = NoLeg /\ NoSale.at = "none" /\ NoSale.need = 0 /\ NoSale.fill = 0
    /\ NoLeg.at = "none" /\ NoLeg.fill = 0
<1>1. /\ ~Unborn.dying /\ Unborn.kind = "none" /\ Unborn.pc = "dead" /\ ~Unborn.ending
      /\ Unborn.oid = 0 /\ Unborn.toSell = 0 /\ Unborn.sale = NoSale /\ Unborn.perpLeg = NoLeg
      /\ Unborn.spotLeg = NoLeg
  BY DEF Unborn
<1>2. /\ NoSale.at = "none" /\ NoSale.need = 0 /\ NoSale.fill = 0
      /\ NoLeg.at = "none" /\ NoLeg.fill = 0
  BY DEF NoSale, NoLeg
<1>3. FrameShape(Unborn)
  BY <1>1, <1>2 DEF FrameShape
<1> QED
  BY <1>1, <1>2, <1>3

\* A task that ends shields no sale.
LEMMA EndsShape ==
    ASSUME RegistryInv, ShapeInv, NEW i \in TaskId, Ends(i),
           \/ tasks[i].pc \in {"top", "complete", "accrue"}
           \/ tasks[i].pc = "cancel" /\ ~tasks[i].dying
    PROVE  Become(i, Unborn)
<1>1. tasks[i].sale = NoSale
  BY ShapeOf DEF FrameShape
<1>2. [Unborn EXCEPT !.sale = NoSale] = Unborn
  <2>1. Unborn \in TaskType /\ Unborn.sale = NoSale
    BY UnbornOK, UnbornShape DEF FrameOK
  <2> QED
    BY <2>1 DEF TaskType
<1> QED
  BY <1>1, <1>2 DEF Ends

LEMMA SoldButShape ==
    ASSUME RegistryInv, ShapeInv, NEW i \in TaskId, tasks[i].kind = "passive",
           tasks[i].pc \in {"sell", "selling"}, NEW q \in Nat
    PROVE  LET f == SoldBut(i, q) IN
           /\ FrameShape(f)
           /\ f.pc = "dead" => f = Unborn
           /\ tasks[i].dying => f = Unborn
           /\ ~tasks[i].dying =>
                /\ f.kind = "passive" /\ ~f.dying /\ f.toSell = q /\ f.sale = NoSale
                /\ f.oid = tasks[i].oid /\ f.seen = tasks[i].seen /\ f.floor = tasks[i].floor
                /\ f.pc \in {"top", "complete"}
                /\ f.perpLeg = NoLeg /\ f.spotLeg = NoLeg
                /\ f.pc = "complete" => q = 0
<1> DEFINE u == tasks[i]
           f == [u EXCEPT !.toSell = q, !.sale = NoSale]
           pc == IF f.ending /\ q <= 0 THEN "complete" ELSE "top"
           g == [f EXCEPT !.pc = pc, !.force = FALSE, !.ending = FALSE]
<1>1. u \in TaskType /\ FrameShape(u)
  BY ShapeOf
<1>2. CASE u.dying
  BY <1>2, UnbornShape DEF SoldBut
<1>3. CASE ~u.dying
  <2>1. SoldBut(i, q) = g
    BY <1>3 DEF SoldBut
  <2>2. pc \in {"top", "complete"} /\ (pc = "complete" => q = 0 /\ u.ending)
    BY <1>1 DEF TaskType
  <2> HIDE DEF pc
  <2>3. FrameShape(g)
    BY <1>1, <1>3, <2>2, UnbornShape DEF FrameShape, TaskType
  <2>4. /\ g.kind = "passive" /\ ~g.dying /\ g.toSell = q /\ g.sale = NoSale
        /\ g.oid = u.oid /\ g.seen = u.seen /\ g.floor = u.floor
        /\ g.pc = pc
        /\ g.perpLeg = NoLeg /\ g.spotLeg = NoLeg
    BY <1>1, <1>3 DEF FrameShape, TaskType
  <2> QED
    BY <1>3, <2>1, <2>2, <2>3, <2>4
<1> QED
  BY <1>2, <1>3

-------------------------------------------------------------------------------
\* The effect of each step on the frame of the task that works.

\* The frame keeps its run, its order and what it has seen of it.
Keeps(f, u) == /\ f.kind = u.kind /\ f.floor = u.floor /\ (f.dying <=> u.dying)
               /\ f.oid = u.oid /\ f.seen = u.seen

\* Nothing of it is on its way: no sale, no leg.
Calm(f) == f.sale = NoSale /\ f.perpLeg = NoLeg /\ f.spotLeg = NoLeg

LEMMA SeenByNow ==
    ASSUME RegistryInv, ShapeInv, NEW i \in TaskId, Alive(i), tasks[i].oid # 0
    PROVE  /\ tasks[i].oid \in Order /\ tasks[i].seen \in Nat /\ exec[tasks[i].oid] \in Nat
           /\ tasks[i].seen <= exec[tasks[i].oid]
           /\ Newly(i) = exec[tasks[i].oid] - tasks[i].seen /\ Newly(i) \in Nat
<1>1. tasks[i].oid \in Order /\ tasks[i].seen \in Nat /\ exec[tasks[i].oid] \in Nat
  BY NewlyInt, ShapeOf DEF TaskType
<1>2. Current = tasks[i]
  BY DEF Current, RegistryInv, Registry, TaskId
<1> QED
  BY <1>1, <1>2, NewlyInt DEF ShapeInv

LEMMA TopCalm ==
    ASSUME RegistryInv, ShapeInv, NEW i \in TaskId,
           \/ tasks[i].pc \in {"start", "top", "placing", "complete", "accrue"}
           \/ tasks[i].pc \in {"sell", "cancel"} /\ ~tasks[i].dying
    PROVE  Calm(tasks[i])
  BY ShapeOf DEF FrameShape, Calm

LEMMA EndsEffect ==
    ASSUME RegistryInv, ShapeInv, NEW i \in TaskId, UNCHANGED <<latest, caller>>,
           Alive(i), Become(i, Unborn)
    PROVE  ShapeInv' /\ Current = tasks[i] /\ Current' = Unborn /\ HasTask
<1>1. Current = tasks[i] /\ Current' = Unborn /\ HasTask
  BY CurrentStep
<1> QED
  BY <1>1, ShapeStep, UnbornShape

LEMMA ModeChangedEffect ==
    ASSUME RegistryInv, ShapeInv, NEW i \in TaskId, ModeChanged(i) \/ PollFails(i)
    PROVE  ShapeInv' /\ Current = tasks[i] /\ Current' = Unborn /\ HasTask
<1>1. tasks[i].pc = "top" /\ Alive(i) /\ Ends(i) /\ UNCHANGED <<latest, caller>>
  BY DEF ModeChanged, PollFails, AtTop, Alive
<1>2. Become(i, Unborn)
  BY <1>1, EndsShape
<1> QED
  BY <1>1, <1>2, EndsEffect

LEMMA EndPhaseEffect ==
    ASSUME RegistryInv, ShapeInv, NEW i \in TaskId, EndPhase(i)
    PROVE  LET u == Current  v == Current' IN
           /\ ShapeInv' /\ u = tasks[i] /\ HasTask
           /\ u.kind = "passive" /\ u.pc = "top" /\ Calm(u)
           /\ v.kind = "passive" /\ v.pc = "sell" /\ v.floor = u.floor /\ v.oid = 0
           /\ ~v.dying /\ Calm(v)
           /\ v.toSell \in {u.toSell, dbSpot - u.floor}
<1> DEFINE u == tasks[i]
           q == Max({u.toSell, dbSpot - u.floor})
           f == [u EXCEPT !.pc = "sell", !.oid = 0, !.force = TRUE, !.ending = TRUE, !.toSell = q]
<1>1. u \in TaskType /\ FrameShape(u) /\ u.pc = "top" /\ u.kind = "passive" /\ Alive(i) /\ Calm(u)
  BY ShapeOf, TopCalm DEF EndPhase, AtTop, Alive
<1>2. q \in {u.toSell, dbSpot - u.floor} /\ q >= u.toSell /\ q \in Int
  <2>1. u.toSell \in Int /\ u.floor \in Int /\ dbSpot \in Int
    BY <1>1 DEF TaskType, RegistryInv, World
  <2>2. dbSpot - u.floor \in Int
    BY <2>1
  <2> QED
    BY <2>1, <2>2, LargerOf
<1>3. Become(i, f) /\ UNCHANGED <<latest, caller>>
  BY DEF EndPhase
<1> HIDE DEF q
<1>4. /\ FrameShape(f) /\ f.kind = "passive" /\ f.pc = "sell" /\ f.floor = u.floor /\ f.oid = 0
      /\ ~f.dying /\ Calm(f) /\ f.toSell = q
  BY <1>1, <1>2 DEF FrameShape, TaskType, Calm
<1>5. ~u.dying
  BY <1>1 DEF FrameShape
<1> HIDE DEF f
<1>6. u = Current /\ Current' = f /\ HasTask
  BY <1>1, <1>3, CurrentStep
<1>7. ShapeInv'
  BY <1>1, <1>3, <1>4, <1>5, ShapeStep
<1> QED
  BY <1>1, <1>2, <1>4, <1>6, <1>7

LEMMA RestNothingEffect ==
    ASSUME RegistryInv, ShapeInv, NEW i \in TaskId, RestNothing(i)
    PROVE  LET u == Current  v == Current' IN
           /\ ShapeInv' /\ u = tasks[i] /\ HasTask
           /\ u.kind = "passive" /\ u.pc = "top" /\ Calm(u)
           /\ Keeps(v, u) /\ v.pc = "sell" /\ Calm(v) /\ v.toSell = u.toSell
<1> DEFINE u == tasks[i]
           f == [u EXCEPT !.pc = "sell"]
<1>1. u \in TaskType /\ FrameShape(u) /\ u.pc = "top" /\ u.kind = "passive" /\ Alive(i) /\ Calm(u)
  BY ShapeOf, TopCalm DEF RestNothing, AtTop, Alive
<1>2. Become(i, f) /\ UNCHANGED <<latest, caller, exec>>
  BY DEF RestNothing, Goes, venue, book
<1>3. FrameShape(f) /\ Keeps(f, u) /\ f.pc = "sell" /\ Calm(f) /\ f.toSell = u.toSell
  BY <1>1 DEF FrameShape, TaskType, Calm, Keeps
<1> HIDE DEF f
<1>4. u = Current /\ Current' = f /\ HasTask
  BY <1>1, <1>2, CurrentStep
<1>5. ShapeInv'
  BY <1>1, <1>2, <1>3, SeenByNow, ShapeStep DEF Keeps
<1> QED
  BY <1>1, <1>3, <1>4, <1>5

LEMMA PlaceEffect ==
    ASSUME RegistryInv, ShapeInv, NEW i \in TaskId, NEW q \in 1..Size, Place(i, q)
    PROVE  LET u == Current  v == Current' IN
           /\ ShapeInv' /\ u = tasks[i] /\ HasTask
           /\ u.kind = "passive" /\ u.pc = "top" /\ Calm(u) /\ u.oid = 0
           /\ v.kind = "passive" /\ v.pc = "placing" /\ v.floor = u.floor /\ ~v.dying
           /\ v.oid = placed' /\ placed' \in Order /\ v.seen = 0
           /\ Calm(v) /\ v.toSell = u.toSell
<1> DEFINE u == tasks[i]
           f == [u EXCEPT !.pc = "placing", !.oid = placed', !.seen = 0]
<1>1. /\ u \in TaskType /\ FrameShape(u) /\ u.pc = "top" /\ u.kind = "passive" /\ Alive(i)
      /\ Calm(u) /\ u.oid = 0
  BY ShapeOf, TopCalm DEF Place, AtTop, Alive
<1>2. placed' \in Order /\ placed' # 0
  BY ExitAssumption, SMTT(30) DEF Place, RegistryInv, World, Order
<1>3. Become(i, f) /\ UNCHANGED <<latest, caller, exec>> /\ 0 <= exec[placed']
  BY <1>2 DEF Place, RegistryInv, World
<1>4. /\ FrameShape(f) /\ f.kind = "passive" /\ f.pc = "placing" /\ f.floor = u.floor /\ ~f.dying
      /\ f.oid = placed' /\ f.seen = 0 /\ Calm(f) /\ f.toSell = u.toSell
  BY <1>1, <1>2 DEF FrameShape, TaskType, Calm
<1>5. ~u.dying
  BY <1>1 DEF FrameShape
<1> HIDE DEF f
<1>6. u = Current /\ Current' = f /\ HasTask
  BY <1>1, <1>3, CurrentStep
<1>7. ShapeInv'
  BY <1>1, <1>3, <1>4, <1>5, ShapeStep
<1> QED
  BY <1>1, <1>2, <1>4, <1>6, <1>7

LEMMA PlaceRepliesEffect ==
    ASSUME RegistryInv, ShapeInv, NEW i \in TaskId, PlaceReplies(i)
    PROVE  LET u == Current  v == Current' IN
           /\ ShapeInv' /\ u = tasks[i] /\ HasTask
           /\ u.kind = "passive" /\ u.pc = "placing" /\ Calm(u) /\ u.oid # 0 /\ ~u.dying
           /\ v.kind = "passive" /\ v.pc = "sell" /\ v.floor = u.floor /\ ~v.dying
           /\ Calm(v) /\ v.toSell = u.toSell
           /\ \/ v.oid = u.oid /\ v.seen = u.seen /\ ost[u.oid] \in {"open", "filled"}
              \/ v.oid = 0 /\ (ost[u.oid] = "rejected" \/ "place_ambiguous" \in ExitFaults)
<1> DEFINE u == tasks[i]
           f == [u EXCEPT !.pc = "sell"]
           g == [u EXCEPT !.pc = "sell", !.oid = 0]
<1>1. /\ u \in TaskType /\ FrameShape(u) /\ u.pc = "placing" /\ u.kind = "passive" /\ Alive(i)
      /\ Calm(u) /\ u.oid # 0 /\ ~u.dying
  BY ShapeOf, TopCalm DEF PlaceReplies, Alive, FrameShape
<1>2. /\ UNCHANGED <<latest, caller, exec>>
      /\ \/ Become(i, f) /\ ost[u.oid] \in {"open", "filled"}
         \/ Become(i, g) /\ (ost[u.oid] = "rejected" \/ "place_ambiguous" \in ExitFaults)
  BY DEF PlaceReplies, Goes, venue, book
<1>3. /\ FrameShape(f) /\ f.kind = "passive" /\ f.pc = "sell" /\ f.floor = u.floor /\ ~f.dying
      /\ f.oid = u.oid /\ f.seen = u.seen /\ Calm(f) /\ f.toSell = u.toSell
  BY <1>1 DEF FrameShape, TaskType, Calm
<1>4. /\ FrameShape(g) /\ g.kind = "passive" /\ g.pc = "sell" /\ g.floor = u.floor /\ ~g.dying
      /\ g.oid = 0 /\ Calm(g) /\ g.toSell = u.toSell
  BY <1>1 DEF FrameShape, TaskType, Calm
<1> HIDE DEF f, g
<1>5. u = Current /\ Current' \in {f, g} /\ HasTask
  BY <1>1, <1>2, CurrentStep
<1>6. ShapeInv'
  BY <1>1, <1>2, <1>3, <1>4, SeenByNow, ShapeStep
<1>7. (Become(i, f) => Current' = f) /\ (Become(i, g) => Current' = g)
  BY <1>1, <1>2, CurrentStep
<1> QED
  BY <1>1, <1>2, <1>3, <1>4, <1>5, <1>6, <1>7

\* absorb_fills leaves the frame with all of its order seen, and that to sell.
LEMMA AbsorbedShape ==
    ASSUME RegistryInv, ShapeInv, NEW i \in TaskId, Alive(i), tasks[i].oid # 0
    PROVE  LET u == tasks[i]  a == Absorbed(i) IN
           /\ a \in TaskType /\ FrameShape(a)
           /\ a.kind = u.kind /\ a.pc = u.pc /\ a.floor = u.floor /\ (a.dying <=> u.dying)
           /\ a.oid = u.oid /\ a.seen = exec[u.oid] /\ a.toSell = u.toSell + Newly(i)
           /\ a.sale = u.sale /\ a.perpLeg = u.perpLeg /\ a.spotLeg = u.spotLeg
<1> DEFINE u == tasks[i]
           n == Newly(i)
           e == exec[u.oid]
<1>1. u \in TaskType /\ FrameShape(u) /\ n \in Nat /\ e \in Nat /\ u.toSell \in Nat
  BY ShapeOf, SeenByNow DEF FrameShape, TaskType
<1>2. Absorbed(i) = [u EXCEPT !.seen = e, !.toSell = u.toSell + n]
  BY DEF Absorbed
<1>3. u.toSell + n \in Nat
  BY <1>1
<1> HIDE DEF n, e
<1>4. Absorbed(i) \in TaskType
  BY AbsorbedOK, <1>1 DEF FrameOK
<1> QED
  BY <1>1, <1>2, <1>3, <1>4, SMTT(30) DEF FrameShape, TaskType, n, e

LEMMA PollEffect ==
    ASSUME RegistryInv, ShapeInv, NEW i \in TaskId, NEW reprice \in BOOLEAN, Poll(i, reprice)
    PROVE  LET u == Current  v == Current' IN
           /\ ShapeInv' /\ u = tasks[i] /\ HasTask
           /\ u.kind = "passive" /\ u.pc = "top" /\ Calm(u) /\ u.oid # 0 /\ Newly(i) \in Nat
           /\ v.kind = "passive" /\ v.pc \in {"cancel", "sell"} /\ v.floor = u.floor /\ ~v.dying
           /\ Calm(v) /\ v.toSell = u.toSell + Newly(i)
           /\ \/ v.oid = u.oid /\ v.seen = exec[u.oid] /\ ost[u.oid] = "open"
              \/ v.oid = 0 /\ ost[u.oid] # "open"
<1> DEFINE u == tasks[i]
           a == Absorbed(i)
           pc == IF reprice THEN "cancel" ELSE "sell"
           f == [a EXCEPT !.pc = pc]
           g == [a EXCEPT !.pc = "sell", !.oid = 0]
<1>1. /\ u \in TaskType /\ FrameShape(u) /\ u.pc = "top" /\ u.kind = "passive" /\ Alive(i)
      /\ Calm(u) /\ u.oid # 0 /\ ~u.dying
  BY ShapeOf, TopCalm DEF Poll, AtTop, Alive, FrameShape
<1>2. /\ UNCHANGED <<latest, caller, exec>>
      /\ \/ Become(i, f) /\ ost[u.oid] = "open"
         \/ Become(i, g) /\ ost[u.oid] # "open"
  BY DEF Poll, venue, book
<1>3. /\ a \in TaskType /\ FrameShape(a)
      /\ a.kind = "passive" /\ a.pc = "top" /\ a.floor = u.floor /\ ~a.dying
      /\ a.oid = u.oid /\ a.seen = exec[u.oid] /\ a.toSell = u.toSell + Newly(i)
      /\ Calm(a)
  BY <1>1, AbsorbedShape DEF Calm
<1>4. pc \in {"cancel", "sell"}
  OBVIOUS
<1> HIDE DEF a, pc
<1>5. /\ FrameShape(f) /\ f.kind = "passive" /\ f.pc = pc /\ f.floor = u.floor /\ ~f.dying
      /\ f.oid = u.oid /\ f.seen = exec[u.oid] /\ Calm(f) /\ f.toSell = u.toSell + Newly(i)
  BY <1>1, <1>3, <1>4 DEF FrameShape, TaskType, Calm
<1>6. /\ FrameShape(g) /\ g.kind = "passive" /\ g.pc = "sell" /\ g.floor = u.floor /\ ~g.dying
      /\ g.oid = 0 /\ Calm(g) /\ g.toSell = u.toSell + Newly(i)
  BY <1>1, <1>3 DEF FrameShape, TaskType, Calm
<1> HIDE DEF f, g
<1>7. u = Current /\ HasTask /\ (Become(i, f) => Current' = f) /\ (Become(i, g) => Current' = g)
  BY <1>1, <1>2, CurrentStep
<1>8. Newly(i) \in Nat /\ exec[u.oid] \in Nat
  BY <1>1, SeenByNow
<1>9. ShapeInv'
  BY <1>1, <1>2, <1>5, <1>6, <1>8, ShapeStep
<1> QED
  BY <1>1, <1>2, <1>4, <1>5, <1>6, <1>7, <1>8, <1>9

LEMMA CancelOrderEffect ==
    ASSUME RegistryInv, ShapeInv, NEW i \in TaskId, CancelOrder(i)
    PROVE  LET u == Current  v == Current' IN
           /\ ShapeInv' /\ u = tasks[i] /\ HasTask
           /\ u.kind = "passive" /\ u.pc = "cancel" /\ u.oid # 0 /\ Newly(i) \in Nat
           /\ v.kind = "passive" /\ v.pc \in {"check", "sell"} /\ v.floor = u.floor
           /\ (v.dying <=> u.dying) /\ (v.pc = "check" <=> u.dying) /\ v.oid = 0
           /\ v.sale = u.sale /\ v.perpLeg = NoLeg /\ v.spotLeg = NoLeg
           /\ v.toSell = u.toSell + Newly(i)
<1> DEFINE u == tasks[i]
           a == Absorbed(i)
           pc == IF u.dying THEN "check" ELSE "sell"
           f == [a EXCEPT !.oid = 0, !.pc = pc]
<1>1. /\ u \in TaskType /\ FrameShape(u) /\ u.pc = "cancel" /\ u.kind = "passive" /\ Alive(i)
      /\ u.oid # 0 /\ u.perpLeg = NoLeg /\ u.spotLeg = NoLeg
  <2>1. u.pc = "cancel" /\ u.oid # 0
    BY TaskFrame DEF CancelOrder, FrameOK, RegistryInv
  <2> QED
    BY <2>1, ShapeOf DEF Alive, FrameShape, TaskType
<1>2. UNCHANGED <<latest, caller, exec>> /\ Become(i, f)
  BY DEF CancelOrder
<1>3. /\ a \in TaskType /\ FrameShape(a)
      /\ a.kind = "passive" /\ a.pc = "cancel" /\ a.floor = u.floor /\ (a.dying <=> u.dying)
      /\ a.oid = u.oid /\ a.toSell = u.toSell + Newly(i)
      /\ a.sale = u.sale /\ a.perpLeg = NoLeg /\ a.spotLeg = NoLeg
  BY <1>1, AbsorbedShape
<1>4. pc \in {"check", "sell"} /\ (pc = "check" <=> u.dying)
  OBVIOUS
<1> HIDE DEF a, pc
<1>5. /\ FrameShape(f) /\ f.kind = "passive" /\ f.pc = pc /\ f.floor = u.floor /\ (f.dying <=> u.dying)
      /\ f.oid = 0 /\ f.toSell = u.toSell + Newly(i)
      /\ f.sale = u.sale /\ f.perpLeg = NoLeg /\ f.spotLeg = NoLeg
  BY <1>1, <1>3, <1>4 DEF FrameShape, TaskType
<1> HIDE DEF f
<1>6. u = Current /\ HasTask /\ Current' = f
  BY <1>1, <1>2, CurrentStep
<1>7. Newly(i) \in Nat
  BY <1>1, SeenByNow
<1>8. ShapeInv'
  BY <1>1, <1>2, <1>5, ShapeStep
<1> QED
  BY <1>1, <1>4, <1>5, <1>6, <1>7, <1>8

\* A run ends where its last look at an order fails; a cleanup goes on without it.
LEMMA LastLookFailsEffect ==
    ASSUME RegistryInv, ShapeInv, NEW i \in TaskId, LastLookFails(i)
    PROVE  LET u == Current  v == Current' IN
           /\ ShapeInv' /\ u = tasks[i] /\ HasTask
           /\ u.kind = "passive" /\ u.pc \in {"top", "cancel"} /\ u.oid # 0
           /\ u.perpLeg = NoLeg /\ u.spotLeg = NoLeg
           /\ \/ v = Unborn /\ Calm(u)
              \/ /\ u.dying /\ v.dying /\ v.kind = "passive" /\ v.pc = "check" /\ v.floor = u.floor
                 /\ v.oid = 0 /\ v.sale = u.sale /\ v.perpLeg = NoLeg /\ v.spotLeg = NoLeg
                 /\ v.toSell = u.toSell
<1> DEFINE u == tasks[i]
           f == [u EXCEPT !.oid = 0, !.pc = "check"]
<1>1. u.pc \in {"top", "cancel"} /\ u.oid # 0 /\ Alive(i) /\ UNCHANGED <<latest, caller, exec>>
  BY DEF LastLookFails, AtTop, Alive
<1>2. /\ u \in TaskType /\ FrameShape(u) /\ u.kind = "passive" /\ u.perpLeg = NoLeg /\ u.spotLeg = NoLeg
  BY <1>1, ShapeOf DEF FrameShape
<1>3. CASE u.dying
  <2>1. Become(i, f)
    BY <1>3 DEF LastLookFails
  <2>2. /\ FrameShape(f) /\ f.dying /\ f.kind = "passive" /\ f.pc = "check" /\ f.floor = u.floor
        /\ f.oid = 0 /\ f.sale = u.sale /\ f.perpLeg = NoLeg /\ f.spotLeg = NoLeg
        /\ f.toSell = u.toSell
    BY <1>1, <1>2, <1>3 DEF FrameShape, TaskType
  <2> HIDE DEF f
  <2>3. u = Current /\ HasTask /\ Current' = f
    BY <1>1, <2>1, CurrentStep
  <2>4. ShapeInv'
    BY <1>1, <1>3, <2>1, <2>2, ShapeStep
  <2> QED
    BY <1>1, <1>2, <1>3, <2>2, <2>3, <2>4
<1>4. CASE ~u.dying
  <2>1. Ends(i)
    BY <1>4 DEF LastLookFails
  <2>2. Become(i, Unborn)
    BY <1>1, <1>4, <2>1, EndsShape
  <2>3. ShapeInv' /\ Current = u /\ Current' = Unborn /\ HasTask
    BY <1>1, <2>2, EndsEffect
  <2>4. Calm(u)
    BY <1>1, <1>4, TopCalm
  <2> QED
    BY <1>1, <1>2, <2>3, <2>4
<1> QED
  BY <1>3, <1>4

\* The sale of the frame that works moves on; a task that has ended has none.
LEMMA SaleEffect ==
    ASSUME RegistryInv, ShapeInv, NEW i \in TaskId, tasks[i].sale.at # "none",
           NEW s \in SaleType, SaleBecomes(i, s), UNCHANGED <<latest, caller, exec, taker>>,
           s.at # "none", s.need >= 0, s.at = "sent" => s.fill <= s.need,
           s.at = "ambiguous" => "sale_ambiguous" \in ExitFaults
    PROVE  LET u == Current  v == Current' IN
           /\ ShapeInv' /\ u = tasks[i] /\ HasTask
           /\ Keeps(v, u) /\ v.pc = u.pc /\ v.toSell = u.toSell /\ v.force = u.force
           /\ v.sale = s /\ v.perpLeg = NoLeg /\ v.spotLeg = NoLeg
           /\ u.perpLeg = NoLeg /\ u.spotLeg = NoLeg
<1> DEFINE u == tasks[i]
           f == [u EXCEPT !.sale = s]
<1>1. u \in TaskType /\ FrameShape(u) /\ Alive(i) /\ u.perpLeg = NoLeg /\ u.spotLeg = NoLeg
  BY ShapeOf, UnbornShape DEF Alive, FrameShape
<1>2. Become(i, f)
  BY <1>1 DEF SaleBecomes
<1>3. /\ FrameShape(f) /\ Keeps(f, u) /\ f.pc = u.pc /\ f.toSell = u.toSell /\ f.force = u.force
      /\ f.sale = s /\ f.perpLeg = NoLeg /\ f.spotLeg = NoLeg
  <2>1. s.fill \in Nat /\ s.need \in Int
    BY DEF SaleType
  <2> QED
    BY <1>1, <2>1, UnbornShape DEF FrameShape, TaskType, Keeps, Alive
<1> HIDE DEF f
<1>4. u = Current /\ HasTask /\ Current' = f
  BY <1>1, <1>2, CurrentStep
<1>5. ShapeInv'
  <2>1. f.kind = "now" => taker'
    BY <1>3, <1>4 DEF ShapeInv, Keeps
  <2>2. f.oid # 0 => f.seen <= exec'[f.oid]
    BY <1>1, <1>3, SeenByNow DEF Keeps
  <2> QED
    BY <1>1, <1>2, <1>3, <2>1, <2>2, ShapeStep DEF Keeps
<1> QED
  BY <1>1, <1>3, <1>4, <1>5

LEMMA AttemptShape ==
    ASSUME NEW s \in SaleType, NEW q \in Nat, NEW refused \in BOOLEAN
    PROVE  LET a == AfterAttempt(s, q, refused) IN
           a \in SaleType /\ a.at \in {"send", "done"} /\ a.need = q /\ (a.refused <=> refused)
<1> DEFINE at == IF q = 0 \/ s.tries + 1 = Attempts THEN "done" ELSE "send"
           n == s.tries + 1
<1>1. at \in {"done", "send"} /\ n \in Nat /\ q \in Int
  BY DEF SaleType
<1>2. AfterAttempt(s, q, refused) =
        [s EXCEPT !.at = at, !.need = q, !.tries = n, !.fill = 0, !.refused = refused]
  BY DEF AfterAttempt
<1> HIDE DEF at, n
<1>3. AfterAttempt(s, q, refused) \in SaleType
  BY <1>1, AfterAttemptOK
<1>4. LET a == AfterAttempt(s, q, refused) IN a.at = at /\ a.need = q
  BY <1>2 DEF SaleType
<1>5. AfterAttempt(s, q, refused).refused = refused
  BY <1>2 DEF SaleType
<1> QED
  BY <1>1, <1>3, <1>4, <1>5

LEMMA SaleSendsEffect ==
    ASSUME RegistryInv, ShapeInv, NEW i \in TaskId, NEW k \in 0..Size, SaleSends(i, k)
    PROVE  LET u == Current  v == Current' IN
           /\ ShapeInv' /\ u = tasks[i] /\ HasTask
           /\ Keeps(v, u) /\ v.pc = u.pc /\ v.toSell = u.toSell /\ v.force = u.force
           /\ v.perpLeg = NoLeg /\ v.spotLeg = NoLeg /\ u.perpLeg = NoLeg /\ u.spotLeg = NoLeg
           /\ u.sale.at = "send" /\ u.sale.need \in Nat
           /\ v.sale.at = "sent" /\ v.sale.need = u.sale.need /\ v.sale.fill = k
           /\ k \in Nat /\ k <= u.sale.need
<1> DEFINE r == tasks[i].sale
           s == [r EXCEPT !.at = "sent", !.fill = k]
<1>1. r \in SaleType /\ r.at = "send" /\ r.need \in Nat /\ k \in Nat /\ k <= r.need
  BY ShapeOf, SaleOfTask, ExitAssumption DEF SaleSends, Selling, FrameShape
<1>2. s \in SaleType /\ s.at = "sent" /\ s.need = r.need /\ s.fill = k
  BY <1>1 DEF SaleType
<1>3. SaleBecomes(i, s) /\ UNCHANGED <<latest, caller, exec, taker>>
  BY DEF SaleSends, book
<1> HIDE DEF s
<1> QED
  BY <1>1, <1>2, <1>3, SaleEffect

LEMMA SaleRefusedEffect ==
    ASSUME RegistryInv, ShapeInv, NEW i \in TaskId, SaleRefused(i)
    PROVE  LET u == Current  v == Current' IN
           /\ ShapeInv' /\ u = tasks[i] /\ HasTask
           /\ Keeps(v, u) /\ v.pc = u.pc /\ v.toSell = u.toSell /\ v.force = u.force
           /\ v.perpLeg = NoLeg /\ v.spotLeg = NoLeg /\ u.perpLeg = NoLeg /\ u.spotLeg = NoLeg
           /\ u.sale.at = "send" /\ u.sale.need \in Nat
           /\ v.sale.at \in {"send", "done"} /\ v.sale.need = u.sale.need
           /\ v.sale.refused <=> lock \/ u.sale.need > vSpot
<1> DEFINE r == tasks[i].sale
           short == lock \/ r.need > vSpot
           s == AfterAttempt(r, r.need, short)
<1>1. r \in SaleType /\ r.at = "send" /\ r.need \in Nat
  BY ShapeOf, SaleOfTask DEF SaleRefused, Selling, FrameShape
<1>2. SaleBecomes(i, s) /\ UNCHANGED <<latest, caller, exec, taker>>
  BY DEF SaleRefused, venue, book
<1>3. short \in BOOLEAN
  BY Zenon DEF RegistryInv, World
<1>4. short <=> lock \/ r.need > vSpot
  OBVIOUS
<1> HIDE DEF short
<1>5. s \in SaleType /\ s.at \in {"send", "done"} /\ s.need = r.need /\ (s.refused <=> short)
  BY <1>1, <1>3, AttemptShape
<1> HIDE DEF s
<1> QED
  BY <1>1, <1>2, <1>4, <1>5, SaleEffect

LEMMA SaleRepliesEffect ==
    ASSUME RegistryInv, ShapeInv, NEW i \in TaskId, SaleReplies(i)
    PROVE  LET u == Current  v == Current' IN
           /\ ShapeInv' /\ u = tasks[i] /\ HasTask
           /\ Keeps(v, u) /\ v.pc = u.pc /\ v.toSell = u.toSell /\ v.force = u.force
           /\ v.perpLeg = NoLeg /\ v.spotLeg = NoLeg /\ u.perpLeg = NoLeg /\ u.spotLeg = NoLeg
           /\ u.sale.at = "sent" /\ u.sale.need \in Nat /\ u.sale.fill \in Nat
           /\ dbSpot' = dbSpot - u.sale.fill
           /\ v.sale.at \in {"send", "done"} /\ v.sale.need = u.sale.need - u.sale.fill
           /\ v.sale.need \in Nat
           /\ v.sale.refused <=> u.sale.refused /\ u.sale.fill = 0
<1> DEFINE r == tasks[i].sale
           still == r.refused /\ r.fill = 0
           q == r.need - r.fill
           s == AfterAttempt(r, q, still)
<1>1. r \in SaleType /\ r.at = "sent" /\ r.need \in Nat /\ r.fill \in Nat /\ r.fill <= r.need
  BY ShapeOf, SaleOfTask DEF SaleReplies, Selling, FrameShape
<1>2. SaleBecomes(i, s) /\ UNCHANGED <<latest, caller, exec, taker>> /\ dbSpot' = dbSpot - r.fill
  BY DEF SaleReplies, venue, book
<1>3. still \in BOOLEAN
  BY Zenon
<1>4. q \in Nat /\ q = r.need - r.fill /\ (still <=> r.refused /\ r.fill = 0)
  BY <1>1
<1> HIDE DEF still, q
<1>5. s \in SaleType /\ s.at \in {"send", "done"} /\ s.need = q /\ (s.refused <=> still)
  BY <1>1, <1>3, <1>4, AttemptShape
<1> HIDE DEF s
<1> QED
  BY <1>1, <1>2, <1>4, <1>5, SaleEffect

LEMMA SaleAmbiguousEffect ==
    ASSUME RegistryInv, ShapeInv, NEW i \in TaskId, SaleAmbiguous(i)
    PROVE  LET u == Current  v == Current' IN
           /\ ShapeInv' /\ u = tasks[i] /\ HasTask
           /\ Keeps(v, u) /\ v.pc = u.pc /\ v.toSell = u.toSell /\ v.force = u.force
           /\ v.perpLeg = NoLeg /\ v.spotLeg = NoLeg /\ u.perpLeg = NoLeg /\ u.spotLeg = NoLeg
           /\ u.sale.at = "sent" /\ v.sale.at = "ambiguous"
           /\ v.sale.need = u.sale.need /\ v.sale.fill = u.sale.fill
           /\ "sale_ambiguous" \in ExitFaults
<1> DEFINE r == tasks[i].sale
           s == [r EXCEPT !.at = "ambiguous"]
<1>1. r \in SaleType /\ r.at = "sent" /\ r.need \in Nat
  BY ShapeOf, SaleOfTask DEF SaleAmbiguous, Selling, FrameShape
<1>2. SaleBecomes(i, s) /\ UNCHANGED <<latest, caller, exec, taker>>
      /\ "sale_ambiguous" \in ExitFaults
  BY DEF SaleAmbiguous, venue, book
<1>3. s \in SaleType /\ s.at = "ambiguous" /\ s.need = r.need /\ s.fill = r.fill
  BY <1>1 DEF SaleType
<1> HIDE DEF s
<1> QED
  BY <1>1, <1>2, <1>3, SaleEffect

LEMMA SkipSaleEffect ==
    ASSUME RegistryInv, ShapeInv, NEW i \in TaskId, SkipSale(i)
    PROVE  LET u == Current  v == Current' IN
           /\ ShapeInv' /\ u = tasks[i] /\ HasTask
           /\ u.kind = "passive" /\ u.pc = "sell" /\ Calm(u) /\ u.toSell \in Nat
           /\ u.dying => v = Unborn
           /\ ~u.dying => /\ Keeps(v, u) /\ Calm(v) /\ v.toSell \in {0, u.toSell}
                          /\ v.pc \in {"top", "complete"}
           /\ u.toSell = 0 \/ TooSmall(i) \/ Untradeable(ToSell(i))
<1> DEFINE u == tasks[i]
<1>1. /\ u \in TaskType /\ FrameShape(u) /\ u.pc = "sell" /\ u.kind = "passive" /\ Alive(i)
      /\ Calm(u) /\ u.toSell \in Nat
  BY ShapeOf DEF SkipSale, Alive, FrameShape, TaskType, Calm
<1>2. PICK q \in {0, u.toSell} : Become(i, SoldBut(i, q))
  BY DEF SkipSale
<1> DEFINE f == SoldBut(i, q)
<1>3. /\ FrameShape(f)
      /\ f.pc = "dead" => f = Unborn
      /\ u.dying => f = Unborn
      /\ ~u.dying => /\ Keeps(f, u) /\ Calm(f) /\ f.toSell = q /\ f.pc \in {"top", "complete"}
                     /\ f.kind = "passive"
  BY <1>1, SoldButShape DEF Keeps, Calm
<1>4. UNCHANGED <<latest, caller, exec>>
  BY DEF SkipSale, venue, book
<1> HIDE DEF f
<1>5. u = Current /\ HasTask /\ Current' = f
  BY <1>1, <1>2, <1>4, CurrentStep DEF f
<1>6. ShapeInv'
  <2>1. f.kind # "now" /\ (f.oid # 0 => f.seen <= exec'[f.oid])
    BY <1>1, <1>3, <1>4, SeenByNow, UnbornShape DEF Keeps
  <2> QED
    BY <1>1, <1>2, <1>3, <1>4, <2>1, ShapeStep, UnbornShape DEF f, Keeps
<1>7. u.toSell = 0 \/ TooSmall(i) \/ Untradeable(ToSell(i))
  BY <1>1 DEF SkipSale
<1> QED
  BY <1>1, <1>3, <1>5, <1>6, <1>7

LEMMA SaleOfSent ==
    ASSUME NEW q \in Nat \ {0}
    PROVE  LET s == SaleOf(q) IN s \in SaleType /\ s.at = "send" /\ s.need = q /\ s.fill = 0
<1> DEFINE at == IF q > 0 THEN "send" ELSE "done"
<1>1. SaleOf(q) = [NoSale EXCEPT !.at = at, !.need = q]
  BY DEF SaleOf
<1>2. at = "send" /\ q \in Int
  OBVIOUS
<1>3. NoSale \in SaleType /\ NoSale.fill = 0
  BY UnbornOK, UnbornShape
<1> HIDE DEF at
<1> QED
  BY <1>1, <1>2, <1>3 DEF SaleType

LEMMA BeginSaleEffect ==
    ASSUME RegistryInv, ShapeInv, NEW i \in TaskId, BeginSale(i)
    PROVE  LET u == Current  v == Current' IN
           /\ ShapeInv' /\ u = tasks[i] /\ HasTask
           /\ u.kind = "passive" /\ u.pc = "sell" /\ Calm(u)
           /\ Keeps(v, u) /\ v.pc = "selling" /\ v.toSell = u.toSell
           /\ v.perpLeg = NoLeg /\ v.spotLeg = NoLeg
           /\ v.sale.at = "send" /\ v.sale.need = ToSell(i) /\ v.sale.fill = 0
           /\ ToSell(i) \in Nat \ {0} /\ ToSell(i) <= u.toSell /\ ToSell(i) \in {u.toSell, dbSpot}
<1> DEFINE u == tasks[i]
           q == ToSell(i)
           s == SaleOf(q)
           f == [u EXCEPT !.pc = "selling", !.sale = s]
<1>1. /\ u \in TaskType /\ FrameShape(u) /\ u.pc = "sell" /\ u.kind = "passive" /\ Alive(i)
      /\ Calm(u)
  BY ShapeOf DEF BeginSale, Alive, FrameShape, TaskType, Calm
<1>2. q \in Nat \ {0} /\ q <= u.toSell /\ q \in {u.toSell, dbSpot}
  BY ToSellInt, ExitAssumption DEF BeginSale, Untradeable
<1>3. s \in SaleType /\ s.at = "send" /\ s.need = q /\ s.fill = 0
  BY <1>2, SaleOfSent
<1>4. Become(i, f) /\ UNCHANGED <<latest, caller, exec>>
  BY DEF BeginSale, venue, book
<1> HIDE DEF q, s
<1>5. /\ FrameShape(f) /\ Keeps(f, u) /\ f.pc = "selling" /\ f.toSell = u.toSell
      /\ f.perpLeg = NoLeg /\ f.spotLeg = NoLeg /\ f.sale = s
  BY <1>1, <1>2, <1>3 DEF FrameShape, TaskType, Calm, Keeps
<1> HIDE DEF f
<1>6. u = Current /\ HasTask /\ Current' = f
  BY <1>1, <1>4, CurrentStep
<1>7. ShapeInv'
  BY <1>1, <1>4, <1>5, SeenByNow, ShapeStep DEF Keeps
<1> QED
  BY <1>1, <1>2, <1>3, <1>5, <1>6, <1>7 DEF q

LEMMA SaleOverEffect ==
    ASSUME RegistryInv, ShapeInv, NEW i \in TaskId, SaleOver(i)
    PROVE  LET u == Current  v == Current' IN
           /\ ShapeInv' /\ u = tasks[i] /\ HasTask
           /\ u.kind = "passive" /\ u.pc = "selling" /\ u.perpLeg = NoLeg /\ u.spotLeg = NoLeg
           /\ u.sale.at \in {"done", "ambiguous"} /\ u.sale.need \in Nat
           /\ u.dying => v = Unborn
           /\ ~u.dying => /\ Keeps(v, u) /\ Calm(v) /\ v.pc \in {"top", "complete"}
                          /\ v.toSell = IF u.sale.at = "done" THEN u.sale.need ELSE 0
<1> DEFINE u == tasks[i]
           q == IF u.sale.at = "done" THEN u.sale.need ELSE 0
           release == u.sale.at = "done" /\ u.sale.need > 0 /\ u.sale.refused /\ ~u.released
           f == SoldBut(i, q)
           r == [f EXCEPT !.released = TRUE]
           g == IF release /\ f # Unborn THEN r ELSE f
<1>1. /\ u \in TaskType /\ FrameShape(u) /\ u.pc = "selling" /\ u.kind = "passive" /\ Alive(i)
      /\ u.perpLeg = NoLeg /\ u.spotLeg = NoLeg /\ u.sale.at \in {"done", "ambiguous"}
      /\ u.sale.need \in Nat
  BY ShapeOf, SMTT(30) DEF SaleOver, Alive, FrameShape, TaskType, SaleType
<1>2. q \in Nat
  BY <1>1
<1>3. Become(i, g) /\ UNCHANGED <<latest, caller, exec>>
  BY DEF SaleOver, book
<1> HIDE DEF q, release
<1>4. /\ FrameShape(f)
      /\ f.pc = "dead" => f = Unborn
      /\ u.dying => f = Unborn
      /\ ~u.dying => /\ Keeps(f, u) /\ Calm(f) /\ f.toSell = q /\ f.pc \in {"top", "complete"}
                     /\ f.kind = "passive"
  BY <1>1, <1>2, SoldButShape DEF Keeps, Calm
<1>5. f \in TaskType
  <2>1. q \in Int
    BY <1>2
  <2> QED
    BY <1>1, <2>1, SoldButOK DEF RegistryInv, FrameOK
<1> HIDE DEF f
<1>6. /\ FrameShape(g)
      /\ g.pc = "dead" => g = Unborn
      /\ u.dying => g = Unborn
      /\ ~u.dying => /\ Keeps(g, u) /\ Calm(g) /\ g.toSell = q /\ g.pc \in {"top", "complete"}
                     /\ g.kind = "passive"
  <2>1. f # Unborn => /\ FrameShape(r) /\ (Keeps(f, u) => Keeps(r, u)) /\ (Calm(f) => Calm(r))
                      /\ r.toSell = f.toSell /\ r.pc = f.pc /\ r.kind = f.kind /\ r.pc # "dead"
    BY <1>4, <1>5 DEF FrameShape, TaskType, Keeps, Calm
  <2>2. g = f \/ (g = r /\ f # Unborn)
    BY Zenon
  <2> HIDE DEF g, r
  <2> QED
    BY <1>4, <2>1, <2>2
<1> HIDE DEF g
<1>7. u = Current /\ HasTask /\ Current' = g
  BY <1>1, <1>3, CurrentStep
<1>8. ShapeInv'
  <2>1. g.kind # "now" /\ (g.oid # 0 => g.seen <= exec'[g.oid])
    BY <1>1, <1>3, <1>6, SeenByNow, UnbornShape DEF Keeps
  <2> QED
    BY <1>1, <1>3, <1>6, <2>1, ShapeStep, UnbornShape DEF Keeps
<1> QED
  BY <1>1, <1>6, <1>7, <1>8 DEF q

\* The handler of CancelledError has all of the gap between the rows to sell.
LEMMA UnhedgedShape ==
    ASSUME RegistryInv, ShapeInv, NEW i \in TaskId, tasks[i].pc \in {"check", "wait"}
    PROVE  LET u == tasks[i]  f == Unhedged(i) IN
           /\ FrameShape(f) /\ Keeps(f, u) /\ Calm(f) /\ f.pc = "sell" /\ f.force
           /\ f.toSell = AtLeast0(dbSpot - dbPerp)
           /\ u.kind = "passive" /\ u.dying /\ u.oid = 0
<1> DEFINE u == tasks[i]
           q == AtLeast0(dbSpot - dbPerp)
<1>1. u \in TaskType /\ FrameShape(u) /\ u.kind = "passive" /\ u.dying /\ u.oid = 0
  BY ShapeOf DEF FrameShape, TaskType
<1>2. q \in Nat
  <2>1. dbSpot - dbPerp \in Int
    BY DEF RegistryInv, World
  <2> QED
    BY <2>1, AtLeast0Nat
<1>3. Unhedged(i) = [u EXCEPT !.pc = "sell", !.force = TRUE, !.sale = NoSale, !.toSell = q]
  BY DEF Unhedged
<1> HIDE DEF q
<1> QED
  BY <1>1, <1>2, <1>3, UnbornShape DEF FrameShape, TaskType, Keeps, Calm, q

LEMMA CheckSaleEffect ==
    ASSUME RegistryInv, ShapeInv, NEW i \in TaskId, CheckSale(i)
    PROVE  LET u == Current  v == Current' IN
           /\ ShapeInv' /\ u = tasks[i] /\ HasTask
           /\ u.kind = "passive" /\ u.dying /\ u.pc = "check" /\ u.perpLeg = NoLeg /\ u.spotLeg = NoLeg
           /\ Keeps(v, u) /\ u.oid = 0 /\ v.perpLeg = NoLeg /\ v.spotLeg = NoLeg
           /\ \/ v.pc = "wait" /\ v.sale = u.sale /\ v.toSell = u.toSell
              \/ /\ v.pc = "sell" /\ v.sale = NoSale /\ u.sale.at \notin {"send", "sent"}
                 /\ v.toSell = AtLeast0(dbSpot - dbPerp) /\ v.force
<1> DEFINE u == tasks[i]
           f == [u EXCEPT !.pc = "wait"]
           g == Unhedged(i)
<1>1. /\ u \in TaskType /\ FrameShape(u) /\ u.pc = "check" /\ u.kind = "passive" /\ Alive(i)
      /\ u.perpLeg = NoLeg /\ u.spotLeg = NoLeg /\ u.dying /\ u.oid = 0
  BY ShapeOf DEF CheckSale, Alive, FrameShape, TaskType
<1>2. /\ UNCHANGED <<latest, caller, exec>>
      /\ \/ Become(i, f) /\ u.sale.at # "none"
         \/ Become(i, g) /\ u.sale.at \notin {"send", "sent"}
  BY DEF CheckSale, Goes, Selling, venue, book
<1>3. u.sale.at # "none" =>
        /\ FrameShape(f) /\ Keeps(f, u) /\ f.pc = "wait" /\ f.sale = u.sale /\ f.toSell = u.toSell
        /\ f.perpLeg = NoLeg /\ f.spotLeg = NoLeg
  BY <1>1 DEF FrameShape, TaskType, Keeps
<1>4. /\ FrameShape(g) /\ Keeps(g, u) /\ Calm(g) /\ g.pc = "sell" /\ g.force
      /\ g.toSell = AtLeast0(dbSpot - dbPerp)
  BY <1>1, UnhedgedShape
<1> HIDE DEF f, g
<1>5. u = Current /\ HasTask /\ (Become(i, f) => Current' = f) /\ (Become(i, g) => Current' = g)
  BY <1>1, <1>2, CurrentStep
<1>6. ShapeInv'
  BY <1>1, <1>2, <1>3, <1>4, ShapeStep DEF Keeps
<1> QED
  BY <1>1, <1>2, <1>3, <1>4, <1>5, <1>6 DEF Calm

LEMMA SaleAwaitedEffect ==
    ASSUME RegistryInv, ShapeInv, NEW i \in TaskId, SaleAwaited(i)
    PROVE  LET u == Current  v == Current' IN
           /\ ShapeInv' /\ u = tasks[i] /\ HasTask
           /\ u.kind = "passive" /\ u.dying /\ u.pc = "wait" /\ u.perpLeg = NoLeg /\ u.spotLeg = NoLeg
           /\ u.oid = 0
           /\ \/ v = Unborn /\ u.sale.at = "ambiguous" /\ warned'
              \/ /\ u.sale.at = "done" /\ warned' = warned
                 /\ Keeps(v, u) /\ v.pc = "sell" /\ Calm(v)
                 /\ v.toSell = AtLeast0(dbSpot - dbPerp) /\ v.force
<1> DEFINE u == tasks[i]
           g == Unhedged(i)
<1>1. /\ u \in TaskType /\ FrameShape(u) /\ u.pc = "wait" /\ u.kind = "passive" /\ Alive(i)
      /\ u.perpLeg = NoLeg /\ u.spotLeg = NoLeg /\ u.dying /\ u.oid = 0
  BY ShapeOf DEF SaleAwaited, Alive, FrameShape, TaskType
<1>2. /\ UNCHANGED <<latest, caller, exec>>
      /\ \/ Become(i, g) /\ u.sale.at = "done" /\ warned' = warned
         \/ Become(i, Unborn) /\ u.sale.at = "ambiguous" /\ warned'
  BY DEF SaleAwaited, Selling, venue, book
<1>3. /\ FrameShape(g) /\ Keeps(g, u) /\ Calm(g) /\ g.pc = "sell" /\ g.force
      /\ g.toSell = AtLeast0(dbSpot - dbPerp)
  BY <1>1, UnhedgedShape
<1> HIDE DEF g
<1>4. u = Current /\ HasTask /\ (Become(i, Unborn) => Current' = Unborn) /\ (Become(i, g) => Current' = g)
  BY <1>1, <1>2, CurrentStep
<1>5. ShapeInv'
  BY <1>1, <1>2, <1>3, ShapeStep, UnbornShape DEF Keeps
<1> QED
  BY <1>1, <1>2, <1>3, <1>4, <1>5

LEMMA StartEffect ==
    ASSUME RegistryInv, ShapeInv, NEW i \in TaskId, Start(i)
    PROVE  LET u == Current  v == Current' IN
           /\ ShapeInv' /\ u = tasks[i] /\ HasTask
           /\ u.pc = "start" /\ Calm(u) /\ u.oid = 0 /\ ~u.dying
           /\ v.pc = "top" /\ Calm(v) /\ v.oid = 0 /\ ~v.dying /\ v.toSell = u.toSell
           /\ \/ u.kind = "selldown" /\ v.kind = "selldown" /\ v.floor = u.floor /\ taker' = taker
              \/ u.kind = "exit" /\ v.kind = "passive" /\ mode = "passive" /\ taker' = taker
              \/ u.kind = "exit" /\ v.kind = "now" /\ mode # "passive" /\ taker'
<1> DEFINE u == tasks[i]
           kind == IF mode = "passive" THEN mode ELSE "now"
           f == [u EXCEPT !.pc = "top"]
           g == [u EXCEPT !.pc = "top", !.floor = floorReq, !.kind = kind]
<1>1. /\ u \in TaskType /\ FrameShape(u) /\ u.pc = "start" /\ u.kind \in {"exit", "selldown"}
      /\ Alive(i) /\ Calm(u) /\ u.oid = 0 /\ ~u.dying
  BY ShapeOf, TopCalm DEF Start, Alive, FrameShape, TaskType
<1>2. /\ UNCHANGED <<latest, caller, exec>>
      /\ \/ Become(i, f) /\ u.kind = "selldown" /\ taker' = taker
         \/ Become(i, g) /\ u.kind = "exit" /\ taker' = (taker \/ mode # "passive")
  BY <1>1 DEF Start, Goes, venue, book
<1>3. /\ kind \in {"passive", "now"} /\ floorReq \in Nat
      /\ kind = "passive" <=> mode = "passive"
  BY DEF RegistryInv, World
<1> HIDE DEF kind
<1>4. u.kind = "selldown" =>
        /\ FrameShape(f) /\ f.kind = "selldown" /\ f.pc = "top" /\ f.floor = u.floor
        /\ Calm(f) /\ f.oid = 0 /\ ~f.dying /\ f.toSell = u.toSell
  BY <1>1 DEF FrameShape, TaskType, Calm
<1>5. /\ FrameShape(g) /\ g.kind = kind /\ g.pc = "top"
      /\ Calm(g) /\ g.oid = 0 /\ ~g.dying /\ g.toSell = u.toSell
  BY <1>1, <1>3 DEF FrameShape, TaskType, Calm
<1> HIDE DEF f, g
<1>6. u = Current /\ HasTask /\ (Become(i, f) => Current' = f) /\ (Become(i, g) => Current' = g)
  BY <1>1, <1>2, CurrentStep
<1>7. CASE Become(i, f) /\ u.kind = "selldown" /\ taker' = taker
  <2>1. ShapeInv'
    BY <1>1, <1>2, <1>4, <1>7, ShapeStep
  <2> QED
    BY <1>1, <1>4, <1>6, <1>7, <2>1
<1>8. CASE Become(i, g) /\ u.kind = "exit" /\ taker' = (taker \/ mode # "passive")
  <2>1. ShapeInv'
    BY <1>1, <1>2, <1>3, <1>5, <1>8, ShapeStep
  <2>2. CASE mode = "passive"
    <3>1. taker' = taker
      BY <1>8, <2>2 DEF RegistryInv, World
    <3> QED
      BY <1>1, <1>3, <1>5, <1>6, <1>8, <2>1, <2>2, <3>1
  <2>3. CASE mode # "passive"
    BY <1>1, <1>3, <1>5, <1>6, <1>8, <2>1, <2>3
  <2> QED
    BY <2>2, <2>3
<1> QED
  BY <1>2, <1>7, <1>8

LEMMA CompleteEffect ==
    ASSUME RegistryInv, ShapeInv, NEW i \in TaskId, Complete(i)
    PROVE  LET u == Current  v == Current' IN
           /\ ShapeInv' /\ u = tasks[i] /\ HasTask
           /\ u.pc = "complete" /\ Calm(u) /\ u.oid = 0 /\ ~u.dying
           /\ \/ v = Unborn
              \/ /\ Keeps(v, u) /\ v.pc = "accrue" /\ Calm(v) /\ v.toSell = u.toSell
                 /\ Untradeable(dbPerp) /\ Untradeable(dbSpot) /\ UNCHANGED <<mode, state>>
<1> DEFINE u == tasks[i]
           f == [u EXCEPT !.pc = "accrue"]
<1>1. /\ u \in TaskType /\ FrameShape(u) /\ u.pc = "complete" /\ Alive(i) /\ Calm(u) /\ u.oid = 0
      /\ ~u.dying
  BY ShapeOf, TopCalm DEF Complete, Alive, FrameShape, TaskType
<1>2. /\ UNCHANGED <<latest, caller, exec, taker>>
      /\ \/ Ends(i)
         \/ /\ Become(i, f) /\ Untradeable(dbPerp) /\ Untradeable(dbSpot)
            /\ UNCHANGED <<mode, state>>
  BY DEF Complete, Goes, venue, book
<1>3. Ends(i) => Become(i, Unborn)
  BY <1>1, EndsShape
<1>4. /\ FrameShape(f) /\ Keeps(f, u) /\ f.pc = "accrue" /\ Calm(f) /\ f.toSell = u.toSell
  BY <1>1 DEF FrameShape, TaskType, Calm, Keeps
<1> HIDE DEF f
<1>5. u = Current /\ HasTask /\ (Become(i, f) => Current' = f) /\ (Become(i, Unborn) => Current' = Unborn)
  BY <1>1, <1>2, <1>3, CurrentStep
<1>6. ShapeInv'
  <2>1. f.kind = "now" => taker'
    BY <1>2, <1>4, <1>5 DEF ShapeInv, Keeps
  <2> QED
    BY <1>1, <1>2, <1>3, <1>4, <2>1, ShapeStep, UnbornShape DEF Keeps
<1> QED
  BY <1>1, <1>2, <1>3, <1>4, <1>5, <1>6

LEMMA AccruedEffect ==
    ASSUME RegistryInv, ShapeInv, NEW i \in TaskId, Accrued(i)
    PROVE  /\ ShapeInv' /\ Current = tasks[i] /\ HasTask /\ Current' = Unborn
           /\ Current.pc = "accrue" /\ Calm(Current) /\ Current.oid = 0 /\ ~Current.dying
<1>1. tasks[i].pc = "accrue" /\ Alive(i) /\ Ends(i) /\ UNCHANGED <<latest, caller>>
  BY DEF Accrued, Alive
<1>2. Become(i, Unborn)
  BY <1>1, EndsShape
<1>3. Calm(tasks[i]) /\ tasks[i].oid = 0 /\ ~tasks[i].dying
  BY <1>1, ShapeOf, TopCalm DEF FrameShape
<1> QED
  BY <1>1, <1>2, <1>3, EndsEffect

\* A step of a taker run that keeps its kind: the shape is all there is to show.
LEMMA TakerShapeStep ==
    ASSUME RegistryInv, ShapeInv, NEW i \in TaskId, Alive(i), NEW f, FrameShape(f), Become(i, f),
           UNCHANGED <<latest, caller, exec, taker>>, Keeps(f, tasks[i])
    PROVE  ShapeInv' /\ Current = tasks[i] /\ HasTask /\ Current' = f
<1>1. Current = tasks[i] /\ Current' = f /\ HasTask
  BY CurrentStep
<1>2. f.kind = "now" => taker'
  BY <1>1 DEF ShapeInv, Keeps
<1>3. f.oid # 0 => f.seen <= exec'[f.oid]
  BY SeenByNow DEF Keeps
<1> QED
  BY <1>1, <1>2, <1>3, ShapeStep DEF Keeps

LEMMA FinishedEffect ==
    ASSUME RegistryInv, ShapeInv, NEW i \in TaskId, Finished(i) \/ TimesOut(i)
    PROVE  LET u == Current  v == Current' IN
           /\ ShapeInv' /\ u = tasks[i] /\ HasTask
           /\ u.kind \in {"now", "selldown"} /\ u.pc = "top" /\ Calm(u) /\ u.oid = 0
           /\ Keeps(v, u) /\ v.pc = "complete" /\ Calm(v) /\ v.toSell = u.toSell
<1> DEFINE u == tasks[i]
           f == [u EXCEPT !.pc = "complete"]
<1>1. /\ u \in TaskType /\ FrameShape(u) /\ u.pc = "top" /\ u.kind \in {"now", "selldown"}
      /\ Alive(i) /\ Calm(u) /\ u.oid = 0
  BY ShapeOf, TopCalm DEF Finished, TimesOut, AtTop, Alive, FrameShape, TaskType
<1>2. Become(i, f) /\ UNCHANGED <<latest, caller, exec, taker>>
  BY DEF Finished, TimesOut, Goes, venue, book
<1>3. FrameShape(f) /\ Keeps(f, u) /\ f.pc = "complete" /\ Calm(f) /\ f.toSell = u.toSell
  BY <1>1 DEF FrameShape, TaskType, Calm, Keeps
<1> HIDE DEF f
<1>4. ShapeInv' /\ Current = u /\ HasTask /\ Current' = f
  BY <1>1, <1>2, <1>3, TakerShapeStep
<1> QED
  BY <1>1, <1>3, <1>4

LEMMA SendLegsEffect ==
    ASSUME RegistryInv, ShapeInv, NEW i \in TaskId, NEW legs, SendLegs(i, legs)
    PROVE  LET u == Current  v == Current' IN
           /\ ShapeInv' /\ u = tasks[i] /\ HasTask
           /\ u.kind = "now" /\ u.pc = "top" /\ Calm(u) /\ u.oid = 0
           /\ Keeps(v, u) /\ v.pc = "sent" /\ v.toSell = u.toSell /\ v.sale = NoSale
           /\ v.perpLeg.fill = 0 /\ v.spotLeg.fill = 0
<1> DEFINE u == tasks[i]
           p == LegOf(Remaining(i), "perp" \in legs)
           s == LegOf(SpotLeft(i), "spot" \in legs)
           f == [u EXCEPT !.pc = "sent", !.perpLeg = p, !.spotLeg = s]
<1>1. /\ u \in TaskType /\ FrameShape(u) /\ u.pc = "top" /\ u.kind = "now"
      /\ Alive(i) /\ Calm(u) /\ u.oid = 0
  BY ShapeOf, TopCalm DEF SendLegs, AtTop, Alive, FrameShape, TaskType
<1>2. Become(i, f) /\ UNCHANGED <<latest, caller, exec, taker>>
  BY DEF SendLegs, venue, book
<1>3. p.fill = 0 /\ s.fill = 0 /\ p.at \in {"sent", "done"} /\ s.at \in {"sent", "done"}
  BY DEF LegOf
<1> HIDE DEF p, s
<1>4. /\ FrameShape(f) /\ Keeps(f, u) /\ f.pc = "sent" /\ f.sale = NoSale /\ f.toSell = u.toSell
      /\ f.perpLeg = p /\ f.spotLeg = s
  BY <1>1, <1>3 DEF FrameShape, TaskType, Calm, Keeps
<1> HIDE DEF f
<1>5. ShapeInv' /\ Current = u /\ HasTask /\ Current' = f
  BY <1>1, <1>2, <1>4, TakerShapeStep
<1> QED
  BY <1>1, <1>3, <1>4, <1>5

\* The legs of a taker close are answered, or their answers lost.
LEMMA LegsEffect ==
    ASSUME RegistryInv, ShapeInv, NEW i \in TaskId, tasks[i].pc = "sent",
           NEW p \in LegType, NEW s \in LegType,
           "ambiguous" \in {p.at, s.at} => "leg_ambiguous" \in ExitFaults,
           p.at # "none", s.at # "none",
           NEW f, f = [tasks[i] EXCEPT !.perpLeg = p, !.spotLeg = s], Become(i, f),
           UNCHANGED <<latest, caller, exec, taker>>
    PROVE  LET u == Current  v == Current' IN
           /\ ShapeInv' /\ u = tasks[i] /\ HasTask
           /\ u.kind = "now" /\ u.pc = "sent" /\ u.sale = NoSale /\ u.oid = 0
           /\ Keeps(v, u) /\ v.pc = "sent" /\ v.toSell = u.toSell /\ v.sale = NoSale
           /\ v.perpLeg = p /\ v.spotLeg = s
<1> DEFINE u == tasks[i]
<1>1. /\ u \in TaskType /\ FrameShape(u) /\ u.kind = "now" /\ Alive(i) /\ u.sale = NoSale /\ u.oid = 0
  BY ShapeOf DEF Alive, FrameShape, TaskType
<1>2. /\ FrameShape(f) /\ Keeps(f, u) /\ f.pc = "sent" /\ f.sale = NoSale /\ f.toSell = u.toSell
      /\ f.perpLeg = p /\ f.spotLeg = s
  BY <1>1 DEF FrameShape, TaskType, Keeps
<1>3. ShapeInv' /\ Current = u /\ HasTask /\ Current' = f
  BY <1>1, <1>2, TakerShapeStep
<1> QED
  BY <1>1, <1>2, <1>3

LEMMA GatherEffect ==
    ASSUME RegistryInv, ShapeInv, NEW i \in TaskId, Gather(i)
    PROVE  LET u == Current  v == Current' IN
           /\ ShapeInv' /\ u = tasks[i] /\ HasTask
           /\ u.kind = "now" /\ u.pc = "sent" /\ u.sale = NoSale /\ u.oid = 0
           /\ Keeps(v, u) /\ v.pc \in {"complete", "top"} /\ v.toSell = u.toSell /\ Calm(v)
           /\ u.perpLeg.at \in {"done", "ambiguous"} /\ u.spotLeg.at \in {"done", "ambiguous"}
           /\ u.perpLeg.fill \in Nat /\ u.spotLeg.fill \in Nat
           /\ "ambiguous" \in {u.perpLeg.at, u.spotLeg.at} => "leg_ambiguous" \in ExitFaults
<1> DEFINE u == tasks[i]
           unknown == "ambiguous" \in {u.perpLeg.at, u.spotLeg.at}
           pc == IF unknown THEN "complete" ELSE "top"
           f == [u EXCEPT !.pc = pc, !.perpLeg = NoLeg, !.spotLeg = NoLeg]
<1>1. /\ u \in TaskType /\ FrameShape(u) /\ u.kind = "now" /\ Alive(i) /\ u.sale = NoSale /\ u.oid = 0
      /\ u.pc = "sent"
  BY ShapeOf DEF Gather, Alive, FrameShape, TaskType
<1>2. Become(i, f) /\ UNCHANGED <<latest, caller, exec, taker>>
  BY DEF Gather, venue, book
<1>3. pc \in {"complete", "top"}
  OBVIOUS
<1> HIDE DEF pc
<1>4. FrameShape(f) /\ Keeps(f, u) /\ f.pc = pc /\ f.toSell = u.toSell /\ Calm(f)
  BY <1>1, <1>3, UnbornShape DEF FrameShape, TaskType, Keeps, Calm
<1> HIDE DEF f
<1>5. ShapeInv' /\ Current = u /\ HasTask /\ Current' = f
  BY <1>1, <1>2, <1>4, TakerShapeStep
<1>6. /\ u.perpLeg.at \in {"done", "ambiguous"} /\ u.spotLeg.at \in {"done", "ambiguous"}
      /\ u.perpLeg.fill \in Nat /\ u.spotLeg.fill \in Nat
      /\ "ambiguous" \in {u.perpLeg.at, u.spotLeg.at} => "leg_ambiguous" \in ExitFaults
  <2>1. u.perpLeg.at # "sent" /\ u.spotLeg.at # "sent"
    BY DEF Gather
  <2> QED
    BY <1>1, <2>1, LegsOf DEF FrameShape, LegType
<1> QED
  BY <1>1, <1>3, <1>4, <1>5, <1>6

LEMMA TrancheEffect ==
    ASSUME RegistryInv, ShapeInv, NEW i \in TaskId, NEW q \in 1..Size, Tranche(i, q)
    PROVE  LET u == Current  v == Current' IN
           /\ ShapeInv' /\ u = tasks[i] /\ HasTask
           /\ u.kind = "selldown" /\ u.pc = "top" /\ Calm(u) /\ u.oid = 0
           /\ Keeps(v, u) /\ v.pc = "selling" /\ v.toSell = u.toSell
           /\ v.perpLeg = NoLeg /\ v.spotLeg = NoLeg
           /\ v.sale.at = "send" /\ v.sale.need = q /\ v.sale.fill = 0
<1> DEFINE u == tasks[i]
           s == SaleOf(q)
           f == [u EXCEPT !.pc = "selling", !.sale = s]
<1>1. /\ u \in TaskType /\ FrameShape(u) /\ u.kind = "selldown" /\ Alive(i) /\ u.pc = "top"
      /\ Calm(u) /\ u.oid = 0
  BY ShapeOf, TopCalm DEF Tranche, AtTop, Alive, FrameShape, TaskType
<1>2. Become(i, f) /\ UNCHANGED <<latest, caller, exec, taker>>
  BY DEF Tranche, venue, book
<1>3. s \in SaleType /\ s.at = "send" /\ s.need = q /\ s.fill = 0 /\ q \in Nat
  BY SaleOfSent, ExitAssumption
<1> HIDE DEF s
<1>4. /\ FrameShape(f) /\ Keeps(f, u) /\ f.pc = "selling" /\ f.toSell = u.toSell
      /\ f.perpLeg = NoLeg /\ f.spotLeg = NoLeg /\ f.sale = s
  BY <1>1, <1>3 DEF FrameShape, TaskType, Keeps, Calm
<1> HIDE DEF f
<1>5. ShapeInv' /\ Current = u /\ HasTask /\ Current' = f
  BY <1>1, <1>2, <1>4, TakerShapeStep
<1> QED
  BY <1>1, <1>3, <1>4, <1>5

LEMMA TrancheOverEffect ==
    ASSUME RegistryInv, ShapeInv, NEW i \in TaskId, TrancheOver(i)
    PROVE  LET u == Current  v == Current' IN
           /\ ShapeInv' /\ u = tasks[i] /\ HasTask
           /\ u.kind = "selldown" /\ u.pc = "selling" /\ u.oid = 0
           /\ u.perpLeg = NoLeg /\ u.spotLeg = NoLeg
           /\ \/ v = Unborn /\ u.sale.at = "ambiguous"
              \/ /\ u.sale.at = "done"
                 /\ Keeps(v, u) /\ v.pc = "top" /\ v.toSell = u.toSell /\ Calm(v)
<1> DEFINE u == tasks[i]
           f == [u EXCEPT !.pc = "top", !.sale = NoSale]
<1>1. /\ u \in TaskType /\ FrameShape(u) /\ u.kind = "selldown" /\ Alive(i) /\ u.pc = "selling"
      /\ u.perpLeg = NoLeg /\ u.spotLeg = NoLeg /\ u.oid = 0
  BY ShapeOf DEF TrancheOver, Alive, FrameShape, TaskType
<1>2. /\ UNCHANGED <<latest, caller, exec, taker>>
      /\ (Become(i, f) /\ u.sale.at = "done") \/ (Become(i, Unborn) /\ u.sale.at = "ambiguous")
  BY DEF TrancheOver, Selling, venue, book
<1>3. FrameShape(f) /\ Keeps(f, u) /\ f.pc = "top" /\ f.toSell = u.toSell /\ Calm(f)
  BY <1>1, UnbornShape DEF FrameShape, TaskType, Keeps, Calm
<1> HIDE DEF f
<1>4. CASE Become(i, f) /\ u.sale.at = "done"
  <2>1. ShapeInv' /\ Current = u /\ HasTask /\ Current' = f
    BY <1>1, <1>2, <1>3, <1>4, TakerShapeStep
  <2> QED
    BY <1>1, <1>3, <1>4, <2>1
<1>5. CASE Become(i, Unborn) /\ u.sale.at = "ambiguous"
  BY <1>1, <1>2, <1>5, EndsEffect
<1> QED
  BY <1>2, <1>4, <1>5

\* A leg of a taker close fills, or its answer is lost.
LEMMA PerpLegEffect ==
    ASSUME RegistryInv, ShapeInv, NEW i \in TaskId, NEW k \in 0..Size, PerpLeg(i, k)
    PROVE  LET u == Current  v == Current' IN
           /\ ShapeInv' /\ u = tasks[i] /\ HasTask
           /\ u.kind = "now" /\ u.pc = "sent" /\ u.sale = NoSale /\ u.oid = 0
           /\ Keeps(v, u) /\ v.pc = "sent" /\ v.toSell = u.toSell /\ v.sale = NoSale
           /\ u.perpLeg.at = "sent" /\ v.perpLeg.at = "done" /\ v.perpLeg.fill = k
           /\ v.spotLeg = u.spotLeg /\ k \in Nat
<1> DEFINE u == tasks[i]
           p == [u.perpLeg EXCEPT !.at = "done", !.fill = k]
           s == u.spotLeg
<1>1. u \in TaskType /\ FrameShape(u) /\ u.perpLeg.at = "sent" /\ k \in Nat
  BY ShapeOf, ExitAssumption DEF PerpLeg
<1>2. u.pc = "sent"
  BY <1>1, TaskFrame DEF FrameOK, RegistryInv
<1>3. u.perpLeg \in LegType /\ s \in LegType
  BY LegsOf
<1>4. p \in LegType /\ p.at = "done" /\ p.fill = k
  BY <1>1, <1>3 DEF LegType
<1>5. Become(i, [u EXCEPT !.perpLeg = p]) /\ UNCHANGED <<latest, caller, exec, taker>>
  BY DEF PerpLeg, book
<1> HIDE DEF p
<1>6. [u EXCEPT !.perpLeg = p] = [u EXCEPT !.perpLeg = p, !.spotLeg = s]
  BY <1>1 DEF TaskType
<1>7. /\ "ambiguous" \in {p.at, s.at} => "leg_ambiguous" \in ExitFaults
      /\ p.at # "none" /\ s.at # "none"
  BY <1>1, <1>2, <1>4 DEF FrameShape
<1> DEFINE f == [u EXCEPT !.perpLeg = p, !.spotLeg = s]
<1>8. Become(i, f) /\ f = [u EXCEPT !.perpLeg = p, !.spotLeg = s]
  BY <1>5, <1>6
<1>9. s = u.spotLeg
  OBVIOUS
<1> HIDE DEF f, s
<1>10. LET v == Current' IN
      /\ ShapeInv' /\ Current = u /\ HasTask
      /\ u.kind = "now" /\ u.sale = NoSale /\ u.oid = 0
      /\ Keeps(v, u) /\ v.pc = "sent" /\ v.toSell = u.toSell /\ v.sale = NoSale
      /\ v.perpLeg = p /\ v.spotLeg = s
  BY <1>1, <1>2, <1>3, <1>4, <1>5, <1>7, <1>8, LegsEffect
<1> QED
  BY <1>1, <1>2, <1>4, <1>9, <1>10

LEMMA SpotLegEffect ==
    ASSUME RegistryInv, ShapeInv, NEW i \in TaskId, NEW k \in 0..Size, SpotLeg(i, k)
    PROVE  LET u == Current  v == Current' IN
           /\ ShapeInv' /\ u = tasks[i] /\ HasTask
           /\ u.kind = "now" /\ u.pc = "sent" /\ u.sale = NoSale /\ u.oid = 0
           /\ Keeps(v, u) /\ v.pc = "sent" /\ v.toSell = u.toSell /\ v.sale = NoSale
           /\ u.spotLeg.at = "sent" /\ v.spotLeg.at = "done" /\ v.spotLeg.fill = k
           /\ v.perpLeg = u.perpLeg /\ k \in Nat
<1> DEFINE u == tasks[i]
           p == u.perpLeg
           s == [u.spotLeg EXCEPT !.at = "done", !.fill = k]
<1>1. u \in TaskType /\ FrameShape(u) /\ u.spotLeg.at = "sent" /\ k \in Nat
  BY ShapeOf, ExitAssumption DEF SpotLeg
<1>2. u.pc = "sent"
  BY <1>1, TaskFrame DEF FrameOK, RegistryInv
<1>3. p \in LegType /\ u.spotLeg \in LegType
  BY LegsOf
<1>4. s \in LegType /\ s.at = "done" /\ s.fill = k
  BY <1>1, <1>3 DEF LegType
<1>5. Become(i, [u EXCEPT !.spotLeg = s]) /\ UNCHANGED <<latest, caller, exec, taker>>
  BY DEF SpotLeg, book
<1> HIDE DEF s
<1>6. [u EXCEPT !.spotLeg = s] = [u EXCEPT !.perpLeg = p, !.spotLeg = s]
  BY <1>1 DEF TaskType
<1>7. /\ "ambiguous" \in {p.at, s.at} => "leg_ambiguous" \in ExitFaults
      /\ p.at # "none" /\ s.at # "none"
  BY <1>1, <1>2, <1>4 DEF FrameShape
<1> DEFINE f == [u EXCEPT !.perpLeg = p, !.spotLeg = s]
<1>8. Become(i, f) /\ f = [u EXCEPT !.perpLeg = p, !.spotLeg = s]
  BY <1>5, <1>6
<1> HIDE DEF f
<1> QED
  BY <1>1, <1>2, <1>3, <1>4, <1>5, <1>7, <1>8, LegsEffect, ZenonT(60)

LEMMA LegAmbiguousEffect ==
    ASSUME RegistryInv, ShapeInv, NEW i \in TaskId, LegAmbiguous(i)
    PROVE  LET u == Current  v == Current' IN
           /\ ShapeInv' /\ u = tasks[i] /\ HasTask
           /\ u.kind = "now" /\ u.pc = "sent" /\ u.sale = NoSale /\ u.oid = 0
           /\ Keeps(v, u) /\ v.pc = "sent" /\ v.toSell = u.toSell /\ v.sale = NoSale
           /\ "leg_ambiguous" \in ExitFaults
           /\ \/ /\ u.perpLeg.at = "done" /\ v.perpLeg.at = "ambiguous"
                 /\ v.perpLeg.fill = u.perpLeg.fill /\ v.spotLeg = u.spotLeg
              \/ /\ u.spotLeg.at = "done" /\ v.spotLeg.at = "ambiguous"
                 /\ v.spotLeg.fill = u.spotLeg.fill /\ v.perpLeg = u.perpLeg
<1> DEFINE u == tasks[i]
           p == [u.perpLeg EXCEPT !.at = "ambiguous"]
           s == [u.spotLeg EXCEPT !.at = "ambiguous"]
<1>1. /\ u \in TaskType /\ u.pc = "sent" /\ "leg_ambiguous" \in ExitFaults
      /\ u.perpLeg.at # "none" /\ u.spotLeg.at # "none"
  BY ShapeOf DEF LegAmbiguous, FrameShape
<1>2. u.perpLeg \in LegType /\ u.spotLeg \in LegType
  BY LegsOf
<1>3. /\ p \in LegType /\ p.at = "ambiguous" /\ p.fill = u.perpLeg.fill
      /\ s \in LegType /\ s.at = "ambiguous" /\ s.fill = u.spotLeg.fill
  BY <1>2 DEF LegType
<1>4. /\ UNCHANGED <<latest, caller, exec, taker>>
      /\ \/ u.perpLeg.at = "done" /\ Become(i, [u EXCEPT !.perpLeg = p])
         \/ u.spotLeg.at = "done" /\ Become(i, [u EXCEPT !.spotLeg = s])
  BY DEF LegAmbiguous, venue, book
<1> HIDE DEF p, s
<1>5. /\ [u EXCEPT !.perpLeg = p] = [u EXCEPT !.perpLeg = p, !.spotLeg = u.spotLeg]
      /\ [u EXCEPT !.spotLeg = s] = [u EXCEPT !.perpLeg = u.perpLeg, !.spotLeg = s]
  BY <1>1 DEF TaskType
<1>6. CASE u.perpLeg.at = "done" /\ Become(i, [u EXCEPT !.perpLeg = p])
  <2> DEFINE f == [u EXCEPT !.perpLeg = p, !.spotLeg = u.spotLeg]
  <2>1. Become(i, f) /\ f = [u EXCEPT !.perpLeg = p, !.spotLeg = u.spotLeg]
    BY <1>5, <1>6
  <2> HIDE DEF f
  <2> QED
    BY <1>1, <1>2, <1>3, <1>4, <1>6, <2>1, LegsEffect, ZenonT(60)
<1>7. CASE u.spotLeg.at = "done" /\ Become(i, [u EXCEPT !.spotLeg = s])
  <2> DEFINE f == [u EXCEPT !.perpLeg = u.perpLeg, !.spotLeg = s]
  <2>1. Become(i, f) /\ f = [u EXCEPT !.perpLeg = u.perpLeg, !.spotLeg = s]
    BY <1>5, <1>7
  <2> HIDE DEF f
  <2> QED
    BY <1>1, <1>2, <1>3, <1>4, <1>7, <2>1, LegsEffect, ZenonT(60)
<1> QED
  BY <1>4, <1>6, <1>7

-------------------------------------------------------------------------------
\* The effect of the callers' steps.

\* The task that is cancelled was not being cancelled: whoever did so still waits.
LEMMA CancelTaskEffect ==
    ASSUME RegistryInv, ShapeInv, OneReplacer, NEW c \in Callers, CancelTask(c)
    PROVE  LET u == Current  v == Current' IN
           /\ ShapeInv' /\ HasTask /\ ~u.dying /\ u.pc \notin NoAwait
           /\ (u.pc \in {"placing", "sent"} => "cut_request" \in ExitFaults)
           /\ (u.kind = "selldown" /\ u.sale.at = "sent" => "cut_request" \in ExitFaults)
           /\ \/ v = Unborn /\ u.oid = 0 /\ (u.kind = "passive" => u.pc = "accrue")
              \/ /\ u.kind = "passive" /\ u.pc \in {"top", "cancel", "selling", "placing"}
                 /\ v.kind = "passive" /\ v.dying /\ v.floor = u.floor /\ v.seen = u.seen
                 /\ v.toSell = u.toSell /\ v.sale = u.sale
                 /\ v.perpLeg = NoLeg /\ v.spotLeg = NoLeg
                 /\ u.perpLeg = NoLeg /\ u.spotLeg = NoLeg
                 /\ v.pc = IF v.oid = 0 THEN "check" ELSE "cancel"
                 /\ v.oid = IF u.pc = "placing" THEN 0 ELSE u.oid
<1> DEFINE u == tasks[latest]
           known == IF u.pc = "placing" THEN 0 ELSE u.oid
           pc == IF known # 0 THEN "cancel" ELSE "check"
           g == [u EXCEPT !.dying = TRUE, !.oid = known, !.pc = pc]
           r == [pc |-> "await", op |-> caller[c].op, floor |-> caller[c].floor, waits |-> latest]
<1>1. latest \in TaskId /\ Alive(latest) /\ latest # 0 /\ Current = u
  BY DEF CancelTask, HasTask, RegistryInv, Registry, Current
<1>2. u \in TaskType /\ FrameShape(u)
  BY <1>1, ShapeOf
<1>3. ~u.dying
  <2>1. SUFFICES ASSUME u.dying PROVE FALSE
    OBVIOUS
  <2>2. PICK d \in Callers : caller[d].pc = "await"
    BY <1>1, <2>1 DEF ShapeInv
  <2>3. {caller[c].pc, caller[d].pc} \subseteq {"cancel", "await"}
    BY <2>2 DEF CancelTask
  <2> QED
    BY <2>2, <2>3 DEF OneReplacer, CancelTask
<1>4. /\ u.pc \notin NoAwait /\ u.pc # "dead"
      /\ u.pc \in {"placing", "sent"} => "cut_request" \in ExitFaults
      /\ u.kind = "selldown" /\ u.sale.at = "sent" => "cut_request" \in ExitFaults
  BY <1>1 DEF CancelTask, RequestOut, Selling, Alive
<1>5. known \in Order \cup {0} /\ pc \in {"cancel", "check"} /\ (pc = "cancel" <=> known # 0)
  BY <1>2 DEF TaskType
<1>6. \/ /\ Cancelled(latest) = Unborn /\ u.oid = 0 /\ (u.kind = "passive" => u.pc = "accrue")
      \/ /\ Cancelled(latest) = g
         /\ u.kind = "passive" /\ u.pc \in {"top", "cancel", "selling", "placing"}
  BY <1>2, <1>3, <1>4 DEF Cancelled, NeedsCleanup, FrameShape, TaskType, NoAwait
<1>7. known = IF u.pc = "placing" THEN 0 ELSE u.oid
  OBVIOUS
<1> HIDE DEF known, pc
<1>8. u.kind = "passive" /\ u.pc \in {"top", "cancel", "selling", "placing"} =>
        /\ FrameShape(g) /\ g.kind = "passive" /\ g.dying /\ g.floor = u.floor /\ g.seen = u.seen
        /\ g.toSell = u.toSell /\ g.sale = u.sale
        /\ g.perpLeg = NoLeg /\ g.spotLeg = NoLeg /\ u.perpLeg = NoLeg /\ u.spotLeg = NoLeg
        /\ g.pc = pc /\ g.oid = known
  BY <1>2, <1>3, <1>5, <1>7 DEF FrameShape, TaskType
<1> DEFINE f == Cancelled(latest)
<1>9. tasks' = [tasks EXCEPT ![latest] = f] /\ caller' = [caller EXCEPT ![c] = r]
      /\ UNCHANGED <<latest, exec, taker>>
  BY DEF CancelTask, Become, CallerGoes, venue, book
<1>10. r.pc = "await" /\ r.op = caller[c].op
  OBVIOUS
<1> HIDE DEF f, r, g
<1>11. Current' = f /\ \A j \in TaskId : tasks'[j] \in {f, tasks[j]}
  BY <1>1, <1>9 DEF Current, RegistryInv, Registry
<1>12. /\ caller'[c].pc = "await" /\ caller'[c].op = caller[c].op /\ caller[c].pc = "cancel"
       /\ \A d \in Callers \ {c} : caller'[d] = caller[d]
  BY <1>9, <1>10 DEF RegistryInv, Registry, CancelTask
<1>13. \A d \in Callers \ {c} : caller[d].pc # "await"
  BY DEF OneReplacer, CancelTask
<1>14. /\ FrameShape(f) /\ f.kind \in {"none", "passive"}
       /\ f.pc = "dead" \/ f.dying
       /\ f.oid # 0 => f.oid = u.oid /\ f.seen = u.seen
  BY <1>5, <1>6, <1>7, <1>8, UnbornShape DEF f
<1>15. ShapeInv'
  <2>1. \A j \in TaskId : FrameShape(tasks'[j])
    BY <1>11, <1>14 DEF ShapeInv
  <2>2. \A j \in TaskId : FrameShape(tasks[j])'
    BY <2>1 DEF FrameShape
  <2>3. HasTask' => f.pc # "dead"
    BY <1>11 DEF HasTask, Alive, Current
  <2>4. f.oid # 0 => f.seen <= exec'[f.oid]
    BY <1>1, <1>9, <1>14 DEF ShapeInv
  <2> QED
    BY <1>11, <1>12, <1>13, <1>14, <2>2, <2>3, <2>4 DEF ShapeInv
<1>16. CASE f = Unborn /\ u.oid = 0 /\ (u.kind = "passive" => u.pc = "accrue")
  BY <1>1, <1>3, <1>4, <1>11, <1>15, <1>16 DEF CancelTask
<1>17. CASE f = g /\ u.kind = "passive" /\ u.pc \in {"top", "cancel", "selling", "placing"}
  BY <1>1, <1>3, <1>4, <1>5, <1>7, <1>8, <1>11, <1>15, <1>17 DEF CancelTask
<1> QED
  BY <1>6, <1>16, <1>17 DEF f

LEMMA NoTaskUnborn ==
    ASSUME RegistryInv, ShapeInv, ~HasTask
    PROVE  Current = Unborn
<1>1. CASE latest = 0
  BY <1>1 DEF Current
<1>2. CASE latest # 0
  <2>1. latest \in TaskId /\ tasks[latest].pc = "dead"
    BY <1>2 DEF HasTask, Alive, RegistryInv, Registry
  <2> QED
    BY <1>2, <2>1, ShapeOf DEF FrameShape, Current
<1> QED
  BY <1>1, <1>2

LEMMA SpawnEffect ==
    ASSUME RegistryInv, ShapeInv, OneReplacer, NEW c \in Callers, Spawn(c)
    PROVE  LET u == Current  v == Current' IN
           /\ ShapeInv' /\ u = Unborn /\ ~HasTask
           /\ v.kind = caller[c].op /\ v.pc = "start" /\ v.floor = caller[c].floor /\ v.oid = 0
           /\ ~v.dying /\ Calm(v) /\ v.toSell = 0
           /\ caller[c].op \in {"exit", "selldown"} /\ caller[c].pc \in {"cancel", "await"}
           /\ caller' = [caller EXCEPT ![c] = Idle]
<1> DEFINE f == [Unborn EXCEPT !.kind = caller[c].op, !.pc = "start", !.floor = caller[c].floor]
<1>1. ~HasTask /\ caller[c].pc \in {"cancel", "await"}
  BY DEF Spawn, MayProceed, HasTask, RegistryInv, Registry
<1>2. Current = Unborn
  BY <1>1, NoTaskUnborn
<1>3. latest' \in TaskId /\ latest' # 0
  <2>1. MaxTasks \in Nat
    BY ExitAssumption
  <2>2. latest' = latest + 1 /\ latest < MaxTasks /\ latest \in TaskId \cup {0}
    BY DEF Spawn, RegistryInv, Registry
  <2> QED
    BY <2>1, <2>2 DEF TaskId
<1>4. tasks' = [tasks EXCEPT ![latest'] = f] /\ caller' = [caller EXCEPT ![c] = Idle]
      /\ UNCHANGED exec
  BY DEF Spawn, Become, CallerGoes, Idle, venue, book
<1>5. caller[c].op \in {"exit", "selldown"}
  BY <1>1, CallerTypes DEF Spawn, RegistryInv, ShapeInv
<1>6. \A d \in Callers \ {c} : caller[d].pc # "await"
  BY <1>1 DEF OneReplacer
<1>7. Idle.pc = "idle" /\ Idle.op = "none"
  BY DEF Idle
<1>8. /\ f.kind = caller[c].op /\ f.pc = "start" /\ f.floor = caller[c].floor /\ f.oid = 0
      /\ ~f.dying /\ Calm(f) /\ f.toSell = 0 /\ ~f.ending
  BY DEF Unborn, Calm
<1>9. FrameShape(f)
  BY <1>5, <1>8, UnbornShape DEF FrameShape, Calm
<1> HIDE DEF f
<1>10. Current' = f /\ \A j \in TaskId : tasks'[j] \in {f, tasks[j]}
  BY <1>3, <1>4 DEF Current, RegistryInv, Registry
<1>11. \A d \in Callers : caller'[d].pc # "await" /\ caller'[d] \in {caller[d], Idle}
  BY <1>4, <1>6, <1>7 DEF RegistryInv, Registry
<1>12. ShapeInv'
  <2>1. \A j \in TaskId : FrameShape(tasks'[j])
    BY <1>9, <1>10 DEF ShapeInv
  <2>2. \A j \in TaskId : FrameShape(tasks[j])'
    BY <2>1 DEF FrameShape
  <2> QED
    BY <1>5, <1>7, <1>8, <1>10, <1>11, <2>2 DEF ShapeInv
<1> QED
  BY <1>1, <1>2, <1>4, <1>5, <1>8, <1>10, <1>12

LEMMA ExecNat == ASSUME RegistryInv PROVE \A o \in Order : exec[o] \in Nat /\ exec[o] >= exec[o]
  BY DEF RegistryInv, World

\* The tasks stay as they are.
LEMMA ShapeStays ==
    ASSUME RegistryInv, ShapeInv, UNCHANGED <<tasks, latest, taker>>,
           \A o \in Order : exec'[o] \in Nat /\ exec'[o] >= exec[o],
           \A c \in Callers : /\ caller'[c].pc = "await" => caller[c].pc = "await"
                              /\ caller'[c].pc = "idle" <=> caller'[c].op = "none",
           Current.dying => \E c \in Callers : caller'[c].pc = "await"
    PROVE  ShapeInv' /\ Current' = Current /\ (HasTask' <=> HasTask)
<1>1. Current' = Current /\ (HasTask' <=> HasTask)
  BY DEF Current, HasTask, Alive
<1>2. \A i \in TaskId : FrameShape(tasks[i])'
  BY DEF ShapeInv, FrameShape
<1>3. Current.oid # 0 => Current.seen <= exec'[Current.oid]
  <2>1. SUFFICES ASSUME Current.oid # 0 PROVE Current.seen <= exec'[Current.oid]
    OBVIOUS
  <2>2. latest \in TaskId /\ Current = tasks[latest]
    BY <2>1, UnbornShape DEF Current, RegistryInv, Registry
  <2>3. Alive(latest)
    BY <2>1, <2>2, ShapeOf DEF FrameShape, Alive
  <2>4. Current.oid \in Order /\ Current.seen <= exec[Current.oid]
    BY <2>1, <2>2, <2>3, SeenByNow
  <2>5. Current.seen \in Nat /\ exec[Current.oid] \in Nat
    BY <2>1, <2>2, <2>3, SeenByNow
  <2>6. exec'[Current.oid] \in Nat /\ exec'[Current.oid] >= exec[Current.oid]
    BY <2>4
  <2> QED
    BY <2>4, <2>5, <2>6
<1> QED
  BY <1>1, <1>2, <1>3 DEF ShapeInv

\* A caller asks for something, or goes on without touching a task.
LEMMA AsksEffect ==
    ASSUME RegistryInv, ShapeInv, NEW c \in Callers,
           \/ \E m \in Modes, f \in Floors : AskExit(c, m, f)
           \/ AskStandDown(c)
           \/ GuardRebalance(c)
           \/ StopsCancelled(c)
           \/ StoodDown(c)
    PROVE  ShapeInv' /\ Current' = Current /\ (HasTask' <=> HasTask)
<1>1. UNCHANGED <<tasks, latest, taker, exec>>
  BY DEF AskExit, AskStandDown, GuardRebalance, StopsCancelled, StoodDown, venue, book
<1>2. \A o \in Order : exec'[o] \in Nat /\ exec'[o] >= exec[o]
  BY <1>1, ExecNat
<1>3. ASSUME ~StoodDown(c)
      PROVE  /\ \A d \in Callers : /\ caller'[d].pc = "await" <=> caller[d].pc = "await"
                                   /\ caller'[d].pc = "idle" <=> caller'[d].op = "none"
  <2>1. PICK pc, op, floor :
            /\ pc \in {"stops", "cancel"} /\ op \in {"exit", "standdown", "selldown"}
            /\ CallerGoes(c, pc, op, floor, 0)
    <3>1. StopsCancelled(c) => caller[c].op \in {"exit", "standdown", "selldown"}
      BY CallerTypes DEF StopsCancelled, ShapeInv, RegistryInv
    <3> QED
      BY <1>3, <3>1 DEF AskExit, AskStandDown, GuardRebalance, StopsCancelled
  <2>2. caller[c].pc \in {"idle", "stops"}
    BY <1>3 DEF AskExit, AskStandDown, GuardRebalance, StopsCancelled
  <2> DEFINE r == [pc |-> pc, op |-> op, floor |-> floor, waits |-> 0]
  <2>3. caller' = [caller EXCEPT ![c] = r]
    BY <2>1 DEF CallerGoes
  <2>4. r.pc \notin {"await", "idle"} /\ r.op # "none"
    BY <2>1
  <2>5. \A d \in Callers : caller[d].pc = "idle" <=> caller[d].op = "none"
    BY DEF ShapeInv
  <2> HIDE DEF r
  <2>6. caller'[c] = r /\ \A d \in Callers \ {c} : caller'[d] = caller[d]
    BY <2>3 DEF RegistryInv, Registry
  <2>7. ASSUME NEW d \in Callers
        PROVE  /\ caller'[d].pc = "await" <=> caller[d].pc = "await"
               /\ caller'[d].pc = "idle" <=> caller'[d].op = "none"
    <3>1. CASE d = c
      BY <2>2, <2>4, <2>6, <3>1
    <3>2. CASE d # c
      BY <2>5, <2>6, <3>2
    <3> QED
      BY <3>1, <3>2
  <2> QED
    BY <2>7
<1>4. CASE StoodDown(c)
  <2>1. CallerGoes(c, "idle", "none", 0, 0) /\ ~HasTask
    BY <1>4 DEF StoodDown, MayProceed, HasTask, RegistryInv, Registry
  <2>2. \A d \in Callers : /\ caller'[d].pc = "await" => caller[d].pc = "await"
                           /\ caller'[d].pc = "idle" <=> caller'[d].op = "none"
    BY <2>1 DEF CallerGoes, ShapeInv, RegistryInv, Registry
  <2>3. ~Current.dying
    BY <2>1, NoTaskUnborn, UnbornShape
  <2> QED
    BY <1>1, <1>2, <2>2, <2>3, ShapeStays
<1>5. CASE ~StoodDown(c)
  <2>1. Current.dying => \E d \in Callers : caller[d].pc = "await"
    BY DEF ShapeInv
  <2> QED
    BY <1>1, <1>2, <1>3, <1>5, <2>1, ShapeStays
<1> QED
  BY <1>4, <1>5

LEMMA ArmStopsEffect ==
    ASSUME RegistryInv, ShapeInv, ArmStops
    PROVE  ShapeInv' /\ Current' = Current /\ (HasTask' <=> HasTask)
<1>1. UNCHANGED <<tasks, latest, taker, exec, caller>>
  BY DEF ArmStops, process, book
<1> QED
  BY <1>1, ShapeStays, ExecNat DEF ShapeInv

LEMMA VenueEffect ==
    ASSUME RegistryInv, ShapeInv, VenueStep
    PROVE  ShapeInv' /\ Current' = Current /\ (HasTask' <=> HasTask)
<1>1. UNCHANGED <<tasks, latest, taker, caller>>
  BY DEF VenueStep, VenueAnswers, VenueAccept, VenueReject, VenueFill, VenueReduces, process
<1>2. \A o \in Order : exec'[o] \in Nat /\ exec'[o] >= exec[o]
  <2>1. ASSUME NEW o \in Order, NEW k \in 1..Size, VenueFill(o, k)
        PROVE  \A p \in Order : exec'[p] \in Nat /\ exec'[p] >= exec[p]
    <3>1. k \in Nat /\ exec' = [exec EXCEPT ![o] = exec[o] + k]
      BY <2>1, ExitAssumption DEF VenueFill
    <3> QED
      BY <3>1 DEF RegistryInv, World
  <2>2. CASE UNCHANGED exec
    BY <2>2, ExecNat
  <2> QED
    BY <2>1, <2>2 DEF VenueStep, VenueAnswers, VenueAccept, VenueReject, VenueReduces, book
<1> QED
  BY <1>1, <1>2, ShapeStays DEF ShapeInv

LEMMA ShapeNext ==
    ASSUME RegistryInv, ShapeInv, OneReplacer, [ExitNext]_exitVars
    PROVE  ShapeInv'
<1>1. CASE VenueStep
  BY <1>1, VenueEffect
<1>2. CASE SaleStep
  BY <1>2, SaleSendsEffect, SaleRefusedEffect, SaleRepliesEffect, SaleAmbiguousEffect DEF SaleStep
<1>3. ASSUME NEW i \in TaskId, PassiveStep(i) PROVE ShapeInv'
  BY <1>3, ModeChangedEffect, EndPhaseEffect, RestNothingEffect, PlaceEffect, PlaceRepliesEffect,
     PollEffect, CancelOrderEffect, LastLookFailsEffect, SkipSaleEffect, BeginSaleEffect, SaleOverEffect,
     CheckSaleEffect, SaleAwaitedEffect
  DEF PassiveStep
<1>4. ASSUME NEW i \in TaskId, TakerStep(i) \/ TimesOut(i) PROVE ShapeInv'
  BY <1>4, FinishedEffect, SendLegsEffect, PerpLegEffect, SpotLegEffect, LegAmbiguousEffect,
     GatherEffect, TrancheEffect, TrancheOverEffect
  DEF TakerStep
<1>5. CASE \E i \in TaskId : TaskStep(i) \/ Deadline(i)
  BY <1>3, <1>4, <1>5, StartEffect, CompleteEffect, AccruedEffect DEF TaskStep, Deadline
<1>6. CASE \E c \in Callers : CallerStep(c)
  BY <1>6, AsksEffect, CancelTaskEffect, SpawnEffect DEF CallerStep, CallerGoesOn
<1>7. CASE ArmStops
  BY <1>7, ArmStopsEffect
<1>8. CASE UNCHANGED exitVars
  <2>1. UNCHANGED <<tasks, latest, taker, exec, caller>>
    BY <1>8 DEF exitVars, venue, book, process
  <2> QED
    BY <2>1, ShapeStays, ExecNat DEF ShapeInv
<1> QED
  BY <1>1, <1>2, <1>5, <1>6, <1>7, <1>8 DEF ExitNext

\* The frame of every task has the shape of the await it is at.
THEOREM ShapeInvariance == ExitSpec /\ []OneReplacer => []ShapeInv
<1>1. ExitInit => ShapeInv
  BY ShapeInit
<1>2. RegistryInv /\ ShapeInv /\ OneReplacer /\ [ExitNext]_exitVars => ShapeInv'
  BY ShapeNext
<1> QED
  BY <1>1, <1>2, RegistryInvariance, PTL DEF ExitSpec

================================================================================
