------------------------------ MODULE EntryProofs ------------------------------
(***************************************************************************)
(* Proofs about entry runs, crashes and restarts (EntryRun,                *)
(* EntryRecovery), for every size of run, lot, number of orders, runs and  *)
(* crashes, and every combination of faults but those a theorem names: the *)
(* types, and that no fill is ever booked twice; that spot never leads     *)
(* perp; that the orders, the rows and the legs are in order when a run is *)
(* over; that a restart finds the orders and reports naked legs; that the  *)
(* runs sell no more than they were asked to; and that all of it together  *)
(* is the life of two legs that TwoLegs describes.                         *)
(***************************************************************************)
EXTENDS EntryRecovery, TLAPS

\* An order that was never sent has executed and booked nothing, and the run
\* has one it waits for.
OrdersInTurn ==
    /\ placed <= MaxOrders
    /\ \A o \in Order :
          o > placed => ost[o] = "none" /\ exec[o] = 0 /\ booked[o] = 0
    /\ t.pc = "placing" => placed >= 1 /\ booked[placed] = 0

\* While it works an order the run has booked exactly what it has seen.
SeenIsBooked == t.oid # 0 => t.oid <= placed /\ t.seen = booked[t.oid]

\* What a lookup of reconcile found, the order has executed.
FoundIsExecuted == found.oid # 0 => found.exec <= exec[found.oid]

\* The places of the run that have an order at hand.
HandTaken == t.pc \in {"cancel", "cancelled"} => t.oid # 0

\* What every step of a run keeps, crashes or no crashes.
RunInv ==
    /\ EntryTypeOK
    /\ NoDoubleBooking
    /\ OrdersInTurn
    /\ SeenIsBooked
    /\ HandTaken

\* The step of reconcile that has an order at hand; no run lives through it.
AtHand ==
    /\ phase = "resolve" => found.oid # 0
    /\ phase # "up" => t = Idle

BookingInv ==
    /\ RunInv
    /\ RecoveryTypeOK
    /\ FoundIsExecuted
    /\ AtHand

LEMMA IdleType == Idle \in Task /\ Idle.pc = "idle" /\ Idle.oid = 0
  BY DEF Idle, Task, Places

\* The initial states satisfy the inductive invariants.
LEMMA RunInvInit == EntryInit => RunInv
<1> SUFFICES ASSUME EntryInit PROVE RunInv
  OBVIOUS
<1> USE EntryAssumption, IdleType
<1>1. EntryTypeOK
  <2>1. ost \in [Order -> OrderStates] /\ intent \in [Order -> IntentStates]
    BY DEF EntryInit, OrderStates, IntentStates
  <2>2. oqty \in [Order -> Nat] /\ exec \in [Order -> Nat] /\ booked \in [Order -> Int]
    BY DEF EntryInit
  <2>3. placed \in Nat /\ runs \in Nat /\ room \in Int /\ report \in Reports
    BY DEF EntryInit, Reports
  <2>4. stop \in BOOLEAN /\ warned \in BOOLEAN
    BY DEF EntryInit
  <2>5. vPerp \in Int /\ vSpot \in Nat /\ dbPerp \in Int /\ dbSpot \in Nat
    BY DEF EntryInit
  <2>6. state \in PositionStates
    BY DEF EntryInit, PositionStates
  <2>7. t \in Task
    BY DEF EntryInit
  <2> QED
    BY <2>1, <2>2, <2>3, <2>4, <2>5, <2>6, <2>7 DEF EntryTypeOK
<1>2. NoDoubleBooking /\ OrdersInTurn /\ SeenIsBooked /\ HandTaken
  BY DEF EntryInit, NoDoubleBooking, OrdersInTurn, SeenIsBooked, HandTaken, Order
<1> QED
  BY <1>1, <1>2 DEF RunInv

LEMMA BookingInvInit == RecoveryInit => BookingInv
<1> SUFFICES ASSUME RecoveryInit PROVE BookingInv
  OBVIOUS
<1> USE RecoveryAssumption
<1>1. RunInv
  BY RunInvInit DEF RecoveryInit
<1>2. RecoveryTypeOK
  <2>1. phase \in Phases
    BY DEF RecoveryInit, Phases
  <2>2. snap \in Snap
    BY DEF RecoveryInit, Snap, NoSnap
  <2>3. found \in Found
    BY DEF RecoveryInit, Found, NoOrder
  <2>4. listed \subseteq Order /\ unresolved \subseteq Order
    BY DEF RecoveryInit
  <2>5. mismatch \in BOOLEAN
    BY DEF RecoveryInit
  <2>6. crashes \in Nat
    BY DEF RecoveryInit
  <2> QED
   BY <1>1, <2>1, <2>2, <2>3, <2>4, <2>5, <2>6 DEF RecoveryTypeOK, RunInv
<1>3. FoundIsExecuted /\ AtHand
  BY DEF RecoveryInit, FoundIsExecuted, AtHand, NoOrder
<1> QED
  BY <1>1, <1>2, <1>3 DEF BookingInv

-------------------------------------------------------------------------------
\* Frames the run goes on with after a step of its hedge: well typed, with the
\* same order at hand and seen as far.
Goes(u) ==
    /\ u \in Task
    /\ u.oid = t.oid
    /\ u.seen = t.seen
    /\ u.pc \in Places \ {"placing", "cancel", "cancelled"}

LEMMA Zero == 0 \in Int /\ 0 \in Nat
  OBVIOUS

\* Where the run goes after a hedge.
LEMMA AfterHedgePlace == AfterHedge \in Places \ {"placing", "cancel", "cancelled"}
  BY DEF AfterHedge, Places

LEMMA RoundToLotType == ASSUME NEW q \in Int PROVE RoundToLot(q) \in Int
<1>1. q \div SpotStep \in Int
  BY EntryAssumption
<1>2. SpotStep \in Int
  BY EntryAssumption
<1>3. \A x, y \in Int : x * y \in Int
  OBVIOUS
<1> QED
  BY <1>1, <1>2, <1>3 DEF RoundToLot

LEMMA HedgingGoes == ASSUME t \in Task, NEW q \in Int PROVE Goes(Hedging(q))
<1>1. CASE RoundToLot(q) > 0
  <2> DEFINE u == [t EXCEPT !.pc = "buy", !.need = RoundToLot(q), !.tries = 0,
                            !.naked = 0, !.unhedged = q]
  <2>1. u \in Task
    BY Zero, RoundToLotType DEF Task, Places
  <2>2. u.oid = t.oid /\ u.seen = t.seen /\ u.pc = "buy"
    BY DEF Task
  <2> QED
    BY <1>1, <2>1, <2>2 DEF Hedging, Goes, Places
<1>2. CASE ~(RoundToLot(q) > 0)
  <2> DEFINE u == [t EXCEPT !.pc = AfterHedge, !.unhedged = 0, !.naked = 0]
  <2>1. u \in Task
    BY Zero, AfterHedgePlace DEF Task
  <2>2. u.oid = t.oid /\ u.seen = t.seen /\ u.pc = AfterHedge
    BY DEF Task
  <2> QED
    BY <1>2, <2>1, <2>2, AfterHedgePlace DEF Hedging, Goes
<1> QED
  BY <1>1, <1>2

LEMMA AfterAttemptGoes == ASSUME t \in Task, NEW q \in Int PROVE Goes(AfterAttempt(q))
<1>1. CASE q = 0
  <2> DEFINE u == [t EXCEPT !.pc = AfterHedge, !.unhedged = 0, !.need = 0, !.fill = 0]
  <2>1. u \in Task
    BY Zero, AfterHedgePlace DEF Task
  <2>2. u.oid = t.oid /\ u.seen = t.seen /\ u.pc = AfterHedge
    BY DEF Task
  <2> QED
    BY <1>1, <2>1, <2>2, AfterHedgePlace DEF AfterAttempt, Goes
<1>2. CASE q # 0 /\ t.tries + 1 < Attempts
  <2> DEFINE u == [t EXCEPT !.pc = "buy", !.need = q, !.tries = @ + 1, !.fill = 0]
  <2>0. t.tries + 1 \in Nat /\ "buy" \in Places
    BY DEF Task, Places
  <2>1. u \in Task
    BY <2>0, Zero DEF Task
  <2>2. u.oid = t.oid /\ u.seen = t.seen /\ u.pc = "buy"
    BY DEF Task
  <2> QED
    BY <1>2, <2>1, <2>2 DEF AfterAttempt, Goes, Places
<1>3. CASE q # 0 /\ ~(t.tries + 1 < Attempts)
  <2> DEFINE u == [t EXCEPT !.pc = "unwind", !.naked = q, !.unhedged = 0, !.need = 0,
                            !.fill = 0]
  <2>1. u \in Task
    BY Zero DEF Task, Places
  <2>2. u.oid = t.oid /\ u.seen = t.seen /\ u.pc = "unwind"
    BY DEF Task
  <2> QED
    BY <1>3, <2>1, <2>2 DEF AfterAttempt, Goes, Places
<1> QED
  BY <1>1, <1>2, <1>3

LEMMA UnwoundGoes == ASSUME t \in Task PROVE Goes(Unwound)
<1>1. CASE t.unhedged > 0
  <2>1. t.unhedged \in Int
    BY DEF Task
  <2> QED
    BY <1>1, <2>1, HedgingGoes DEF Unwound
<1>2. CASE ~(t.unhedged > 0)
  <2> DEFINE u == [t EXCEPT !.pc = AfterHedge, !.naked = 0, !.fill = 0]
  <2>1. u \in Task
    BY Zero, AfterHedgePlace DEF Task
  <2>2. u.oid = t.oid /\ u.seen = t.seen /\ u.pc = AfterHedge
    BY DEF Task
  <2> QED
    BY <1>2, <2>1, <2>2, AfterHedgePlace DEF Unwound, Goes
<1> QED
  BY <1>1, <1>2

\* Absorbing keeps the frame well typed and moves what is seen up to what the
\* order has executed.
LEMMA AbsorbedType ==
  ASSUME t \in Task, t.oid # 0, exec \in [Order -> Nat]
  PROVE  /\ Absorbed \in Task
         /\ Absorbed.oid = t.oid
         /\ Absorbed.seen = exec[t.oid]
         /\ NewlySeen \in Int
<1>1. t.oid \in Order /\ exec[t.oid] \in Nat /\ t.seen \in Nat
  BY DEF Task
<1>2. NewlySeen \in Int
  BY <1>1 DEF NewlySeen
<1>3. t.remaining - NewlySeen \in Int /\ t.unhedged + NewlySeen \in Int
  BY <1>2 DEF Task
<1>4. Absorbed \in Task
  BY <1>1, <1>3 DEF Absorbed, Task
<1>5. Absorbed.oid = t.oid /\ Absorbed.seen = exec[t.oid]
  BY DEF Absorbed, Task
<1> QED
  BY <1>2, <1>4, <1>5

-------------------------------------------------------------------------------
\* A step of the hedge or the buy-back: the orders and what is booked under
\* them stay, and so does the order at hand.
LEMMA QuietStep ==
  ASSUME RunInv, Goes(t'),
         UNCHANGED <<ost, oqty, exec, placed, booked, intent, state, runs, room, report>>,
         vPerp' \in Int, vSpot' \in Nat, dbPerp' \in Int, dbSpot' \in Nat,
         stop' \in BOOLEAN, warned' \in BOOLEAN
  PROVE  RunInv'
<1>1. EntryTypeOK'
  BY DEF RunInv, EntryTypeOK, Goes
<1>3. NoDoubleBooking'
  BY DEF RunInv, NoDoubleBooking
<1>4. OrdersInTurn'
  BY DEF RunInv, OrdersInTurn, Goes
<1>5. SeenIsBooked'
  BY DEF RunInv, SeenIsBooked, Goes
<1>6. HandTaken'
  BY DEF RunInv, HandTaken, Goes
<1> QED
  BY <1>1, <1>3, <1>4, <1>5, <1>6 DEF RunInv

\* Every step of the hedge is one.
LEMMA HedgeKeepsBooking ==
  ASSUME RunInv,
         HedgeStep \/ UnwindTimesOut \/ SpotAmbiguous \/ BuyBackAmbiguous
  PROVE  RunInv'
<1>0. /\ t \in Task /\ vPerp \in Int /\ vSpot \in Nat /\ dbPerp \in Int /\ dbSpot \in Nat
      /\ stop \in BOOLEAN /\ warned \in BOOLEAN
  BY DEF RunInv, EntryTypeOK
<1>1. /\ t.unhedged \in Int /\ t.need \in Int /\ t.naked \in Int /\ t.fill \in Nat
  BY <1>0 DEF Task
<1>2. CASE NothingToHedge
  <2>1. Goes(t')
    <3>1. t' \in Task
      BY <1>0, <1>2, AfterHedgePlace DEF NothingToHedge, Task
    <3>2. t'.oid = t.oid /\ t'.seen = t.seen /\ t'.pc = AfterHedge
      BY <1>0, <1>2 DEF NothingToHedge, Task
    <3> QED
      BY <3>1, <3>2, AfterHedgePlace DEF Goes
  <2> QED
    BY <1>0, <1>2, <2>1, QuietStep DEF NothingToHedge, venue, db
<1>3. CASE HedgeAll
  <2>1. Goes(t')
    BY <1>0, <1>1, <1>3, HedgingGoes DEF HedgeAll
  <2> QED
    BY <1>0, <1>3, <2>1, QuietStep DEF HedgeAll, venue, db
<1>4. ASSUME NEW salvage \in 0..Target, HedgePart(salvage) PROVE RunInv'
  <2>1. salvage \in Int
    BY EntryAssumption
  <2>2. CASE salvage = t.unhedged
    <3>1. Goes(t')
      BY <1>0, <1>4, <2>1, <2>2, HedgingGoes DEF HedgePart
    <3> QED
      BY <1>0, <1>4, <3>1, QuietStep DEF HedgePart, venue, db
  <2>3. CASE salvage # t.unhedged
    <3> DEFINE ab == IF salvage = 0 THEN TRUE ELSE t.aborted
    <3>1. t' = [t EXCEPT !.pc = "unwind", !.naked = t.unhedged - salvage,
                         !.unhedged = salvage, !.aborted = ab]
      BY <1>4, <2>3 DEF HedgePart
    <3>2. /\ ab \in BOOLEAN
          /\ t.unhedged - salvage \in Int
          /\ "unwind" \in Places
      <4>1. t.aborted \in BOOLEAN
        BY <1>0 DEF Task
      <4>2. ab \in BOOLEAN
        BY <4>1, Zenon
      <4>3. t.unhedged - salvage \in Int
        BY <1>1, <2>1
      <4>4. "unwind" \in Places
        BY DEF Places
      <4> QED
        BY <4>2, <4>3, <4>4
    <3> HIDE DEF ab
    <3>3. t' \in Task
      BY <1>0, <2>1, <3>1, <3>2 DEF Task
    <3>4. t'.oid = t.oid /\ t'.seen = t.seen /\ t'.pc = "unwind"
      BY <1>0, <3>1 DEF Task
    <3>5. Goes(t')
      BY <3>3, <3>4 DEF Goes, Places
    <3> QED
      BY <1>0, <1>4, <3>5, QuietStep DEF HedgePart, venue, db
  <2> QED
    BY <2>2, <2>3
<1>5. ASSUME NEW k \in 0..Target, BuySpot(k) PROVE RunInv'
  <2>1. k \in Nat /\ vSpot + k \in Nat /\ "bought" \in Places
    BY <1>0, EntryAssumption DEF Places
  <2>2. t' \in Task
    BY <1>0, <1>5, <2>1 DEF BuySpot, Task
  <2>3. t'.oid = t.oid /\ t'.seen = t.seen /\ t'.pc = "bought"
    BY <1>0, <1>5 DEF BuySpot, Task
  <2>4. Goes(t')
    BY <2>2, <2>3 DEF Goes, Places
  <2> QED
    BY <1>0, <1>5, <2>1, <2>4, QuietStep DEF BuySpot, db
<1>6. CASE SpotBought
  <2>1. t.need - t.fill \in Int /\ dbSpot + t.fill \in Nat
    BY <1>0, <1>1
  <2>2. Goes(t')
    BY <1>0, <1>6, <2>1, AfterAttemptGoes DEF SpotBought
  <2> QED
    BY <1>0, <1>6, <2>1, <2>2, QuietStep DEF SpotBought, venue
<1>7. CASE SpotRejected
  <2>1. Goes(t')
    BY <1>0, <1>1, <1>7, AfterAttemptGoes DEF SpotRejected
  <2> QED
    BY <1>0, <1>7, <2>1, QuietStep DEF SpotRejected, venue, db
<1>8. ASSUME NEW k \in 0..Target, BuyBack(k) PROVE RunInv'
  <2>1. k \in Nat /\ vPerp - k \in Int /\ "unwound" \in Places
    BY <1>0, EntryAssumption DEF Places
  <2>2. t' \in Task
    BY <1>0, <1>8, <2>1 DEF BuyBack, Task
  <2>3. t'.oid = t.oid /\ t'.seen = t.seen /\ t'.pc = "unwound"
    BY <1>0, <1>8 DEF BuyBack, Task
  <2>4. Goes(t')
    BY <2>2, <2>3 DEF Goes, Places
  <2> QED
    BY <1>0, <1>8, <2>1, <2>4, QuietStep DEF BuyBack, db
<1>9. CASE BoughtBack
  <2>1. dbPerp - t.fill \in Int /\ t.naked - t.fill \in Int /\ "unwind" \in Places
    BY <1>0, <1>1 DEF Places
  <2>2. CASE t.fill = t.naked
    <3>1. Goes(Unwound)
      BY <1>0, UnwoundGoes
    <3>2. t' = [Unwound EXCEPT !.fill = 0]
      BY <1>9, <2>2 DEF BoughtBack
    <3>3. Unwound \in Task
      BY <3>1 DEF Goes
    <3>4. ASSUME NEW u \in Task
          PROVE  LET v == [u EXCEPT !.fill = 0]
                 IN  v \in Task /\ v.oid = u.oid /\ v.seen = u.seen /\ v.pc = u.pc
      BY Zero DEF Task
    <3>5. t' \in Task /\ t'.oid = Unwound.oid /\ t'.seen = Unwound.seen /\ t'.pc = Unwound.pc
      BY <3>2, <3>3, <3>4
    <3>6. Goes(t')
      BY <3>1, <3>5 DEF Goes
    <3> QED
      BY <1>0, <1>9, <2>1, <3>6, QuietStep DEF BoughtBack, venue
  <2>3. CASE t.fill # t.naked
    <3>1. t' = [t EXCEPT !.pc = "unwind", !.naked = @ - t.fill, !.fill = 0]
      BY <1>9, <2>3 DEF BoughtBack
    <3>2. t' \in Task
      BY <1>0, <2>1, <3>1, Zero DEF Task
    <3>3. t'.oid = t.oid /\ t'.seen = t.seen /\ t'.pc = "unwind"
      BY <1>0, <3>1 DEF Task
    <3>4. Goes(t')
      BY <3>2, <3>3 DEF Goes, Places
    <3> QED
      BY <1>0, <1>9, <2>1, <3>4, QuietStep DEF BoughtBack, venue
  <2> QED
    BY <2>2, <2>3
<1>10. CASE UnwindTimesOut
  <2>1. Goes(t')
    BY <1>0, <1>10, UnwoundGoes DEF UnwindTimesOut
  <2> QED
    BY <1>0, <1>10, <2>1, QuietStep DEF UnwindTimesOut, venue, db
<1>11. CASE SpotAmbiguous
  <2>1. t' \in Task
    BY <1>0, <1>11, Zero, AfterHedgePlace DEF SpotAmbiguous, Task
  <2>2. t'.oid = t.oid /\ t'.seen = t.seen /\ t'.pc = AfterHedge
    BY <1>0, <1>11 DEF SpotAmbiguous, Task
  <2>3. Goes(t')
    BY <2>1, <2>2, AfterHedgePlace DEF Goes
  <2> QED
    BY <1>0, <1>11, <2>3, QuietStep DEF SpotAmbiguous, venue, db
<1>12. CASE BuyBackAmbiguous
  <2>1. "unwind" \in Places
    BY DEF Places
  <2>2. t' \in Task
    BY <1>0, <1>12, <2>1, Zero DEF BuyBackAmbiguous, Task
  <2>3. t'.oid = t.oid /\ t'.seen = t.seen /\ t'.pc = "unwind"
    BY <1>0, <1>12 DEF BuyBackAmbiguous, Task
  <2>4. Goes(t')
    BY <2>2, <2>3 DEF Goes, Places
  <2> QED
    BY <1>0, <1>12, <2>4, QuietStep DEF BuyBackAmbiguous, venue, db
<1> QED
  BY <1>2, <1>3, <1>4, <1>5, <1>6, <1>7, <1>8, <1>9, <1>10, <1>11, <1>12 DEF HedgeStep

-------------------------------------------------------------------------------
\* The venue: it executes what it executes, and nothing else changes.
LEMMA VenueKeepsBooking ==
  ASSUME RunInv, VenueStep
  PROVE  RunInv'
<1>0. /\ ost \in [Order -> OrderStates] /\ exec \in [Order -> Nat] /\ vPerp \in Int
      /\ booked \in [Order -> Int] /\ room \in Int
  BY DEF RunInv, EntryTypeOK
<1>1. PICK o \in Order : \/ VenueAccept(o) \/ VenueReject(o)
                         \/ \E k \in 1..Target : VenueFill(o, k)
  BY DEF VenueStep
<1>2. /\ UNCHANGED <<oqty, placed, vSpot, db, t, stop, runs, warned, report>>
      /\ ost' \in [Order -> OrderStates]
      /\ vPerp' \in Int /\ room' \in Int
      /\ exec' \in [Order -> Nat]
      /\ \A p \in Order : exec'[p] >= exec[p]
      /\ \A p \in Order : ost[p] = "none" => exec'[p] = exec[p]
  <2>1. CASE VenueAccept(o)
    BY <1>0, <2>1 DEF VenueAccept, OrderStates
  <2>2. CASE VenueReject(o)
    BY <1>0, <2>2 DEF VenueReject, OrderStates
  <2>3. CASE \E k \in 1..Target : VenueFill(o, k)
    <3>1. PICK k \in 1..Target : VenueFill(o, k)
      BY <2>3
    <3>2. k \in Nat /\ exec[o] + k \in Nat /\ vPerp + k \in Int /\ room - k \in Int
      BY <1>0, EntryAssumption
    <3>3. /\ ost' = [ost EXCEPT ![o] = IF exec[o] + k = oqty[o] THEN "filled" ELSE @]
          /\ exec' = [exec EXCEPT ![o] = @ + k]
          /\ vPerp' = vPerp + k /\ room' = room - k
          /\ ost[o] = "open"
          /\ UNCHANGED <<oqty, placed, vSpot, db, t, stop, runs, warned, report>>
      BY <3>1 DEF VenueFill
    <3>4. ost' \in [Order -> OrderStates]
      BY <1>0, <3>3 DEF OrderStates
    <3>5. exec' \in [Order -> Nat] /\ \A p \in Order : exec'[p] >= exec[p]
      BY <1>0, <3>2, <3>3
    <3>6. \A p \in Order : ost[p] = "none" => exec'[p] = exec[p]
      BY <1>0, <3>3
    <3> QED
      BY <3>2, <3>3, <3>4, <3>5, <3>6
  <2> QED
    BY <1>1, <2>1, <2>2, <2>3
<1>3. \A p \in Order : ost[p] = "none" => ost'[p] = "none"
  BY <1>0, <1>1 DEF VenueAccept, VenueReject, VenueFill
<1>4. EntryTypeOK'
  BY <1>2 DEF RunInv, EntryTypeOK, db
<1>6. NoDoubleBooking'
  BY <1>0, <1>2 DEF RunInv, NoDoubleBooking, db
<1>7. OrdersInTurn'
  BY <1>0, <1>2, <1>3 DEF RunInv, OrdersInTurn, db
<1>8. SeenIsBooked'
  BY <1>2 DEF RunInv, SeenIsBooked, db
<1>9. HandTaken'
  BY <1>2 DEF RunInv, HandTaken
<1> QED
  BY <1>4, <1>6, <1>7, <1>8, <1>9 DEF RunInv

-------------------------------------------------------------------------------
\* The start and the end of a run, and the death of its task: the orders stay,
\* and there is none at hand afterwards.
LEMMA FreshStep ==
  ASSUME RunInv, t' \in Task, t'.oid = 0,
         t'.pc \in Places \ {"placing", "cancel", "cancelled"},
         UNCHANGED <<venue, dbPerp, dbSpot, booked, intent>>,
         state' \in PositionStates, stop' \in BOOLEAN, runs' \in Nat,
         room' \in Int, warned' \in BOOLEAN, report' \in Reports
  PROVE  RunInv'
<1>1. EntryTypeOK'
  BY DEF RunInv, EntryTypeOK, venue
<1>3. NoDoubleBooking' /\ OrdersInTurn'
  BY DEF RunInv, NoDoubleBooking, OrdersInTurn, venue
<1>4. SeenIsBooked' /\ HandTaken'
  BY DEF RunInv, SeenIsBooked, HandTaken, venue
<1> QED
  BY <1>1, <1>3, <1>4 DEF RunInv

LEMMA RunEndsKeepBooking ==
  ASSUME RunInv,
         StartRun \/ StartWithoutQuotes \/ EndAdd \/ EndRun \/ TaskDies
  PROVE  RunInv'
<1>0. /\ t \in Task /\ dbPerp \in Int /\ stop \in BOOLEAN /\ warned \in BOOLEAN
      /\ runs \in Nat /\ room \in Int /\ report \in Reports /\ state \in PositionStates
  BY DEF RunInv, EntryTypeOK
<1>1. "open" \in Reports /\ "added" \in Reports /\ "nothing" \in Reports
      /\ "reverted" \in Reports /\ "incomplete" \in Reports /\ "cancelled" \in Reports
      /\ "none" \in Reports
  BY DEF Reports
<1>2. "OPEN" \in PositionStates /\ "CANCELLED" \in PositionStates
      /\ "ENTERING" \in PositionStates
  BY DEF PositionStates
<1>3. "idle" \in Places \ {"placing", "cancel", "cancelled"}
      /\ "top" \in Places \ {"placing", "cancel", "cancelled"}
  BY DEF Places
<1>4. CASE StartRun
  <2> DEFINE add == (state = "OPEN")
  <2>1. add \in BOOLEAN
    BY Zenon
  <2>2. t' = [Idle EXCEPT !.pc = "top", !.remaining = Target, !.isAdd = add,
                          !.prePerp = dbPerp]
    BY <1>4 DEF StartRun
  <2>3. Target \in Int /\ room' \in Int
    BY <1>0, <1>4, EntryAssumption DEF StartRun
  <2> HIDE DEF add
  <2>4. t' \in Task
    BY <1>0, <1>3, <2>1, <2>2, <2>3, IdleType DEF Task
  <2>5. t'.oid = 0 /\ t'.pc = "top"
    BY <2>2, IdleType DEF Task
  <2>6. /\ runs' \in Nat /\ state' \in PositionStates /\ stop' \in BOOLEAN
        /\ report' \in Reports /\ warned' \in BOOLEAN
    <3>1. stop' \in BOOLEAN
      BY <1>4 DEF StartRun
    <3>2. warned' \in BOOLEAN
      BY <1>0, <1>4 DEF StartRun
    <3>3. runs' \in Nat /\ state' \in PositionStates /\ report' \in Reports
      BY <1>0, <1>1, <1>2, <1>4 DEF StartRun
    <3> QED
      BY <3>1, <3>2, <3>3
  <2> QED
    BY <1>3, <1>4, <2>3, <2>4, <2>5, <2>6, FreshStep DEF StartRun
<1>5. CASE StartWithoutQuotes
  <2>1. t' = t /\ t.pc = "idle"
    BY <1>5 DEF StartWithoutQuotes
  <2>2. runs' \in Nat /\ state' \in PositionStates
    BY <1>0, <1>2, <1>5 DEF StartWithoutQuotes
  <2>3. EntryTypeOK'
    BY <1>5, <2>2 DEF StartWithoutQuotes, RunInv, EntryTypeOK, venue
  <2>5. NoDoubleBooking' /\ OrdersInTurn'
    BY <1>5 DEF StartWithoutQuotes, RunInv, NoDoubleBooking, OrdersInTurn, venue
  <2>6. SeenIsBooked' /\ HandTaken'
    BY <1>5 DEF StartWithoutQuotes, RunInv, SeenIsBooked, HandTaken, venue
  <2> QED
    BY <2>3, <2>5, <2>6 DEF RunInv
<1>6. CASE EndAdd \/ EndRun
  <2>1. /\ t' = Idle
        /\ UNCHANGED <<venue, dbPerp, dbSpot, booked, intent, stop, runs, room>>
        /\ state' \in PositionStates
        /\ report' \in Reports
        /\ warned' \in BOOLEAN
    <3>1. CASE EndAdd
      BY <1>0, <1>1, <1>2, <3>1 DEF EndAdd, EndWith
    <3>2. CASE EndRun
      BY <1>0, <1>1, <1>2, <3>2 DEF EndRun, EndWith
    <3> QED
      BY <1>6, <3>1, <3>2
  <2> QED
    BY <1>0, <1>3, <2>1, IdleType, FreshStep
<1>7. CASE TaskDies
  BY <1>0, <1>3, <1>7, IdleType, FreshStep DEF TaskDies, db
<1> QED
  BY <1>4, <1>5, <1>6, <1>7

-------------------------------------------------------------------------------
\* AskToStop and the steps of the loop that leave the orders alone.
LEMMA IdleLoopKeepsBooking ==
  ASSUME RunInv,
         AskToStop \/ LeaveLoop \/ RestNothing
  PROVE  RunInv'
<1>0. t \in Task /\ t.oid \in Order \cup {0}
  BY DEF RunInv, EntryTypeOK, Task
<1>1. t' \in Task /\ t'.oid = t.oid /\ t'.seen = t.seen
  <2>1. CASE AskToStop
    BY <1>0, <2>1 DEF AskToStop
  <2>2. CASE LeaveLoop
    <3> DEFINE p == IF t.oid # 0 THEN "cancel" ELSE "hedge"
    <3>1. p \in Places
      BY DEF Places
    <3>2. t' = [t EXCEPT !.pc = p, !.force = TRUE]
      BY <2>2 DEF LeaveLoop
    <3> HIDE DEF p
    <3> QED
      BY <1>0, <3>1, <3>2 DEF Task
  <2>3. CASE RestNothing
    <3>1. "hedge" \in Places
      BY DEF Places
    <3> QED
      BY <1>0, <2>3, <3>1 DEF RestNothing, Task
  <2> QED
    BY <2>1, <2>2, <2>3
<1>2. /\ t'.pc = "placing" => t.pc = "placing"
      /\ t'.pc \in {"cancel", "cancelled"} => t.oid # 0
  <2>1. CASE AskToStop
    BY <2>1 DEF AskToStop, RunInv, HandTaken
  <2>2. CASE LeaveLoop
    BY <1>0, <2>2 DEF LeaveLoop, Task
  <2>3. CASE RestNothing
    BY <1>0, <2>3 DEF RestNothing, Task
  <2> QED
    BY <2>1, <2>2, <2>3
<1>3. UNCHANGED <<venue, db, runs, room, warned, report>> /\ stop' \in BOOLEAN
  BY DEF AskToStop, LeaveLoop, RestNothing, RunInv, EntryTypeOK
<1>4. EntryTypeOK'
  BY <1>1, <1>3 DEF RunInv, EntryTypeOK, venue, db
<1>6. NoDoubleBooking' /\ OrdersInTurn'
  BY <1>2, <1>3 DEF RunInv, NoDoubleBooking, OrdersInTurn, venue, db
<1>7. SeenIsBooked'
  BY <1>1, <1>3 DEF RunInv, SeenIsBooked,
                    venue, db
<1>8. HandTaken'
  BY <1>1, <1>2 DEF RunInv, HandTaken
<1> QED
  BY <1>4, <1>6, <1>7, <1>8 DEF RunInv

\* A new order has executed and booked nothing.
LEMMA PlaceKeepsBooking ==
  ASSUME RunInv, NEW q \in 1..Target, Place(q)
  PROVE  RunInv'
<1>0. /\ t \in Task /\ placed \in Nat /\ t.oid = 0
      /\ oqty \in [Order -> Nat] /\ ost \in [Order -> OrderStates]
      /\ intent \in [Order -> IntentStates]
  BY DEF Place, RunInv, EntryTypeOK
<1>1. /\ placed' = placed + 1 /\ placed' \in Order /\ placed' \in Nat
      /\ placed' > placed /\ placed' <= MaxOrders
  BY <1>0, EntryAssumption DEF Place, Order
<1>2. "placing" \in Places /\ "sent" \in OrderStates /\ "pending" \in IntentStates
  BY DEF Places, OrderStates, IntentStates
<1>3. t' \in Task /\ t'.oid = 0 /\ t'.pc = "placing"
  BY <1>0, <1>2 DEF Place, Task
<1>4. /\ oqty' \in [Order -> Nat]
      /\ ost' \in [Order -> OrderStates]
      /\ intent' \in [Order -> IntentStates]
  BY <1>0, <1>1, <1>2, EntryAssumption DEF Place
<1>5. /\ UNCHANGED <<exec, vPerp, vSpot, state, dbPerp, dbSpot, booked, stop, runs, room,
                     warned, report>>
      /\ ost' = [ost EXCEPT ![placed'] = "sent"]
  BY DEF Place
<1>6. EntryTypeOK'
  BY <1>1, <1>3, <1>4, <1>5 DEF RunInv, EntryTypeOK
<1>8. NoDoubleBooking'
  BY <1>5 DEF RunInv, NoDoubleBooking
<1>9. OrdersInTurn'
  <2>1. \A o \in Order : o > placed => ost[o] = "none" /\ exec[o] = 0 /\ booked[o] = 0
    BY DEF RunInv, OrdersInTurn
  <2>2. \A o \in Order : o > placed' => o > placed /\ o # placed'
    BY <1>0, <1>1 DEF Order
  <2>3. \A o \in Order : o > placed' => ost'[o] = "none" /\ exec'[o] = 0 /\ booked'[o] = 0
    BY <1>0, <1>5, <2>1, <2>2
  <2>4. booked'[placed'] = 0 /\ placed' >= 1
    BY <1>0, <1>1, <1>5, <2>1
  <2> QED
    BY <1>1, <2>3, <2>4 DEF OrdersInTurn
<1>10. SeenIsBooked' /\ HandTaken'
  BY <1>3, <1>5 DEF RunInv, SeenIsBooked, HandTaken
<1> QED
  BY <1>6, <1>8, <1>9, <1>10 DEF RunInv

\* The reply makes it the order at hand, nothing seen of it, or none.
LEMMA ReplyKeepsBooking ==
  ASSUME RunInv, PlaceReply
  PROVE  RunInv'
<1>0. /\ t \in Task /\ placed \in Nat /\ t.oid \in Order \cup {0} /\ t.seen \in Nat
      /\ intent \in [Order -> IntentStates]
  BY DEF RunInv, EntryTypeOK, Task
<1>1. t.pc = "placing"
  BY DEF PlaceReply, PlaceConfirmed, PlaceRejected, PlaceAmbiguous
<1>2. placed \in Order /\ booked[placed] = 0
  BY <1>0, <1>1, EntryAssumption DEF RunInv, OrdersInTurn, Order
<1>3. PICK status \in IntentStates, oid \in {0, placed} : PlaceReplies(status, oid)
  <2>1. "done" \in IntentStates /\ "failed" \in IntentStates /\ "ambiguous" \in IntentStates
    BY DEF IntentStates
  <2> QED
    BY <2>1 DEF PlaceReply, PlaceConfirmed, PlaceRejected, PlaceAmbiguous
<1> DEFINE seen == IF oid # 0 THEN 0 ELSE t.seen
<1>4. t' = [t EXCEPT !.pc = "hedge", !.oid = oid, !.seen = seen]
  BY <1>3 DEF PlaceReplies
<1>5. oid \in Order \cup {0} /\ seen \in Nat /\ "hedge" \in Places
  BY <1>0, <1>2 DEF Places
<1>6. oid # 0 => oid = placed /\ seen = 0
  OBVIOUS
<1> HIDE DEF seen
<1>7. t' \in Task /\ t'.oid = oid /\ t'.seen = seen /\ t'.pc = "hedge"
  BY <1>0, <1>4, <1>5 DEF Task
<1>8. /\ intent' \in [Order -> IntentStates]
      /\ UNCHANGED <<venue, state, dbPerp, dbSpot, booked, stop, runs, room, warned, report>>
  BY <1>0, <1>2, <1>3 DEF PlaceReplies
<1>9. EntryTypeOK'
  BY <1>7, <1>8 DEF RunInv, EntryTypeOK, venue
<1>11. NoDoubleBooking' /\ OrdersInTurn'
  BY <1>7, <1>8 DEF RunInv, NoDoubleBooking, OrdersInTurn, venue
<1>12. SeenIsBooked'
  BY <1>0, <1>2, <1>6, <1>7, <1>8 DEF RunInv, SeenIsBooked, venue
<1>13. HandTaken'
  BY <1>7, <1>8 DEF RunInv, HandTaken, venue
<1> QED
  BY <1>9, <1>11, <1>12, <1>13 DEF RunInv

-------------------------------------------------------------------------------
\* Absorbing books exactly what the order executed beyond what was booked.
LEMMA AbsorbKeepsBooking ==
  ASSUME RunInv, t.oid # 0, BookFill,
         NEW oid \in {0, t.oid}, NEW p \in Places \ {"placing", "cancelled"},
         p = "cancel" => oid # 0,
         t' = [Absorbed EXCEPT !.pc = p, !.oid = oid],
         UNCHANGED <<venue, state, dbSpot, intent, stop, runs, room, warned, report>>
  PROVE  RunInv'
<1>0. /\ t \in Task /\ t.oid \in Order /\ exec \in [Order -> Nat]
      /\ booked \in [Order -> Int] /\ dbPerp \in Int /\ t.seen \in Nat
      /\ t.seen = booked[t.oid] /\ t.oid <= placed
  BY DEF RunInv, EntryTypeOK, Task, SeenIsBooked
<1>1. /\ Absorbed \in Task /\ Absorbed.seen = exec[t.oid] /\ NewlySeen \in Int
  BY <1>0, AbsorbedType
<1>2. t' \in Task /\ t'.oid = oid /\ t'.seen = exec[t.oid] /\ t'.pc = p
  <2>1. ASSUME NEW u \in Task
        PROVE  LET v == [u EXCEPT !.pc = p, !.oid = oid]
               IN  v \in Task /\ v.oid = oid /\ v.seen = u.seen /\ v.pc = p
    <3>1. oid \in Order \cup {0} /\ p \in Places
      BY <1>0
    <3> QED
      BY <3>1 DEF Task
  <2> QED
    BY <1>1, <2>1
<1>3. /\ booked' \in [Order -> Int]
      /\ booked'[t.oid] = exec[t.oid]
      /\ \A o \in Order : o # t.oid => booked'[o] = booked[o]
      /\ dbPerp' \in Int
  <2>1. exec[t.oid] \in Int /\ booked[t.oid] \in Int
    BY <1>0
  <2>2. booked[t.oid] + NewlySeen = exec[t.oid]
    BY <1>0, <2>1 DEF NewlySeen
  <2> QED
    BY <1>0, <1>1, <2>2 DEF BookFill
<1>4. EntryTypeOK'
  BY <1>2, <1>3 DEF RunInv, EntryTypeOK, venue
<1>6. NoDoubleBooking'
  BY <1>0, <1>3 DEF RunInv, NoDoubleBooking, venue
<1>7. OrdersInTurn'
  <2>1. \A o \in Order : o > placed => o # t.oid
    BY <1>0 DEF RunInv, EntryTypeOK, Order
  <2> QED
    BY <1>2, <1>3, <2>1 DEF RunInv, OrdersInTurn, venue
<1>8. SeenIsBooked'
  BY <1>0, <1>2, <1>3 DEF SeenIsBooked, venue
<1>9. HandTaken'
  BY <1>2 DEF RunInv, HandTaken, venue
<1> QED
  BY <1>4, <1>6, <1>7, <1>8, <1>9 DEF RunInv

\* Polls, and the two awaits of a cancellation.
LEMMA PollKeepsBooking ==
  ASSUME RunInv,
         (\E reprice \in BOOLEAN : Poll(reprice)) \/ CancelOrder \/ ReadCancelled
  PROVE  RunInv'
<1>0. /\ t \in Task /\ t.oid \in Order \cup {0} /\ ost \in [Order -> OrderStates]
  BY DEF RunInv, EntryTypeOK, Task
<1>a. \A u \in Task, p \in Places : [u EXCEPT !.pc = p] = [u EXCEPT !.pc = p, !.oid = u.oid]
  BY DEF Task
<1>1. ASSUME NEW reprice \in BOOLEAN, Poll(reprice) PROVE RunInv'
  <2>1. t.oid # 0 /\ Absorbed \in Task /\ Absorbed.oid = t.oid
    BY <1>0, <1>1, AbsorbedType DEF Poll, RunInv, EntryTypeOK
  <2>2. /\ BookFill
        /\ UNCHANGED <<venue, state, dbSpot, intent, stop, runs, room, warned, report>>
    BY <1>1 DEF Poll
  <2>3. "cancel" \in Places \ {"placing", "cancelled"} /\ "hedge" \in Places \ {"placing", "cancelled"}
    BY DEF Places
  <2>4. CASE ost[t.oid] = "open"
    <3> DEFINE p == IF reprice THEN "cancel" ELSE "hedge"
    <3>1. p \in Places \ {"placing", "cancelled"}
      BY <2>3
    <3>2. t' = [Absorbed EXCEPT !.pc = p]
      BY <1>1, <2>4 DEF Poll
    <3> HIDE DEF p
    <3>3. t' = [Absorbed EXCEPT !.pc = p, !.oid = t.oid]
      BY <1>a, <2>1, <3>1, <3>2
    <3> QED
      BY <2>1, <2>2, <3>1, <3>3, AbsorbKeepsBooking
  <2>5. CASE ost[t.oid] # "open"
    <3>1. t' = [Absorbed EXCEPT !.pc = "hedge", !.oid = 0]
      BY <1>1, <2>5 DEF Poll
    <3> QED
      BY <2>1, <2>2, <2>3, <3>1, AbsorbKeepsBooking
  <2> QED
    BY <2>4, <2>5
<1>2. CASE CancelOrder
  <2>1. "cancelled" \in Places /\ "cancelled" \in OrderStates
    BY DEF Places, OrderStates
  <2>2. t' \in Task /\ t'.oid = t.oid /\ t'.seen = t.seen /\ t'.pc = "cancelled"
    BY <1>0, <1>2, <2>1 DEF CancelOrder, Task
  <2>3. t.oid # 0
    BY <1>2 DEF CancelOrder, RunInv, HandTaken
  <2>4. ost' \in [Order -> OrderStates] /\ \A o \in Order : ost[o] = "none" => ost'[o] = "none"
    BY <1>0, <1>2, <2>1, <2>3 DEF CancelOrder
  <2>5. UNCHANGED <<oqty, exec, placed, vPerp, vSpot, db, stop, runs, room, warned, report>>
    BY <1>2 DEF CancelOrder
  <2>6. EntryTypeOK'
    BY <2>2, <2>4, <2>5 DEF RunInv, EntryTypeOK, db
  <2>8. NoDoubleBooking' /\ OrdersInTurn'
    BY <2>2, <2>4, <2>5 DEF RunInv, NoDoubleBooking, OrdersInTurn, db
  <2>9. SeenIsBooked' /\ HandTaken'
    BY <2>2, <2>3, <2>5 DEF RunInv, SeenIsBooked, HandTaken, db
  <2> QED
    BY <2>6, <2>8, <2>9 DEF RunInv
<1>3. CASE ReadCancelled
  <2>1. t.oid # 0
    BY <1>3 DEF ReadCancelled, RunInv, HandTaken
  <2>2. "hedge" \in Places \ {"placing", "cancelled"}
    BY DEF Places
  <2> QED
    BY <1>3, <2>1, <2>2, AbsorbKeepsBooking DEF ReadCancelled
<1> QED
  BY <1>1, <1>2, <1>3

-------------------------------------------------------------------------------
LEMMA EngineKeepsRun == RunInv /\ EngineStep => RunInv'
  BY HedgeKeepsBooking, RunEndsKeepBooking, IdleLoopKeepsBooking,
     PlaceKeepsBooking, ReplyKeepsBooking, PollKeepsBooking
  DEF EngineStep, TaskStep, LoopStep, FaultStep

LEMMA RunInvStep == RunInv /\ [EntryNext]_vars => RunInv'
<1>1. RunInv /\ UNCHANGED vars => RunInv'
  BY DEF vars, venue, db, RunInv, EntryTypeOK, NoDoubleBooking, OrdersInTurn,
         SeenIsBooked, HandTaken
<1> QED
  BY <1>1, EngineKeepsRun, VenueKeepsBooking DEF EntryNext

\* The inductive invariant of a run that nothing cuts short.
THEOREM RunInvariance == EntrySpec => []RunInv
  BY RunInvInit, RunInvStep, PTL DEF EntrySpec

\* What an order has executed never becomes less.
LEMMA ExecGrows ==
  ASSUME RunInv, VenueStep \/ EngineStep
  PROVE  \A o \in Order : exec'[o] >= exec[o]
<1>1. exec \in [Order -> Nat]
  BY DEF RunInv, EntryTypeOK
<1>2. CASE EngineStep
  <2>1. UNCHANGED exec
    BY <1>2 DEF EngineStep, StartRun, StartWithoutQuotes, AskToStop, TaskStep, LoopStep,
       LeaveLoop, RestNothing, Place, Poll, CancelOrder, ReadCancelled, PlaceReply,
       PlaceConfirmed, PlaceRejected, PlaceAmbiguous, PlaceReplies, HedgeStep,
       NothingToHedge, HedgeAll, HedgePart, BuySpot, SpotBought, SpotRejected, BuyBack,
       BoughtBack, UnwindTimesOut, EndAdd, EndRun, EndWith, FaultStep, TaskDies,
       SpotAmbiguous, BuyBackAmbiguous, venue
  <2> QED
    BY <1>1, <2>1
<1>3. ASSUME NEW o \in Order, VenueAccept(o) \/ VenueReject(o)
      PROVE  \A p \in Order : exec'[p] >= exec[p]
  BY <1>1, <1>3 DEF VenueAccept, VenueReject
<1>4. ASSUME NEW o \in Order, NEW k \in 1..Target, VenueFill(o, k)
      PROVE  \A p \in Order : exec'[p] >= exec[p]
  <2>1. k \in Nat /\ exec' = [exec EXCEPT ![o] = @ + k]
    BY <1>4, EntryAssumption DEF VenueFill
  <2> QED
    BY <1>1, <2>1
<1> QED
  BY <1>2, <1>3, <1>4 DEF VenueStep

\* A step of the run or of a venue keeps what reconcile relies on.
LEMMA RunStepKeepsBooking ==
  ASSUME BookingInv, UNCHANGED restartVars,
         VenueStep \/ (EngineStep /\ phase = "up")
  PROVE  BookingInv'
<1>1. RunInv'
  BY EngineKeepsRun, VenueKeepsBooking DEF BookingInv
<1>2. \A o \in Order : exec'[o] >= exec[o] /\ exec'[o] \in Nat /\ exec[o] \in Nat
  BY <1>1, ExecGrows DEF BookingInv, RunInv, EntryTypeOK
<1>3. phase = "up" \/ t' = t
  BY DEF VenueStep, VenueAccept, VenueReject, VenueFill
<1>4. RecoveryTypeOK'
  BY <1>1 DEF BookingInv, RecoveryTypeOK, RunInv, restartVars, recovering
<1>5. FoundIsExecuted'
  <2>1. found.oid # 0 => found.oid \in Order /\ found.exec \in Nat
    BY DEF BookingInv, RecoveryTypeOK, Found
  <2> QED
    BY <1>2, <2>1 DEF BookingInv, FoundIsExecuted, restartVars, recovering
<1>6. AtHand'
  BY <1>3 DEF BookingInv, AtHand, restartVars, recovering
<1> QED
  BY <1>1, <1>4, <1>5, <1>6 DEF BookingInv

-------------------------------------------------------------------------------
\* _book_late_fill brings what is booked under an order up to what the caller
\* saw it execute, and never beyond.
LEMMA LateFill ==
  ASSUME BookingInv, NEW o \in Order, NEW e \in Nat, e <= exec[o], BookLateFill(o, e)
  PROVE  /\ booked' \in [Order -> Int]
         /\ dbPerp' \in Int
         /\ warned' \in BOOLEAN
         /\ booked'[o] <= exec[o]
         /\ \A p \in Order : p # o => booked'[p] = booked[p]
         /\ e <= booked[o] => booked' = booked
<1>0. /\ booked \in [Order -> Int] /\ dbPerp \in Int /\ warned \in BOOLEAN
      /\ exec \in [Order -> Nat] /\ booked[o] <= exec[o]
  BY DEF BookingInv, RecoveryTypeOK, EntryTypeOK, RunInv, NoDoubleBooking
<1> DEFINE delta == e - booked[o]
<1>1. delta \in Int /\ booked[o] + delta = e
  BY <1>0
<1>2. CASE delta > 0
  <2>1. /\ booked' = [booked EXCEPT ![o] = @ + delta]
        /\ dbPerp' = dbPerp + delta
        /\ warned' = TRUE
    BY <1>2 DEF BookLateFill
  <2> HIDE DEF delta
  <2>2. booked' \in [Order -> Int] /\ booked'[o] = e /\ dbPerp' \in Int
    BY <1>0, <1>1, <2>1
  <2>3. \A p \in Order : p # o => booked'[p] = booked[p]
    BY <1>0, <2>1
  <2>4. warned' \in BOOLEAN
    BY <2>1
  <2>5. ~(e <= booked[o])
    BY <1>0, <1>2 DEF delta
  <2> QED
    BY <1>0, <2>2, <2>3, <2>4, <2>5
<1>3. CASE ~(delta > 0)
  BY <1>0, <1>3 DEF BookLateFill
<1> QED
  BY <1>2, <1>3

\* The steps of reconcile that leave the orders and what is booked alone.
LEMMA BookkeepingStep ==
  ASSUME BookingInv, phase # "up", phase' \in Phases,
         UNCHANGED <<ost, oqty, exec, placed, vPerp, vSpot, dbPerp, dbSpot, booked, t, stop,
                     runs, room, report>>,
         state' \in PositionStates, intent' \in [Order -> IntentStates],
         warned' \in BOOLEAN, mismatch' \in BOOLEAN,
         snap' \in Snap, listed' \subseteq Order, unresolved' \subseteq Order,
         found' \in Found, found'.oid # 0 => found'.exec <= exec[found'.oid],
         phase' = "resolve" => found'.oid # 0, crashes' \in Nat
  PROVE  BookingInv'
<1>1. EntryTypeOK'
  BY DEF BookingInv, RecoveryTypeOK, EntryTypeOK
<1>2. RecoveryTypeOK'
  BY <1>1 DEF RecoveryTypeOK
<1>3. NoDoubleBooking' /\ OrdersInTurn'
  BY DEF BookingInv, RunInv, NoDoubleBooking, OrdersInTurn
<1>4. SeenIsBooked' /\ HandTaken' /\ FoundIsExecuted'
  BY DEF BookingInv, RunInv, SeenIsBooked, HandTaken, FoundIsExecuted
<1>5. AtHand'
  BY DEF BookingInv, AtHand
<1> QED
  BY <1>1, <1>2, <1>3, <1>4, <1>5 DEF BookingInv, RunInv

\* The steps of reconcile that cancel an order and book what it executed.
LEMMA CancelAndBookStep ==
  ASSUME BookingInv, phase # "up", phase' \in {"sweep", "intents"}, NEW o \in Order,
         ost' \in [Order -> OrderStates],
         \A p \in Order : ost[p] = "none" => ost'[p] = "none",
         booked' \in [Order -> Int], dbPerp' \in Int, warned' \in BOOLEAN,
         booked'[o] <= exec[o],
         exec[o] = 0 /\ booked[o] = 0 => booked' = booked,
         \A p \in Order : p # o => booked'[p] = booked[p],
         intent' \in [Order -> IntentStates], found' \in {found, NoOrder},
         listed' \subseteq Order,
         UNCHANGED <<oqty, exec, placed, vPerp, vSpot, state, dbSpot, t, stop, runs, room,
                     report, snap, unresolved, mismatch, crashes>>
  PROVE  BookingInv'
<1>1. EntryTypeOK'
  BY DEF BookingInv, RecoveryTypeOK, EntryTypeOK
<1>2. NoOrder \in Found
  BY DEF NoOrder, Found
<1>3. RecoveryTypeOK'
  BY <1>1, <1>2 DEF BookingInv, RecoveryTypeOK, Phases
<1>4. NoDoubleBooking'
  BY DEF BookingInv, RunInv, NoDoubleBooking
<1>5. t = Idle /\ t.pc = "idle" /\ t.oid = 0
  BY IdleType DEF BookingInv, AtHand
<1>6. OrdersInTurn'
  <2>1. \A p \in Order : p > placed => booked'[p] = 0
    <3> SUFFICES ASSUME NEW p \in Order, p > placed PROVE booked'[p] = 0
      OBVIOUS
    <3>1. exec[p] = 0 /\ booked[p] = 0
      BY DEF BookingInv, RunInv, OrdersInTurn
    <3> QED
      BY <3>1
  <2> QED
    BY <1>5, <2>1 DEF BookingInv, RunInv, OrdersInTurn
<1>7. SeenIsBooked' /\ HandTaken'
  BY <1>5 DEF SeenIsBooked, HandTaken
<1>8. FoundIsExecuted'
  BY DEF BookingInv, FoundIsExecuted, NoOrder
<1>9. AtHand'
  BY <1>5 DEF BookingInv, AtHand
<1> QED
  BY <1>1, <1>3, <1>4, <1>6, <1>7, <1>8, <1>9 DEF BookingInv, RunInv

LEMMA ReconcileKeepsBooking ==
  ASSUME BookingInv, ReconcileStep PROVE BookingInv'
<1>0. /\ ost \in [Order -> OrderStates] /\ exec \in [Order -> Nat] /\ state \in PositionStates
      /\ dbPerp \in Int /\ dbSpot \in Nat /\ booked \in [Order -> Int]
      /\ intent \in [Order -> IntentStates] /\ warned \in BOOLEAN /\ mismatch \in BOOLEAN
      /\ snap \in Snap /\ found \in Found /\ listed \subseteq Order /\ unresolved \subseteq Order
      /\ crashes \in Nat
  BY DEF BookingInv, RecoveryTypeOK, EntryTypeOK
<1>1. found.oid # 0 => found.exec <= exec[found.oid]
  BY DEF BookingInv, FoundIsExecuted
<1>2. CASE BeginReconcile
  <2>1. [state |-> state, perp |-> dbPerp, spot |-> dbSpot] \in Snap
    BY <1>0 DEF Snap
  <2>2. snap' \in Snap /\ listed' \subseteq Order /\ unresolved' \subseteq Order
    BY <1>2, <2>1 DEF BeginReconcile
  <2>3. phase' = "sweep" /\ phase' \in Phases /\ phase # "up"
    BY <1>2 DEF BeginReconcile, Phases
  <2>4. UNCHANGED <<vars, found, mismatch, crashes>>
    BY <1>2 DEF BeginReconcile
  <2> QED
    BY <1>0, <1>1, <2>2, <2>3, <2>4, BookkeepingStep DEF vars, venue, db
<1>3. ASSUME NEW o \in Order, SweepOrder(o) PROVE BookingInv'
  <2>0. /\ phase = "sweep" /\ UNCHANGED phase /\ listed' \subseteq Order
        /\ UNCHANGED <<oqty, exec, placed, vPerp, vSpot, state, dbSpot, intent, t, stop,
                       runs, room, report, snap, unresolved, found, mismatch, crashes>>
    BY <1>0, <1>3 DEF SweepOrder
  <2>1. CASE /\ ost[o] = "open"
             /\ ost' = [ost EXCEPT ![o] = "cancelled"]
             /\ BookLateFill(o, exec[o])
    <3>1. ost' \in [Order -> OrderStates] /\ \A p \in Order : ost[p] = "none" => ost'[p] = "none"
      BY <1>0, <2>1 DEF OrderStates
    <3>2. exec[o] \in Nat /\ exec[o] <= exec[o]
      BY <1>0
    <3>3. /\ booked' \in [Order -> Int]
          /\ dbPerp' \in Int
          /\ warned' \in BOOLEAN
          /\ booked'[o] <= exec[o]
          /\ \A p \in Order : p # o => booked'[p] = booked[p]
          /\ exec[o] <= booked[o] => booked' = booked
      BY <2>1, <3>2, LateFill
    <3>4. exec[o] = 0 /\ booked[o] = 0 => booked' = booked
      BY <3>3
    <3> QED
      BY <1>0, <2>0, <3>1, <3>3, <3>4, CancelAndBookStep
  <2>2. CASE UNCHANGED <<ost, booked, dbPerp, warned>>
    <3>1. phase' \in Phases /\ phase # "up" /\ phase' # "resolve"
      BY <2>0 DEF Phases
    <3> QED
      BY <1>0, <1>1, <2>0, <2>2, <3>1, BookkeepingStep
  <2> QED
    BY <1>3, <2>1, <2>2 DEF SweepOrder
<1>4. CASE EndSweep \/ EndIntents
  <2>1. phase # "up" /\ phase' \in Phases /\ phase' # "resolve"
    BY <1>4 DEF EndSweep, EndIntents, Phases
  <2>2. UNCHANGED <<vars, snap, listed, unresolved, found, mismatch, crashes>>
    BY <1>4 DEF EndSweep, EndIntents
  <2> QED
    BY <1>0, <1>1, <2>1, <2>2, BookkeepingStep DEF vars, venue, db
<1>5. ASSUME NEW o \in Order, LookupIntent(o) PROVE BookingInv'
  <2>0. /\ phase = "intents" /\ unresolved' \subseteq Order
        /\ UNCHANGED <<venue, state, dbPerp, dbSpot, booked, t, stop, runs, room, warned,
                       report, snap, listed, mismatch, crashes>>
    BY <1>0, <1>5 DEF LookupIntent
  <2>1. CASE /\ found' = [oid |-> o, open |-> ost[o] = "open", exec |-> exec[o]]
             /\ phase' = "resolve"
             /\ UNCHANGED intent
    <3> DEFINE op == ost[o] = "open"
    <3>1. op \in BOOLEAN
      BY Zenon
    <3>2. found' = [oid |-> o, open |-> op, exec |-> exec[o]]
      BY <2>1
    <3> HIDE DEF op
    <3>3. found' \in Found /\ found'.oid = o /\ found'.exec = exec[o]
      BY <1>0, <3>1, <3>2 DEF Found
    <3>4. found'.oid # 0 /\ found'.exec <= exec[found'.oid]
      BY <1>0, <3>3 DEF Order
    <3>5. phase' \in Phases /\ phase # "up"
      BY <2>0, <2>1 DEF Phases
    <3> QED
      BY <1>0, <2>0, <2>1, <3>3, <3>4, <3>5, BookkeepingStep DEF venue
  <2>2. CASE /\ intent' = [intent EXCEPT ![o] = "failed"]
             /\ UNCHANGED <<found, phase>>
    <3>1. intent' \in [Order -> IntentStates]
      BY <1>0, <2>2 DEF IntentStates
    <3>2. phase' \in Phases /\ phase # "up" /\ phase' # "resolve"
      BY <2>0, <2>2 DEF Phases
    <3> QED
      BY <1>0, <1>1, <2>0, <2>2, <3>1, <3>2, BookkeepingStep DEF venue
  <2> QED
    BY <1>5, <2>1, <2>2 DEF LookupIntent
<1>6. CASE ResolveIntent
  <2>0. /\ phase = "resolve" /\ phase' = "intents" /\ found' = NoOrder
        /\ UNCHANGED <<oqty, exec, placed, vPerp, vSpot, state, dbSpot, t, stop, runs, room,
                       report, snap, listed, unresolved, mismatch, crashes>>
    BY <1>6 DEF ResolveIntent
  <2>1. found.oid \in Order /\ found.exec \in Nat /\ found.exec <= exec[found.oid]
    BY <1>0, <1>1, <2>0 DEF BookingInv, AtHand, Found
  <2>2. /\ ost' \in [Order -> OrderStates]
        /\ \A p \in Order : ost[p] = "none" => ost'[p] = "none"
        /\ intent' \in [Order -> IntentStates]
    <3>1. "cancelled" \in OrderStates /\ "reconciled" \in IntentStates
      BY DEF OrderStates, IntentStates
    <3>2. intent' \in [Order -> IntentStates]
      BY <1>0, <1>6, <2>1, <3>1 DEF ResolveIntent
    <3>3. ost' \in [Order -> OrderStates] /\ \A p \in Order : ost[p] = "none" => ost'[p] = "none"
      BY <1>0, <1>6, <2>1, <3>1 DEF ResolveIntent
    <3> QED
      BY <3>2, <3>3
  <2>3. /\ booked' \in [Order -> Int]
        /\ dbPerp' \in Int
        /\ warned' \in BOOLEAN
        /\ booked'[found.oid] <= exec[found.oid]
        /\ \A p \in Order : p # found.oid => booked'[p] = booked[p]
        /\ found.exec <= booked[found.oid] => booked' = booked
    <3>1. CASE found.exec > booked[found.oid]
      <4>1. BookLateFill(found.oid, found.exec)
        BY <1>6, <3>1 DEF ResolveIntent
      <4> QED
        BY <2>1, <4>1, LateFill
    <3>2. CASE ~(found.exec > booked[found.oid])
      <4>1. /\ UNCHANGED <<booked, dbPerp>>
            /\ warned' = IF found.exec > 0 THEN TRUE ELSE warned
        BY <1>6, <3>2 DEF ResolveIntent
      <4>2. warned' \in BOOLEAN
        BY <1>0, <4>1
      <4>3. booked[found.oid] <= exec[found.oid]
        BY <2>1 DEF BookingInv, RunInv, NoDoubleBooking
      <4> QED
        BY <1>0, <4>1, <4>2, <4>3
    <3> QED
      BY <3>1, <3>2
  <2>4. exec[found.oid] = 0 /\ booked[found.oid] = 0 => booked' = booked
    BY <2>1, <2>3
  <2>5. listed' \subseteq Order /\ phase # "up" /\ phase' \in {"sweep", "intents"}
    BY <1>0, <2>0
  <2> QED
    BY <2>0, <2>1, <2>2, <2>3, <2>4, <2>5, CancelAndBookStep
<1>7. CASE FixUp
  <2>1. phase # "up" /\ phase' = "compare" /\ phase' \in Phases
    BY <1>7 DEF FixUp, Phases
  <2>2. state' \in PositionStates
    BY <1>0, <1>7 DEF FixUp, PositionStates
  <2>3. warned' \in BOOLEAN
    BY <1>0, <1>7 DEF FixUp
  <2>4. UNCHANGED <<venue, dbPerp, dbSpot, booked, intent, t, stop, runs, room, report,
                    snap, listed, unresolved, found, mismatch, crashes>>
    BY <1>7 DEF FixUp
  <2> QED
    BY <1>0, <1>1, <2>1, <2>2, <2>3, <2>4, BookkeepingStep DEF venue
<1>8. CASE Compare
  <2>1. phase # "up" /\ phase' = "up" /\ phase' \in Phases
    BY <1>8 DEF Compare, Phases
  <2>2. mismatch' \in BOOLEAN
    <3> DEFINE m == ActivePerp # vPerp
    <3>1. m \in BOOLEAN
      BY Zenon
    <3>2. mismatch' = m \/ mismatch' = FALSE
      BY <1>8 DEF Compare
    <3> HIDE DEF m
    <3> QED
      BY <3>1, <3>2
  <2>3. warned' \in BOOLEAN
    <3>1. warned' = IF mismatch' THEN TRUE ELSE warned
      BY <1>8, Zenon DEF Compare
    <3> QED
      BY <1>0, <3>1, Zenon
  <2>4. UNCHANGED <<venue, db, t, stop, runs, room, report, snap, listed, unresolved, found, crashes>>
    BY <1>8, Zenon DEF Compare
  <2> QED
    BY <1>0, <1>1, <2>1, <2>2, <2>3, <2>4, BookkeepingStep DEF venue, db
<1> QED
  BY <1>2, <1>3, <1>4, <1>5, <1>6, <1>7, <1>8 DEF ReconcileStep

\* A crash loses the run and the memory of reconcile, and no row.
LEMMA CrashKeepsBooking == BookingInv /\ Crash => BookingInv'
<1> SUFFICES ASSUME BookingInv, Crash PROVE BookingInv'
  OBVIOUS
<1>1. /\ t' = Idle /\ phase' = "down" /\ found' = NoOrder /\ snap' = NoSnap
      /\ listed' = {} /\ unresolved' = {} /\ crashes' = crashes + 1
      /\ UNCHANGED <<venue, db, runs, room, warned, report, mismatch>>
  BY DEF Crash
<1>2. stop' \in BOOLEAN
  BY DEF Crash
<1>3. EntryTypeOK'
  BY <1>1, <1>2, IdleType DEF BookingInv, RecoveryTypeOK, EntryTypeOK, venue, db
<1>4. NoOrder \in Found /\ NoOrder.oid = 0 /\ NoSnap \in Snap /\ "down" \in Phases
  BY DEF NoOrder, Found, NoSnap, Snap, Phases
<1>5. RecoveryTypeOK'
  BY <1>1, <1>3, <1>4 DEF BookingInv, RecoveryTypeOK
<1>6. NoDoubleBooking' /\ OrdersInTurn'
  BY <1>1, IdleType DEF BookingInv, RunInv, NoDoubleBooking, OrdersInTurn, venue, db
<1>7. SeenIsBooked' /\ HandTaken' /\ FoundIsExecuted' /\ AtHand'
  BY <1>1, <1>4, IdleType DEF SeenIsBooked, HandTaken, FoundIsExecuted, AtHand
<1> QED
  BY <1>3, <1>5, <1>6, <1>7 DEF BookingInv, RunInv

LEMMA BookingInvStep == BookingInv /\ [RecoveryNext]_allVars => BookingInv'
<1> SUFFICES ASSUME BookingInv, [RecoveryNext]_allVars PROVE BookingInv'
  OBVIOUS
<1>1. CASE WhileUp(EngineStep)
  BY <1>1, RunStepKeepsBooking DEF WhileUp
<1>2. CASE VenueStep /\ UNCHANGED restartVars
  BY <1>2, RunStepKeepsBooking
<1>3. CASE ReconcileStep
  BY <1>3, ReconcileKeepsBooking
<1>4. CASE Crash
  BY <1>4, CrashKeepsBooking
<1>5. CASE UNCHANGED allVars
  BY <1>5 DEF allVars, vars, venue, db, recovering, BookingInv, RunInv, RecoveryTypeOK,
              EntryTypeOK,
              NoDoubleBooking, OrdersInTurn, SeenIsBooked, HandTaken, FoundIsExecuted,
              AtHand
<1> QED
  BY <1>1, <1>2, <1>3, <1>4, <1>5 DEF RecoveryNext

\* The inductive invariant holds in every behaviour with crashes and restarts.
THEOREM BookingInvariance == RecoverySpec => []BookingInv
  BY BookingInvInit, BookingInvStep, PTL DEF RecoverySpec

\* The rows and the frame of the run keep their types.
THEOREM RecoveryTypes == RecoverySpec => []RecoveryTypeOK
<1>1. BookingInv => RecoveryTypeOK
  BY DEF BookingInv
<1> QED
  BY <1>1, BookingInvariance, PTL

\* No fill is booked twice, whichever of the run's polls and cancellations and
\* of the two passes of a restart sees it, under every combination of faults.
THEOREM FillsAreBookedOnce == RecoverySpec => []NoDoubleBooking
<1>1. BookingInv => NoDoubleBooking
  BY DEF BookingInv, RunInv
<1> QED
  BY <1>1, BookingInvariance, PTL

-------------------------------------------------------------------------------
(***************************************************************************)
(* The spot leg never exceeds the perp leg (SpotNeverLeads), through       *)
(* crashes and restarts, for every size of run and lot and every fault but *)
(* one: a buy-back of unknown outcome ("unwind_ambiguous"), with which TLC *)
(* finds it violated.                                                      *)
(*                                                                         *)
(* SpotNeverLeads is not inductive: a spot buy is safe because of what the *)
(* run still owes the spot leg, which depends on where the run is, and     *)
(* because of the fills it has not seen.  HedgeInv counts both.            *)
(***************************************************************************)

\* The contracts a frame has yet to hedge or buy back.
Owed(u) ==
    IF u.pc = "idle" THEN 0
    ELSE IF u.pc = "buy" THEN u.need
    ELSE IF u.pc = "bought" THEN u.need - u.fill
    ELSE IF u.pc = "unwind" THEN u.naked + u.unhedged
    ELSE IF u.pc = "unwound" THEN (u.naked - u.fill) + u.unhedged
    ELSE u.unhedged

\* No quantity of the frame is negative, and no reply exceeds its request.
Sound(u) ==
    /\ u.unhedged >= 0
    /\ u.need >= 0
    /\ u.naked >= 0
    /\ u.pc = "bought" => u.fill <= u.need
    /\ u.pc = "unwound" => u.fill <= u.naked

\* What the order at hand has executed and the run has not looked at.
Unseen ==
    IF t.pc = "placing" THEN exec[placed]
    ELSE IF t.oid = 0 THEN 0 ELSE exec[t.oid] - t.seen

HedgeInv ==
    /\ Sound(t)
    /\ vSpot + Owed(t) + Unseen <= vPerp

-------------------------------------------------------------------------------
LEMMA OwedType == ASSUME NEW u \in Task PROVE Owed(u) \in Int
<1>1. u.need \in Int /\ u.naked \in Int /\ u.unhedged \in Int /\ u.fill \in Int
  BY DEF Task
<1>2. /\ u.need - u.fill \in Int
      /\ u.naked + u.unhedged \in Int
      /\ (u.naked - u.fill) + u.unhedged \in Int
  BY <1>1
<1> QED
  BY <1>1, <1>2 DEF Owed

LEMMA OwedPositive == ASSUME NEW u \in Task, Sound(u) PROVE Owed(u) >= 0
<1>1. u.need \in Int /\ u.naked \in Int /\ u.unhedged \in Int /\ u.fill \in Int
  BY DEF Task
<1>2. CASE u.pc = "bought"
  BY <1>1, <1>2 DEF Owed, Sound
<1>3. CASE u.pc = "unwound"
  BY <1>1, <1>3 DEF Owed, Sound
<1>4. CASE u.pc # "bought" /\ u.pc # "unwound"
  BY <1>1, <1>4 DEF Owed, Sound
<1> QED
  BY <1>2, <1>3, <1>4

LEMMA IdleOwes == Sound(Idle) /\ Owed(Idle) = 0
  BY DEF Idle, Sound, Owed

\* Nothing is unseen but what an order has executed.
LEMMA UnseenPositive == ASSUME RunInv PROVE Unseen \in Int /\ Unseen >= 0
<1>1. /\ t \in Task /\ exec \in [Order -> Nat] /\ placed \in Nat
      /\ t.oid \in Order \cup {0} /\ t.seen \in Nat
  BY DEF RunInv, EntryTypeOK, Task
<1>2. CASE t.pc = "placing"
  <2>1. placed \in Order
    BY <1>1, <1>2, EntryAssumption DEF RunInv, OrdersInTurn, Order
  <2> QED
    BY <1>1, <1>2, <2>1 DEF Unseen
<1>3. CASE t.pc # "placing" /\ t.oid # 0
  <2>1. exec[t.oid] \in Nat /\ t.seen <= exec[t.oid]
    BY <1>1, <1>3 DEF RunInv, SeenIsBooked, NoDoubleBooking
  <2> QED
    BY <1>1, <1>3, <2>1 DEF Unseen
<1>4. CASE t.pc # "placing" /\ t.oid = 0
  BY <1>4 DEF Unseen
<1> QED
  BY <1>2, <1>3, <1>4

-------------------------------------------------------------------------------
\* Rounding to the lot never rounds up.
LEMMA RoundToLotBelow ==
  ASSUME NEW q \in Int PROVE RoundToLot(q) \in Int /\ RoundToLot(q) <= q
<1>1. SpotStep \in Nat \ {0}
  BY EntryAssumption
<1>2. q \div SpotStep \in Int /\ q % SpotStep \in Nat
  BY <1>1
<1>3. q = SpotStep * (q \div SpotStep) + (q % SpotStep)
  BY <1>1
<1>4. SpotStep * (q \div SpotStep) = (q \div SpotStep) * SpotStep
  BY <1>1, <1>2
<1>5. (q \div SpotStep) * SpotStep \in Int
  BY RoundToLotType DEF RoundToLot
<1> QED
  BY <1>2, <1>3, <1>4, <1>5 DEF RoundToLot

\* The places a run goes to after a hedge owe what the frame calls unhedged.
LEMMA AfterHedgeOwes == AfterHedge \in {"finish", "top"}
  BY DEF AfterHedge

LEMMA HedgingOwes ==
  ASSUME t \in Task, Sound(t), NEW q \in Int, q >= 0
  PROVE  /\ Sound(Hedging(q)) /\ Owed(Hedging(q)) <= q
         /\ SpotStep = 1 => Owed(Hedging(q)) = q
         /\ Hedging(q).pc \in {"buy", "finish", "top"}
<1>0. SpotStep = 1 => RoundToLot(q) = q
  BY DEF RoundToLot
<1>1. CASE RoundToLot(q) > 0
  <2> DEFINE r == RoundToLot(q)
             u == [t EXCEPT !.pc = "buy", !.need = r, !.tries = 0, !.naked = 0,
                            !.unhedged = q]
  <2>1. r \in Int /\ r <= q /\ r > 0 /\ (SpotStep = 1 => r = q)
    BY <1>0, <1>1, RoundToLotBelow
  <2>2. Hedging(q) = u
    BY <1>1 DEF Hedging
  <2> HIDE DEF r
  <2>3. u.pc = "buy" /\ u.need = r /\ u.naked = 0 /\ u.unhedged = q
    BY DEF Task
  <2> HIDE DEF u
  <2> QED
    BY <2>1, <2>2, <2>3 DEF Sound, Owed
<1>2. CASE ~(RoundToLot(q) > 0)
  <2> DEFINE u == [t EXCEPT !.pc = AfterHedge, !.unhedged = 0, !.naked = 0]
  <2>1. Hedging(q) = u
    BY <1>2 DEF Hedging
  <2>2. u.pc = AfterHedge /\ u.unhedged = 0 /\ u.naked = 0 /\ u.need = t.need
    BY DEF Task
  <2>3. t.need >= 0 /\ (SpotStep = 1 => q = 0)
    BY <1>0, <1>2 DEF Sound
  <2> HIDE DEF u
  <2> QED
    BY <2>1, <2>2, <2>3, AfterHedgeOwes DEF Sound, Owed
<1> QED
  BY <1>1, <1>2

LEMMA AfterAttemptOwes ==
  ASSUME t \in Task, Sound(t), NEW q \in Int, q >= 0
  PROVE  Sound(AfterAttempt(q)) /\ Owed(AfterAttempt(q)) = q
<1>0. t.unhedged >= 0 /\ t.naked >= 0
  BY DEF Sound
<1>1. CASE q = 0
  <2> DEFINE u == [t EXCEPT !.pc = AfterHedge, !.unhedged = 0, !.need = 0, !.fill = 0]
  <2>1. AfterAttempt(q) = u
    BY <1>1 DEF AfterAttempt
  <2>2. u.pc = AfterHedge /\ u.unhedged = 0 /\ u.need = 0 /\ u.naked = t.naked
    BY DEF Task
  <2> HIDE DEF u
  <2> QED
    BY <1>0, <1>1, <2>1, <2>2, AfterHedgeOwes DEF Sound, Owed
<1>2. CASE q # 0 /\ t.tries + 1 < Attempts
  <2> DEFINE u == [t EXCEPT !.pc = "buy", !.need = q, !.tries = @ + 1, !.fill = 0]
  <2>1. AfterAttempt(q) = u
    BY <1>2 DEF AfterAttempt
  <2>2. u.pc = "buy" /\ u.need = q /\ u.naked = t.naked /\ u.unhedged = t.unhedged
    BY DEF Task
  <2> HIDE DEF u
  <2> QED
    BY <1>0, <2>1, <2>2 DEF Sound, Owed
<1>3. CASE q # 0 /\ ~(t.tries + 1 < Attempts)
  <2> DEFINE u == [t EXCEPT !.pc = "unwind", !.naked = q, !.unhedged = 0, !.need = 0,
                            !.fill = 0]
  <2>1. AfterAttempt(q) = u
    BY <1>3 DEF AfterAttempt
  <2>2. u.pc = "unwind" /\ u.naked = q /\ u.unhedged = 0 /\ u.need = 0
    BY DEF Task
  <2> HIDE DEF u
  <2> QED
    BY <2>1, <2>2 DEF Sound, Owed
<1> QED
  BY <1>1, <1>2, <1>3

LEMMA UnwoundOwes ==
  ASSUME t \in Task, Sound(t)
  PROVE  /\ Sound(Unwound) /\ Owed(Unwound) <= t.unhedged
         /\ SpotStep = 1 => Owed(Unwound) = t.unhedged
         /\ Unwound.pc \in {"buy", "finish", "top"}
<1>0. t.unhedged \in Int /\ t.unhedged >= 0 /\ t.need >= 0
  BY DEF Task, Sound
<1>1. CASE t.unhedged > 0
  BY <1>0, <1>1, HedgingOwes DEF Unwound
<1>2. CASE ~(t.unhedged > 0)
  <2> DEFINE u == [t EXCEPT !.pc = AfterHedge, !.naked = 0, !.fill = 0]
  <2>1. Unwound = u
    BY <1>2 DEF Unwound
  <2>2. u.pc = AfterHedge /\ u.unhedged = t.unhedged /\ u.naked = 0 /\ u.need = t.need
    BY DEF Task
  <2> HIDE DEF u
  <2> QED
    BY <1>0, <2>1, <2>2, AfterHedgeOwes DEF Sound, Owed
<1> QED
  BY <1>1, <1>2

-------------------------------------------------------------------------------
\* How far the spot leg and what is owed to it are ahead of the perp leg.
Balance == vSpot + Owed(t) - vPerp

\* A step of the hedge: it leaves the orders and the order at hand alone, and
\* the balance never rises; with lots of one contract it stays, unless the
\* operator is told.
HedgeTrades ==
    /\ Goes(t') /\ Sound(t') /\ t.pc # "placing"
    /\ UNCHANGED <<exec, placed>>
    /\ Balance' <= Balance
    /\ SpotStep = 1 => Balance' = Balance \/ warned' = TRUE

\* The steps of the hedge and of the buy-back, but an ambiguous buy-back.
LEMMA HedgeBalances ==
  ASSUME RunInv, HedgeInv, RunInv',
         HedgeStep \/ UnwindTimesOut \/ SpotAmbiguous
  PROVE  HedgeTrades
<1>0. /\ t \in Task /\ t' \in Task /\ vPerp \in Int /\ vSpot \in Nat
      /\ vPerp' \in Int /\ vSpot' \in Int
  BY DEF RunInv, EntryTypeOK
<1>1. /\ t.unhedged \in Int /\ t.need \in Int /\ t.naked \in Int /\ t.fill \in Nat
      /\ t.fill \in Int
  BY <1>0 DEF Task
<1>2. Sound(t) /\ t.unhedged >= 0 /\ t.need >= 0 /\ t.naked >= 0
  BY DEF HedgeInv, Sound
<1>3. CASE NothingToHedge
  <2>1. /\ t.pc = "hedge" /\ UNCHANGED <<exec, placed, vPerp, vSpot>>
        /\ t' = [t EXCEPT !.pc = AfterHedge]
    BY <1>3 DEF NothingToHedge, venue
  <2>2. /\ t'.pc = AfterHedge /\ t'.oid = t.oid /\ t'.seen = t.seen
        /\ t'.unhedged = t.unhedged /\ t'.need = t.need /\ t'.naked = t.naked
    BY <1>0, <2>1 DEF Task
  <2>3. Goes(t')
    BY <1>0, <2>2, AfterHedgePlace DEF Goes
  <2>4. Sound(t') /\ Owed(t') = Owed(t)
    BY <1>2, <2>1, <2>2, AfterHedgeOwes DEF Sound, Owed
  <2> QED
    BY <1>0, <2>1, <2>3, <2>4, OwedType DEF HedgeTrades, Balance
<1>4. ASSUME t.pc = "hedge", t' = Hedging(t.unhedged), UNCHANGED venue PROVE HedgeTrades
  <2>1. UNCHANGED <<exec, placed, vPerp, vSpot>>
    BY <1>4 DEF venue
  <2>2. Goes(t')
    BY <1>0, <1>1, <1>4, HedgingGoes
  <2>3. Sound(t') /\ Owed(t') <= t.unhedged /\ (SpotStep = 1 => Owed(t') = t.unhedged)
    BY <1>0, <1>1, <1>2, <1>4, HedgingOwes
  <2>4. Owed(t) = t.unhedged
    BY <1>4 DEF Owed
  <2>5. Owed(t') \in Int
    BY <1>0, OwedType
  <2>6. Balance' <= Balance /\ (SpotStep = 1 => Balance' = Balance \/ warned' = TRUE)
    BY <1>0, <1>1, <2>1, <2>3, <2>4, <2>5 DEF Balance
  <2> QED
    BY <1>0, <1>4, <2>1, <2>2, <2>3, <2>6 DEF HedgeTrades
<1>5. CASE HedgeAll
  BY <1>4, <1>5 DEF HedgeAll, ToHedge
<1>6. ASSUME NEW salvage \in 0..Target, HedgePart(salvage) PROVE HedgeTrades
  <2>0. salvage \in Int /\ salvage >= 0 /\ salvage <= t.unhedged
    BY <1>6, EntryAssumption DEF HedgePart
  <2>1. t.pc = "hedge" /\ UNCHANGED venue /\ UNCHANGED <<exec, placed, vPerp, vSpot>>
    BY <1>6 DEF HedgePart, ToHedge, venue
  <2>2. CASE salvage = t.unhedged
    BY <1>4, <1>6, <2>1, <2>2 DEF HedgePart
  <2>3. CASE salvage # t.unhedged
    <3> DEFINE ab == IF salvage = 0 THEN TRUE ELSE t.aborted
    <3>1. t' = [t EXCEPT !.pc = "unwind", !.naked = t.unhedged - salvage,
                         !.unhedged = salvage, !.aborted = ab]
      BY <1>6, <2>3 DEF HedgePart
    <3> HIDE DEF ab
    <3>2. /\ t'.pc = "unwind" /\ t'.oid = t.oid /\ t'.seen = t.seen /\ t'.need = t.need
          /\ t'.naked = t.unhedged - salvage /\ t'.unhedged = salvage
      BY <1>0, <3>1 DEF Task
    <3>3. Goes(t')
      BY <1>0, <3>2 DEF Goes, Places
    <3>4. Sound(t')
      BY <1>1, <1>2, <2>0, <3>2 DEF Sound
    <3>5. Owed(t') = Owed(t)
      BY <1>1, <2>0, <2>1, <3>2 DEF Owed
    <3>6. Balance' <= Balance /\ (SpotStep = 1 => Balance' = Balance \/ warned' = TRUE)
      BY <1>0, <2>1, <3>5, OwedType DEF Balance
    <3> QED
      BY <1>0, <2>1, <3>3, <3>4, <3>6 DEF HedgeTrades
  <2> QED
    BY <2>2, <2>3
<1>7. ASSUME NEW k \in 0..Target, BuySpot(k) PROVE HedgeTrades
  <2>1. /\ k \in Int /\ k <= t.need /\ t.pc = "buy" /\ vSpot' = vSpot + k
        /\ UNCHANGED <<exec, placed, vPerp>>
        /\ t' = [t EXCEPT !.pc = "bought", !.fill = k]
    BY <1>7, EntryAssumption DEF BuySpot
  <2>2. /\ t'.pc = "bought" /\ t'.fill = k /\ t'.oid = t.oid /\ t'.seen = t.seen
        /\ t'.need = t.need /\ t'.naked = t.naked /\ t'.unhedged = t.unhedged
    BY <1>0, <2>1 DEF Task
  <2>3. Goes(t')
    BY <1>0, <2>2 DEF Goes, Places
  <2>4. Sound(t')
    BY <1>2, <2>1, <2>2 DEF Sound
  <2>5. Owed(t') = t.need - k /\ Owed(t) = t.need
    BY <2>1, <2>2 DEF Owed
  <2>6. Balance' <= Balance /\ (SpotStep = 1 => Balance' = Balance \/ warned' = TRUE)
    BY <1>0, <1>1, <2>1, <2>5 DEF Balance
  <2> QED
    BY <1>0, <2>1, <2>3, <2>4, <2>6 DEF HedgeTrades
<1>8. ASSUME NEW q \in Int, q >= 0, q = Owed(t), t' = AfterAttempt(q), UNCHANGED venue,
             t.pc # "placing"
      PROVE  HedgeTrades
  <2>1. UNCHANGED <<exec, placed, vPerp, vSpot>>
    BY <1>8 DEF venue
  <2>2. Goes(t')
    BY <1>0, <1>8, AfterAttemptGoes
  <2>3. Sound(t') /\ Owed(t') = q
    BY <1>0, <1>2, <1>8, AfterAttemptOwes
  <2>4. Owed(t') \in Int /\ Owed(t) \in Int
    BY <1>0, OwedType
  <2>5. Balance' <= Balance /\ (SpotStep = 1 => Balance' = Balance \/ warned' = TRUE)
    BY <1>0, <1>8, <2>1, <2>3, <2>4 DEF Balance
  <2> QED
    BY <1>0, <1>8, <2>1, <2>2, <2>3, <2>5 DEF HedgeTrades
<1>9. CASE SpotBought
  <2>1. t.pc = "bought" /\ t' = AfterAttempt(t.need - t.fill) /\ UNCHANGED venue
    BY <1>9 DEF SpotBought
  <2>2. t.need - t.fill \in Int /\ t.need - t.fill >= 0 /\ Owed(t) = t.need - t.fill
    BY <1>1, <1>2, <2>1 DEF Sound, Owed
  <2> QED
    BY <1>8, <2>1, <2>2
<1>10. CASE SpotRejected
  <2>1. t.pc = "buy" /\ t' = AfterAttempt(t.need) /\ UNCHANGED venue
    BY <1>10 DEF SpotRejected
  <2>2. Owed(t) = t.need
    BY <2>1 DEF Owed
  <2> QED
    BY <1>1, <1>2, <1>8, <2>1, <2>2
<1>11. ASSUME NEW k \in 0..Target, BuyBack(k) PROVE HedgeTrades
  <2>1. /\ k \in Int /\ k <= t.naked /\ t.pc = "unwind" /\ vPerp' = vPerp - k
        /\ UNCHANGED <<exec, placed, vSpot>>
        /\ t' = [t EXCEPT !.pc = "unwound", !.fill = k]
    BY <1>11, EntryAssumption DEF BuyBack
  <2>2. /\ t'.pc = "unwound" /\ t'.fill = k /\ t'.oid = t.oid /\ t'.seen = t.seen
        /\ t'.need = t.need /\ t'.naked = t.naked /\ t'.unhedged = t.unhedged
    BY <1>0, <2>1 DEF Task
  <2>3. Goes(t')
    BY <1>0, <2>2 DEF Goes, Places
  <2>4. Sound(t')
    BY <1>2, <2>1, <2>2 DEF Sound
  <2>5. Owed(t') = (t.naked - k) + t.unhedged /\ Owed(t) = t.naked + t.unhedged
    BY <2>1, <2>2 DEF Owed
  <2>6. Balance' <= Balance /\ (SpotStep = 1 => Balance' = Balance \/ warned' = TRUE)
    BY <1>0, <1>1, <2>1, <2>5 DEF Balance
  <2> QED
    BY <1>0, <2>1, <2>3, <2>4, <2>6 DEF HedgeTrades
<1>12. ASSUME NEW u \in Task, u.pc = Unwound.pc, u.unhedged = Unwound.unhedged,
              u.need = Unwound.need, u.naked = Unwound.naked,
              u.oid = Unwound.oid, u.seen = Unwound.seen, t' = u,
              t.pc \in {"unwind", "unwound"}, t.unhedged <= Owed(t), UNCHANGED venue,
              t.unhedged = Owed(t) \/ warned' = TRUE
       PROVE  HedgeTrades
  <2>1. UNCHANGED <<exec, placed, vPerp, vSpot>>
    BY <1>12 DEF venue
  <2>2. Goes(Unwound)
    BY <1>0, UnwoundGoes
  <2>3. Goes(t')
    BY <1>0, <1>12, <2>2 DEF Goes
  <2>4. /\ Sound(Unwound) /\ Owed(Unwound) <= t.unhedged
        /\ SpotStep = 1 => Owed(Unwound) = t.unhedged
        /\ Unwound.pc \in {"buy", "finish", "top"}
    BY <1>0, <1>2, UnwoundOwes
  <2>5. Sound(t') /\ Owed(t') = Owed(Unwound)
    BY <1>12, <2>4 DEF Sound, Owed
  <2>6. Owed(t') \in Int /\ Owed(t) \in Int
    BY <1>0, OwedType
  <2>7. Balance' <= Balance /\ (SpotStep = 1 => Balance' = Balance \/ warned' = TRUE)
    BY <1>0, <1>1, <1>12, <2>1, <2>4, <2>5, <2>6 DEF Balance
  <2> QED
    BY <1>0, <1>12, <2>1, <2>3, <2>5, <2>7 DEF HedgeTrades
<1>13. Unwound \in Task
  BY <1>0, UnwoundGoes DEF Goes
<1>14. CASE BoughtBack
  <2>1. t.pc = "unwound" /\ UNCHANGED venue /\ t.fill <= t.naked
    BY <1>2, <1>14 DEF BoughtBack, Sound
  <2>2. Owed(t) = (t.naked - t.fill) + t.unhedged
    BY <2>1 DEF Owed
  <2>3. CASE t.fill = t.naked
    <3>1. t' = [Unwound EXCEPT !.fill = 0]
      BY <1>14, <2>3 DEF BoughtBack
    <3>2. ASSUME NEW u \in Task
          PROVE  LET v == [u EXCEPT !.fill = 0]
                 IN  /\ v.pc = u.pc /\ v.unhedged = u.unhedged /\ v.need = u.need
                     /\ v.naked = u.naked /\ v.oid = u.oid /\ v.seen = u.seen
      BY DEF Task
    <3>3. /\ t'.pc = Unwound.pc /\ t'.unhedged = Unwound.unhedged
          /\ t'.need = Unwound.need /\ t'.naked = Unwound.naked
          /\ t'.oid = Unwound.oid /\ t'.seen = Unwound.seen
      BY <1>13, <3>1, <3>2
    <3>4. t.unhedged = Owed(t)
      <4>1. t.naked - t.fill = 0
        BY <1>1, <2>3
      <4>2. Owed(t) = 0 + t.unhedged
        BY <2>2, <4>1
      <4> QED
        BY <1>1, <4>2
    <3>5. t.unhedged <= Owed(t)
      BY <1>1, <3>4
    <3>6. t' \in Task
      BY <1>0
    <3> HIDE DEF HedgeTrades
    <3> QED
      BY <1>12, <2>1, <3>3, <3>4, <3>5, <3>6
  <2>4. CASE t.fill # t.naked
    <3>1. t' = [t EXCEPT !.pc = "unwind", !.naked = @ - t.fill, !.fill = 0]
      BY <1>14, <2>4 DEF BoughtBack
    <3>2. /\ t'.pc = "unwind" /\ t'.naked = t.naked - t.fill /\ t'.oid = t.oid
          /\ t'.seen = t.seen /\ t'.need = t.need /\ t'.unhedged = t.unhedged
      BY <1>0, <3>1 DEF Task
    <3>3. Goes(t')
      BY <1>0, <3>2 DEF Goes, Places
    <3>4. Sound(t')
      BY <1>1, <1>2, <2>1, <3>2 DEF Sound
    <3>5. Owed(t') = Owed(t)
      BY <1>1, <2>2, <3>2 DEF Owed
    <3>6. UNCHANGED <<exec, placed, vPerp, vSpot>>
      BY <2>1 DEF venue
    <3>7. Balance' <= Balance /\ (SpotStep = 1 => Balance' = Balance \/ warned' = TRUE)
      BY <1>0, <3>5, <3>6, OwedType DEF Balance
    <3> QED
      BY <1>0, <2>1, <3>3, <3>4, <3>6, <3>7 DEF HedgeTrades
  <2> QED
    BY <2>3, <2>4
<1>15. CASE UnwindTimesOut
  <2>1. t.pc = "unwind" /\ UNCHANGED venue /\ t' = Unwound /\ warned' = TRUE
    BY <1>15 DEF UnwindTimesOut
  <2>2. Owed(t) = t.naked + t.unhedged
    BY <2>1 DEF Owed
  <2>3. t.unhedged <= Owed(t)
    BY <1>1, <1>2, <2>2
  <2> QED
    BY <1>12, <1>13, <2>1, <2>3
<1>16. CASE SpotAmbiguous
  <2>1. /\ t.pc = "bought" /\ UNCHANGED <<exec, placed, vPerp, vSpot>>
        /\ t' = [t EXCEPT !.pc = AfterHedge, !.unhedged = 0, !.need = 0, !.fill = 0]
        /\ warned' = TRUE
    BY <1>16 DEF SpotAmbiguous, venue
  <2>2. /\ t'.pc = AfterHedge /\ t'.unhedged = 0 /\ t'.need = 0 /\ t'.naked = t.naked
        /\ t'.oid = t.oid /\ t'.seen = t.seen
    BY <1>0, <2>1 DEF Task
  <2>3. Goes(t')
    BY <1>0, <2>2, AfterHedgePlace DEF Goes
  <2>4. Sound(t') /\ Owed(t') = 0
    BY <1>2, <2>2, AfterHedgeOwes DEF Sound, Owed
  <2>5. Owed(t) \in Int /\ Owed(t) >= 0
    BY <1>0, <1>2, OwedType, OwedPositive
  <2>6. Balance' <= Balance /\ (SpotStep = 1 => Balance' = Balance \/ warned' = TRUE)
    BY <1>0, <2>1, <2>4, <2>5 DEF Balance
  <2> QED
    BY <1>0, <2>1, <2>3, <2>4, <2>6 DEF HedgeTrades
<1> QED
  BY <1>3, <1>5, <1>6, <1>7, <1>9, <1>10, <1>11, <1>14, <1>15, <1>16 DEF HedgeStep

LEMMA HedgingKeepsHedge ==
  ASSUME RunInv, HedgeInv, RunInv', HedgeStep \/ UnwindTimesOut \/ SpotAmbiguous
  PROVE  HedgeInv'
<1>1. HedgeTrades
  BY HedgeBalances
<1>2. Unseen' = Unseen
  BY <1>1 DEF HedgeTrades, Unseen, Goes
<1>3. /\ vPerp \in Int /\ vSpot \in Int /\ t \in Task /\ t' \in Task
      /\ vPerp' \in Int /\ vSpot' \in Int
  BY DEF RunInv, EntryTypeOK
<1>4. Owed(t) \in Int /\ Owed(t') \in Int /\ Unseen \in Int
  BY <1>3, OwedType, UnseenPositive
<1>5. vSpot' + Owed(t') + Unseen <= vPerp'
  BY <1>1, <1>3, <1>4 DEF HedgeTrades, HedgeInv, Balance
<1> QED
  BY <1>1, <1>2, <1>5 DEF HedgeInv, HedgeTrades

-------------------------------------------------------------------------------
\* The numbers HedgeInv is about, and the order at hand.
LEMMA HedgeTypes ==
  ASSUME RunInv, HedgeInv
  PROVE  /\ t \in Task /\ vPerp \in Int /\ vSpot \in Nat /\ vSpot \in Int
         /\ exec \in [Order -> Nat] /\ placed \in Nat
         /\ t.oid \in Order \cup {0} /\ t.seen \in Nat /\ t.unhedged \in Int
         /\ Owed(t) \in Int /\ Owed(t) >= 0 /\ Sound(t)
         /\ Unseen \in Int /\ Unseen >= 0
         /\ t.pc = "placing" => placed \in Order
         /\ t.pc \in {"cancel", "cancelled"} => t.oid # 0
<1>1. /\ t \in Task /\ vPerp \in Int /\ vSpot \in Nat /\ exec \in [Order -> Nat]
      /\ placed \in Nat
  BY DEF RunInv, EntryTypeOK
<1>2. t.oid \in Order \cup {0} /\ t.seen \in Nat /\ t.unhedged \in Int
  BY <1>1 DEF Task
<1>3. t.pc = "placing" => placed \in Order
  BY <1>1, EntryAssumption DEF RunInv, OrdersInTurn, Order
<1>4. t.pc \in {"cancel", "cancelled"} => t.oid # 0
  BY DEF RunInv, HandTaken
<1>5. Sound(t)
  BY DEF HedgeInv
<1> QED
  BY <1>1, <1>2, <1>3, <1>4, <1>5, OwedType, OwedPositive, UnseenPositive

\* A fill raises the perp leg by at least what it adds to the unseen.
LEMMA VenueKeepsHedge ==
  ASSUME RunInv, HedgeInv, VenueStep PROVE HedgeInv'
<1>0. /\ t \in Task /\ vPerp \in Int /\ vSpot \in Int /\ exec \in [Order -> Nat]
      /\ t.oid \in Order \cup {0} /\ t.seen \in Nat /\ Owed(t) \in Int /\ Unseen \in Int
      /\ t.pc = "placing" => placed \in Order
  BY HedgeTypes
<1>1. /\ UNCHANGED <<t, placed, vSpot>>
      /\ \E k \in Nat : /\ vPerp' = vPerp + k
                        /\ \A p \in Order : exec'[p] \in Nat /\ exec'[p] <= exec[p] + k
  <2>1. ASSUME NEW o \in Order, VenueAccept(o) \/ VenueReject(o)
        PROVE  UNCHANGED <<t, placed, vSpot, vPerp, exec>>
    BY <2>1 DEF VenueAccept, VenueReject
  <2>2. ASSUME NEW o \in Order, NEW k \in 1..Target, VenueFill(o, k)
        PROVE  /\ UNCHANGED <<t, placed, vSpot>> /\ k \in Nat /\ vPerp' = vPerp + k
               /\ \A p \in Order : exec'[p] \in Nat /\ exec'[p] <= exec[p] + k
    <3>1. k \in Nat /\ UNCHANGED <<t, placed, vSpot>> /\ vPerp' = vPerp + k
          /\ exec' = [exec EXCEPT ![o] = @ + k]
      BY <2>2, EntryAssumption DEF VenueFill
    <3> QED
      BY <1>0, <3>1
  <2>3. vPerp = vPerp + 0 /\ \A p \in Order : exec[p] \in Nat /\ exec[p] <= exec[p] + 0
    BY <1>0
  <2>4. PICK o \in Order : \/ VenueAccept(o) \/ VenueReject(o)
                           \/ \E k \in 1..Target : VenueFill(o, k)
    BY DEF VenueStep
  <2>5. CASE VenueAccept(o) \/ VenueReject(o)
    <3>1. UNCHANGED <<t, placed, vSpot, vPerp, exec>>
      BY <2>1, <2>5
    <3>2. vPerp' = vPerp + 0
          /\ \A p \in Order : exec'[p] \in Nat /\ exec'[p] <= exec[p] + 0
      BY <2>3, <3>1
    <3> QED
      BY <3>1, <3>2, Zero
  <2>6. CASE \E k \in 1..Target : VenueFill(o, k)
    BY <2>2, <2>6
  <2> QED
    BY <2>4, <2>5, <2>6
<1>2. PICK k \in Nat : /\ vPerp' = vPerp + k
                       /\ \A p \in Order : exec'[p] \in Nat /\ exec'[p] <= exec[p] + k
  BY <1>1
<1>3. Unseen' \in Int /\ Unseen' <= Unseen + k
  <2>1. CASE t.pc = "placing"
    <3>1. Unseen = exec[placed] /\ Unseen' = exec'[placed] /\ placed \in Order
      BY <1>0, <1>1, <2>1 DEF Unseen
    <3> QED
      BY <1>0, <1>2, <3>1
  <2>2. CASE t.pc # "placing" /\ t.oid # 0
    <3>1. /\ Unseen = exec[t.oid] - t.seen /\ Unseen' = exec'[t.oid] - t.seen
          /\ t.oid \in Order
      BY <1>0, <1>1, <2>2 DEF Unseen
    <3> QED
      BY <1>0, <1>2, <3>1
  <2>3. CASE t.pc # "placing" /\ t.oid = 0
    <3>1. Unseen = 0 /\ Unseen' = 0
      BY <1>1, <2>3 DEF Unseen
    <3> QED
      BY <3>1
  <2> QED
    BY <2>1, <2>2, <2>3
<1>4. Sound(t') /\ Owed(t') = Owed(t)
  BY <1>1 DEF HedgeInv
<1>5. vSpot' + Owed(t') + Unseen' <= vPerp'
  BY <1>0, <1>1, <1>2, <1>3, <1>4 DEF HedgeInv
<1> QED
  BY <1>4, <1>5 DEF HedgeInv

\* Steps after which the run owes nothing and waits for nothing.
LEMMA NothingOwed ==
  ASSUME RunInv, HedgeInv, Sound(t'), Owed(t') = 0, t'.pc # "placing", t'.oid = 0,
         UNCHANGED <<vPerp, vSpot>>
  PROVE  HedgeInv'
<1>1. /\ vPerp \in Int /\ vSpot \in Int /\ Owed(t) \in Int /\ Owed(t) >= 0
      /\ Unseen \in Int /\ Unseen >= 0
  BY HedgeTypes
<1>2. Unseen' = 0
  BY DEF Unseen
<1>3. vSpot + Owed(t) + Unseen <= vPerp
  BY DEF HedgeInv
<1>4. vSpot' + Owed(t') + Unseen' <= vPerp'
  BY <1>1, <1>2, <1>3
<1> QED
  BY <1>4 DEF HedgeInv

LEMMA RunEndsKeepHedge ==
  ASSUME RunInv, HedgeInv,
         StartRun \/ StartWithoutQuotes \/ EndAdd \/ EndRun \/ TaskDies \/ Crash
  PROVE  HedgeInv'
<1>1. CASE StartRun
  <2> DEFINE add == (state = "OPEN")
             u == [Idle EXCEPT !.pc = "top", !.remaining = Target, !.isAdd = add,
                               !.prePerp = dbPerp]
  <2>1. t' = u /\ UNCHANGED <<vPerp, vSpot>>
    BY <1>1 DEF StartRun, venue
  <2> HIDE DEF add
  <2>2. /\ u.pc = "top" /\ u.oid = 0 /\ u.unhedged = 0 /\ u.need = 0 /\ u.naked = 0
    BY DEF Idle
  <2> HIDE DEF u
  <2>3. Sound(t') /\ Owed(t') = 0
    BY <2>1, <2>2 DEF Sound, Owed
  <2> QED
    BY <2>1, <2>2, <2>3, NothingOwed
<1>2. CASE StartWithoutQuotes
  <2>1. t' = t /\ UNCHANGED <<vPerp, vSpot, exec, placed>>
    BY <1>2 DEF StartWithoutQuotes, venue
  <2>2. Sound(t') /\ Owed(t') = Owed(t) /\ Unseen' = Unseen
    BY <2>1 DEF HedgeInv, Unseen
  <2> QED
    BY <2>1, <2>2 DEF HedgeInv
<1>3. CASE EndAdd \/ EndRun \/ TaskDies \/ Crash
  <2>1. t' = Idle /\ UNCHANGED <<vPerp, vSpot>>
    BY <1>3 DEF EndAdd, EndRun, EndWith, TaskDies, Crash, venue
  <2> QED
    BY <2>1, IdleOwes, IdleType, NothingOwed
<1> QED
  BY <1>1, <1>2, <1>3

-------------------------------------------------------------------------------
\* Steps that trade nothing: what was unseen may become owed, no more.
LEMMA NoMoreOwed ==
  ASSUME RunInv, HedgeInv, t' \in Task, Sound(t'), UNCHANGED <<vPerp, vSpot>>,
         Unseen' \in Int, Owed(t') + Unseen' <= Owed(t) + Unseen
  PROVE  HedgeInv'
<1>1. /\ vPerp \in Int /\ vSpot \in Int /\ Owed(t) \in Int /\ Unseen \in Int
  BY HedgeTypes
<1>2. Owed(t') \in Int
  BY OwedType
<1>3. vSpot' + Owed(t') + Unseen' <= vPerp'
  BY <1>1, <1>2 DEF HedgeInv
<1> QED
  BY <1>3 DEF HedgeInv

\* Frames outside the hedge owe what they call unhedged.
LoopPlaces == {"top", "placing", "cancel", "cancelled", "hedge"}

LEMMA LoopOwes ==
  ASSUME NEW u, NEW v, u.pc \in LoopPlaces, v.unhedged >= 0,
         u.unhedged = v.unhedged, u.need = v.need, u.naked = v.naked, Sound(v)
  PROVE  Sound(u) /\ Owed(u) = v.unhedged
  BY DEF LoopPlaces, Sound, Owed

LEMMA LoopKeepsHedge ==
  ASSUME RunInv, HedgeInv, RunInv',
         AskToStop \/ LeaveLoop \/ RestNothing \/ CancelOrder
         \/ (\E q \in 1..Target : Place(q)) \/ PlaceReply
  PROVE  HedgeInv'
<1>0. /\ t \in Task /\ exec \in [Order -> Nat] /\ placed \in Nat
      /\ t.oid \in Order \cup {0} /\ t.seen \in Nat /\ t.unhedged \in Int
      /\ Owed(t) \in Int /\ Sound(t) /\ t.unhedged >= 0
      /\ Unseen \in Int /\ Unseen >= 0
      /\ t.pc = "placing" => placed \in Order
  BY HedgeTypes DEF Sound
<1>00. t' \in Task /\ placed' \in Nat
  BY DEF RunInv, EntryTypeOK
<1>1. CASE AskToStop
  <2>1. t' = t /\ UNCHANGED <<vPerp, vSpot, exec, placed>>
    BY <1>1 DEF AskToStop, venue
  <2>2. Sound(t') /\ Owed(t') = Owed(t) /\ Unseen' = Unseen
    BY <1>0, <2>1 DEF Unseen
  <2> QED
    BY <2>1, <2>2 DEF HedgeInv
<1>2. ASSUME NEW p \in LoopPlaces \ {"placing"}, NEW f \in BOOLEAN,
             t' = [t EXCEPT !.pc = p, !.force = f],
             t.pc \in LoopPlaces \ {"placing"}, UNCHANGED <<vPerp, vSpot, exec, placed>>
      PROVE  HedgeInv'
  <2>1. /\ t'.pc = p /\ t'.oid = t.oid /\ t'.seen = t.seen /\ t'.unhedged = t.unhedged
        /\ t'.need = t.need /\ t'.naked = t.naked
    BY <1>0, <1>2 DEF Task
  <2>2. Unseen' = Unseen
    BY <1>2, <2>1 DEF Unseen
  <2>3. Sound(t') /\ Owed(t') = t.unhedged
    BY <1>0, <1>2, <2>1, LoopOwes, ZenonT(60)
  <2>4. Owed(t) = t.unhedged
    BY <1>2 DEF Owed, LoopPlaces
  <2> QED
    BY <1>0, <1>00, <1>2, <2>2, <2>3, <2>4, NoMoreOwed
<1>a. \A p : [t EXCEPT !.pc = p] = [t EXCEPT !.pc = p, !.force = t.force]
  BY <1>0 DEF Task
<1>b. t.force \in BOOLEAN
  BY <1>0 DEF Task
<1>3. CASE LeaveLoop
  <2> DEFINE p == IF t.oid # 0 THEN "cancel" ELSE "hedge"
  <2>1. p \in LoopPlaces \ {"placing"} /\ t.pc \in LoopPlaces \ {"placing"}
    BY <1>3 DEF LoopPlaces, LeaveLoop
  <2>2. t' = [t EXCEPT !.pc = p, !.force = TRUE] /\ UNCHANGED <<vPerp, vSpot, exec, placed>>
    BY <1>3 DEF LeaveLoop, venue
  <2> HIDE DEF p
  <2> QED
    BY <1>2, <2>1, <2>2
<1>4. CASE RestNothing
  <2>1. "hedge" \in LoopPlaces \ {"placing"} /\ t.pc \in LoopPlaces \ {"placing"}
    BY <1>4 DEF LoopPlaces, RestNothing
  <2>2. t' = [t EXCEPT !.pc = "hedge"] /\ UNCHANGED <<vPerp, vSpot, exec, placed>>
    BY <1>4 DEF RestNothing, venue
  <2> QED
    BY <1>2, <1>a, <1>b, <2>1, <2>2
<1>5. CASE CancelOrder
  <2>1. "cancelled" \in LoopPlaces \ {"placing"} /\ t.pc \in LoopPlaces \ {"placing"}
    BY <1>5 DEF LoopPlaces, CancelOrder
  <2>2. t' = [t EXCEPT !.pc = "cancelled"] /\ UNCHANGED <<vPerp, vSpot, exec, placed>>
    BY <1>5 DEF CancelOrder
  <2> QED
    BY <1>2, <1>a, <1>b, <2>1, <2>2
<1>6. ASSUME NEW q \in 1..Target, Place(q) PROVE HedgeInv'
  <2>1. /\ t.pc = "top" /\ t.oid = 0 /\ placed' = placed + 1
        /\ t' = [t EXCEPT !.pc = "placing"] /\ UNCHANGED <<exec, vPerp, vSpot>>
        /\ placed < MaxOrders
    BY <1>6 DEF Place
  <2>2. placed' \in Order /\ placed' > placed
    BY <1>0, <2>1, EntryAssumption, SMTT(30) DEF Order
  <2>3. exec[placed'] = 0
    BY <2>2 DEF RunInv, OrdersInTurn
  <2>4. /\ t'.pc = "placing" /\ t'.unhedged = t.unhedged /\ t'.need = t.need
        /\ t'.naked = t.naked
    BY <1>0, <2>1 DEF Task
  <2>5. Unseen = 0 /\ Unseen' = 0
    BY <2>1, <2>3, <2>4 DEF Unseen
  <2>6. Sound(t') /\ Owed(t') = t.unhedged
    BY <1>0, <2>4, LoopOwes DEF LoopPlaces
  <2>7. Owed(t) = t.unhedged
    BY <2>1 DEF Owed
  <2> QED
    BY <1>0, <1>00, <2>1, <2>5, <2>6, <2>7, NoMoreOwed
<1>7. CASE PlaceReply
  <2>1. t.pc = "placing" /\ placed \in Order
    BY <1>0, <1>7 DEF PlaceReply, PlaceConfirmed, PlaceRejected, PlaceAmbiguous
  <2>2. PICK status \in IntentStates, oid \in {0, placed} : PlaceReplies(status, oid)
    <3>1. "done" \in IntentStates /\ "failed" \in IntentStates /\ "ambiguous" \in IntentStates
      BY DEF IntentStates
    <3> QED
      BY <1>7, <3>1 DEF PlaceReply, PlaceConfirmed, PlaceRejected, PlaceAmbiguous
  <2> DEFINE s == IF oid # 0 THEN 0 ELSE t.seen
  <2>3. t' = [t EXCEPT !.pc = "hedge", !.oid = oid, !.seen = s]
        /\ UNCHANGED <<exec, placed, vPerp, vSpot>>
    BY <2>2 DEF PlaceReplies, venue
  <2>4. oid # 0 => oid = placed /\ s = 0
    OBVIOUS
  <2> HIDE DEF s
  <2>5. /\ t'.pc = "hedge" /\ t'.oid = oid /\ t'.seen = s /\ t'.unhedged = t.unhedged
        /\ t'.need = t.need /\ t'.naked = t.naked
    BY <1>0, <2>3 DEF Task
  <2>6. Unseen = exec[placed] /\ exec[placed] \in Nat
    BY <1>0, <2>1 DEF Unseen
  <2>7. Unseen' \in Int /\ Unseen' <= Unseen
    <3>1. CASE oid = 0
      BY <2>5, <2>6, <3>1 DEF Unseen
    <3>2. CASE oid # 0
      <4>1. Unseen' = exec[placed] - 0
        BY <2>3, <2>4, <2>5, <3>2 DEF Unseen
      <4> QED
        BY <2>6, <4>1
    <3> QED
      BY <3>1, <3>2
  <2>8. Sound(t') /\ Owed(t') = t.unhedged
    BY <1>0, <2>5, LoopOwes DEF LoopPlaces
  <2>9. Owed(t) = t.unhedged
    BY <2>1 DEF Owed
  <2> QED
    BY <1>0, <1>00, <2>3, <2>7, <2>8, <2>9, NoMoreOwed
<1> QED
  BY <1>1, <1>3, <1>4, <1>5, <1>6, <1>7

\* A look at the order at hand turns what was unseen into what is owed.
LEMMA AbsorbKeepsHedge ==
  ASSUME RunInv, HedgeInv, RunInv', t.pc \in LoopPlaces \ {"placing"}, t.oid # 0,
         NEW oid \in {0, t.oid}, NEW p \in LoopPlaces \ {"placing"},
         t' = [Absorbed EXCEPT !.pc = p, !.oid = oid],
         UNCHANGED venue
  PROVE  HedgeInv'
<1>0. /\ t \in Task /\ exec \in [Order -> Nat] /\ t.oid \in Order /\ t.seen \in Nat
      /\ t.unhedged \in Int /\ Owed(t) \in Int /\ Sound(t) /\ t.unhedged >= 0
      /\ Unseen \in Int /\ Unseen >= 0
  BY HedgeTypes DEF Sound
<1>1. t' \in Task /\ UNCHANGED <<exec, vPerp, vSpot>>
  BY DEF RunInv, EntryTypeOK, venue
<1>2. NewlySeen = Unseen /\ Owed(t) = t.unhedged
  BY DEF NewlySeen, Unseen, Owed, LoopPlaces
<1>3. /\ Absorbed \in Task /\ Absorbed.seen = exec[t.oid]
      /\ Absorbed.unhedged = t.unhedged + NewlySeen
      /\ Absorbed.need = t.need /\ Absorbed.naked = t.naked
  BY <1>0, AbsorbedType DEF Absorbed, Task
<1>4. ASSUME NEW u \in Task
      PROVE  LET v == [u EXCEPT !.pc = p, !.oid = oid]
             IN  /\ v.pc = p /\ v.oid = oid /\ v.seen = u.seen
                 /\ v.unhedged = u.unhedged /\ v.need = u.need /\ v.naked = u.naked
  BY DEF Task
<1>5. /\ t'.pc = p /\ t'.oid = oid /\ t'.seen = exec[t.oid]
      /\ t'.unhedged = t.unhedged + Unseen
      /\ t'.need = t.need /\ t'.naked = t.naked
  BY <1>2, <1>3, <1>4
<1>6. Unseen' = 0
  <2>1. CASE oid = 0
    BY <1>5, <2>1 DEF Unseen
  <2>2. CASE oid # 0
    <3>1. Unseen' = exec[t.oid] - exec[t.oid] /\ exec[t.oid] \in Int
      BY <1>0, <1>1, <1>5, <2>2 DEF Unseen
    <3> QED
      BY <3>1
  <2> QED
    BY <2>1, <2>2
<1>7. Sound(t') /\ Owed(t') = t.unhedged + Unseen
  <2>1. t.unhedged + Unseen >= 0
    BY <1>0
  <2>2. Sound(t')
    BY <1>0, <1>5, <2>1 DEF Sound, LoopPlaces
  <2>3. Owed(t') = t'.unhedged
    BY <1>5 DEF Owed, LoopPlaces
  <2> QED
    BY <1>5, <2>2, <2>3
<1>8. Owed(t') + Unseen' <= Owed(t) + Unseen
  BY <1>0, <1>2, <1>6, <1>7
<1> QED
  BY <1>1, <1>6, <1>7, <1>8, NoMoreOwed

LEMMA PollKeepsHedge ==
  ASSUME RunInv, HedgeInv, RunInv',
         (\E reprice \in BOOLEAN : Poll(reprice)) \/ ReadCancelled
  PROVE  HedgeInv'
<1>0. t \in Task /\ exec \in [Order -> Nat]
      /\ (t.pc \in {"cancel", "cancelled"} => t.oid # 0)
  BY HedgeTypes
<1>1. {"cancel", "hedge"} \subseteq LoopPlaces \ {"placing"}
  BY DEF LoopPlaces
<1>2. ASSUME NEW reprice \in BOOLEAN, Poll(reprice) PROVE HedgeInv'
  <2>1. /\ t.pc \in LoopPlaces \ {"placing"} /\ t.oid # 0 /\ UNCHANGED venue
    BY <1>2 DEF Poll, LoopPlaces
  <2>2. Absorbed \in Task /\ Absorbed.oid = t.oid
    BY <1>0, <2>1, AbsorbedType
  <2>3. CASE ost[t.oid] = "open"
    <3> DEFINE p == IF reprice THEN "cancel" ELSE "hedge"
    <3>1. p \in LoopPlaces \ {"placing"}
      BY <1>1
    <3>2. t' = [Absorbed EXCEPT !.pc = p]
      BY <1>2, <2>3 DEF Poll
    <3> HIDE DEF p
    <3>3. \A u \in Task : [u EXCEPT !.pc = p] = [u EXCEPT !.pc = p, !.oid = u.oid]
      BY DEF Task
    <3>4. t' = [Absorbed EXCEPT !.pc = p, !.oid = t.oid]
      BY <2>2, <3>2, <3>3
    <3> QED
      BY <2>1, <3>1, <3>4, AbsorbKeepsHedge
  <2>4. CASE ost[t.oid] # "open"
    <3>1. t' = [Absorbed EXCEPT !.pc = "hedge", !.oid = 0]
      BY <1>2, <2>4 DEF Poll
    <3> QED
      BY <1>1, <2>1, <3>1, AbsorbKeepsHedge
  <2> QED
    BY <2>3, <2>4
<1>3. CASE ReadCancelled
  <2>1. /\ t.pc \in LoopPlaces \ {"placing"} /\ UNCHANGED venue
        /\ t' = [Absorbed EXCEPT !.pc = "hedge", !.oid = 0]
    BY <1>3 DEF ReadCancelled, LoopPlaces
  <2>2. t.oid # 0
    BY <1>0, <1>3 DEF ReadCancelled
  <2> QED
    BY <1>1, <2>1, <2>2, AbsorbKeepsHedge
<1> QED
  BY <1>2, <1>3

-------------------------------------------------------------------------------
\* Reconcile trades nothing and leaves the frame and the fills alone.
LEMMA ReconcileKeepsHedge ==
  ASSUME HedgeInv, ReconcileStep PROVE HedgeInv'
<1>1. UNCHANGED <<t, exec, placed, vPerp, vSpot>>
  BY DEF ReconcileStep, BeginReconcile, SweepOrder, EndSweep, LookupIntent,
         ResolveIntent, EndIntents, FixUp, Compare, vars, venue
<1> QED
  BY <1>1 DEF HedgeInv, Unseen

LEMMA HedgeInvInit == EntryInit => HedgeInv
<1> SUFFICES ASSUME EntryInit PROVE HedgeInv
  OBVIOUS
<1>1. t = Idle /\ vSpot = vPerp /\ vPerp \in Int
  BY EntryAssumption DEF EntryInit
<1>2. Unseen = 0
  BY <1>1 DEF Unseen, Idle
<1> QED
  BY <1>1, <1>2, IdleOwes DEF HedgeInv

LEMMA RunKeepsHedge ==
  ASSUME "unwind_ambiguous" \notin Faults,
         RunInv, RunInv', HedgeInv, VenueStep \/ EngineStep
  PROVE  HedgeInv'
<1>1. ~BuyBackAmbiguous
  BY DEF BuyBackAmbiguous
<1> QED
  BY <1>1, VenueKeepsHedge, HedgingKeepsHedge, RunEndsKeepHedge, LoopKeepsHedge,
     PollKeepsHedge
  DEF EngineStep, TaskStep, LoopStep, FaultStep

LEMMA HedgeInvStep ==
  ASSUME "unwind_ambiguous" \notin Faults,
         BookingInv, BookingInv', HedgeInv, [RecoveryNext]_allVars
  PROVE  HedgeInv'
<1>0. RunInv /\ RunInv'
  BY DEF BookingInv
<1>1. CASE WhileUp(EngineStep) \/ VenueStep
  BY <1>0, <1>1, RunKeepsHedge DEF WhileUp
<1>2. CASE ReconcileStep
  BY <1>2, ReconcileKeepsHedge
<1>3. CASE Crash
  BY <1>0, <1>3, RunEndsKeepHedge
<1>4. CASE UNCHANGED allVars
  BY <1>4 DEF allVars, vars, venue, HedgeInv, Unseen
<1> QED
  BY <1>1, <1>2, <1>3, <1>4 DEF RecoveryNext

\* HedgeInv holds in every behaviour with crashes and restarts.
THEOREM HedgeInvariance ==
  ASSUME "unwind_ambiguous" \notin Faults
  PROVE  RecoverySpec => [](BookingInv /\ HedgeInv)
<1>1. RecoveryInit => HedgeInv
  BY HedgeInvInit DEF RecoveryInit
<1>2. BookingInv /\ BookingInv' /\ HedgeInv /\ [RecoveryNext]_allVars => HedgeInv'
  BY HedgeInvStep
<1> QED
  BY <1>1, <1>2, BookingInvariance, PTL DEF RecoverySpec

LEMMA HedgedBelow == ASSUME RunInv, HedgeInv PROVE SpotNeverLeads
<1>1. /\ vPerp \in Int /\ vSpot \in Int /\ Owed(t) \in Int /\ Owed(t) >= 0
      /\ Unseen \in Int /\ Unseen >= 0
  BY HedgeTypes
<1>2. vSpot + Owed(t) + Unseen <= vPerp
  BY DEF HedgeInv
<1> QED
  BY <1>1, <1>2 DEF SpotNeverLeads

\* Whatever fills, collapses, falls short, is bought back or is cut short by a
\* crash, the account never holds more spot than perp short - unless a
\* buy-back's outcome can be unknown, where the code retries it.
THEOREM SpotFollowsPerp ==
  ASSUME "unwind_ambiguous" \notin Faults
  PROVE  RecoverySpec => []SpotNeverLeads
<1>1. BookingInv /\ HedgeInv => SpotNeverLeads
  BY HedgedBelow DEF BookingInv
<1> QED
  BY <1>1, HedgeInvariance, PTL

-------------------------------------------------------------------------------
(***************************************************************************)
(* The orders of a run, its rows and its legs when it is over              *)
(* (RowsMatchVenues, LegsMatchOrWarned), and what a restart leaves of them *)
(* (NothingRestsAfterSweep, NakedLegIsReported).                           *)
(*                                                                         *)
(* All four speak of a moment when no run is under way.  What makes them   *)
(* true then is kept all along: at most one order can fill, and it is the  *)
(* one in hand; the rows lag the venues by exactly what the run has not    *)
(* looked at or not yet written; the legs differ by exactly what it owes.  *)
(***************************************************************************)

\* A run that ended in an exception, or that a crash cut short.
Dead == t.pc = "idle" /\ state = "ENTERING"

\* The order the run waits for.
Hand == IF t.pc = "placing" THEN placed ELSE t.oid

\* Where the run can be with and without an order, under every fault.
HandInv ==
    /\ t.pc # "idle" => state = "ENTERING"
    /\ t.pc \in {"idle", "placing", "finish"} => t.oid = 0
    /\ t.pc = "finish" => t.force /\ t.unhedged <= 0
    /\ t.pc \in {"top", "placing"} => ~t.force
    /\ t.force => t.oid = 0 \/ t.pc \in {"cancel", "cancelled"}
    /\ \A o \in Order : ost[o] \in {"none", "sent", "rejected"} => exec[o] = 0

\* What the venues hold beyond the rows, the reply in flight apart.
RowGap == (vPerp + (IF t.pc = "unwound" THEN t.fill ELSE 0)) - dbPerp
SpotGap == (vSpot - (IF t.pc = "bought" THEN t.fill ELSE 0)) - dbSpot

\* Frames a step of the hedge that got its reply goes on with.
Resumes(u) ==
    /\ u.pc \in {"buy", "unwind", "top", "finish"}
    /\ u.oid = t.oid /\ u.seen = t.seen /\ u.force = t.force /\ u.remaining = t.remaining
    /\ u.pc = "finish" => t.force /\ u.unhedged <= 0
    /\ u.pc = "top" => ~t.force

\* A step of the hedge is about the order in hand and no other.
HedgeMoves ==
    /\ UNCHANGED <<ost, oqty, exec, placed, state, runs, room>>
    /\ t.pc \in {"hedge", "buy", "bought", "unwind", "unwound"}
    /\ t'.pc \in {"buy", "bought", "unwind", "unwound", "top", "finish"}
    /\ t'.oid = t.oid /\ t'.seen = t.seen /\ t'.force = t.force /\ t'.remaining = t.remaining
    /\ t'.pc = "finish" => t.force /\ t'.unhedged <= 0
    /\ t'.pc = "top" => ~t.force

-------------------------------------------------------------------------------
LEMMA AfterHedgeResumes ==
  /\ AfterHedge \in {"top", "finish"}
  /\ AfterHedge = "finish" => t.force
  /\ AfterHedge = "top" => ~t.force
  BY DEF AfterHedge

LEMMA HedgingResumes == ASSUME t \in Task, NEW q \in Int PROVE Resumes(Hedging(q))
<1>1. CASE RoundToLot(q) > 0
  <2> DEFINE u == [t EXCEPT !.pc = "buy", !.need = RoundToLot(q), !.tries = 0,
                            !.naked = 0, !.unhedged = q]
  <2>1. u.pc = "buy" /\ u.oid = t.oid /\ u.seen = t.seen
        /\ u.force = t.force /\ u.remaining = t.remaining
    BY DEF Task
  <2>2. Hedging(q) = u
    BY <1>1 DEF Hedging
  <2> HIDE DEF u
  <2> QED
    BY <2>1, <2>2 DEF Resumes
<1>2. CASE ~(RoundToLot(q) > 0)
  <2> DEFINE u == [t EXCEPT !.pc = AfterHedge, !.unhedged = 0, !.naked = 0]
  <2>1. /\ u.pc = AfterHedge /\ u.oid = t.oid /\ u.seen = t.seen
        /\ u.force = t.force /\ u.remaining = t.remaining
        /\ u.unhedged = 0
    BY DEF Task
  <2>2. Hedging(q) = u
    BY <1>2 DEF Hedging
  <2> HIDE DEF u
  <2> QED
    BY <2>1, <2>2, AfterHedgeResumes DEF Resumes
<1> QED
  BY <1>1, <1>2

LEMMA AfterAttemptResumes ==
  ASSUME t \in Task, NEW q \in Int PROVE Resumes(AfterAttempt(q))
<1>1. CASE q = 0
  <2> DEFINE u == [t EXCEPT !.pc = AfterHedge, !.unhedged = 0, !.need = 0, !.fill = 0]
  <2>1. /\ u.pc = AfterHedge /\ u.oid = t.oid /\ u.seen = t.seen
        /\ u.force = t.force /\ u.remaining = t.remaining
        /\ u.unhedged = 0
    BY DEF Task
  <2>2. AfterAttempt(q) = u
    BY <1>1 DEF AfterAttempt
  <2> HIDE DEF u
  <2> QED
    BY <2>1, <2>2, AfterHedgeResumes DEF Resumes
<1>2. CASE q # 0 /\ t.tries + 1 < Attempts
  <2> DEFINE u == [t EXCEPT !.pc = "buy", !.need = q, !.tries = @ + 1, !.fill = 0]
  <2>1. u.pc = "buy" /\ u.oid = t.oid /\ u.seen = t.seen
        /\ u.force = t.force /\ u.remaining = t.remaining
    BY DEF Task
  <2>2. AfterAttempt(q) = u
    BY <1>2 DEF AfterAttempt
  <2> HIDE DEF u
  <2> QED
    BY <2>1, <2>2 DEF Resumes
<1>3. CASE q # 0 /\ ~(t.tries + 1 < Attempts)
  <2> DEFINE u == [t EXCEPT !.pc = "unwind", !.naked = q, !.unhedged = 0, !.need = 0,
                            !.fill = 0]
  <2>1. u.pc = "unwind" /\ u.oid = t.oid /\ u.seen = t.seen
        /\ u.force = t.force /\ u.remaining = t.remaining
    BY DEF Task
  <2>2. AfterAttempt(q) = u
    BY <1>3 DEF AfterAttempt
  <2> HIDE DEF u
  <2> QED
    BY <2>1, <2>2 DEF Resumes
<1> QED
  BY <1>1, <1>2, <1>3

LEMMA UnwoundResumes == ASSUME t \in Task PROVE Resumes(Unwound)
<1>0. t.unhedged \in Int
  BY DEF Task
<1>1. CASE t.unhedged > 0
  BY <1>0, <1>1, HedgingResumes DEF Unwound
<1>2. CASE ~(t.unhedged > 0)
  <2> DEFINE u == [t EXCEPT !.pc = AfterHedge, !.naked = 0, !.fill = 0]
  <2>1. /\ u.pc = AfterHedge /\ u.oid = t.oid /\ u.seen = t.seen
        /\ u.force = t.force /\ u.remaining = t.remaining
        /\ u.unhedged = t.unhedged
    BY DEF Task
  <2>2. Unwound = u
    BY <1>2 DEF Unwound
  <2>3. t.unhedged <= 0
    BY <1>0, <1>2
  <2> HIDE DEF u
  <2> QED
    BY <2>1, <2>2, <2>3, AfterHedgeResumes DEF Resumes
<1> QED
  BY <1>1, <1>2

\* A step that resumes and writes what a reply said keeps the gaps.
LEMMA ResumesMoves ==
  ASSUME RunInv, Resumes(t'), UNCHANGED <<ost, oqty, exec, placed, state, runs, room>>,
         t.pc \in {"hedge", "buy", "bought", "unwind", "unwound"},
         UNCHANGED <<vPerp, vSpot>>,
         dbPerp' = dbPerp - (IF t.pc = "unwound" THEN t.fill ELSE 0),
         dbSpot' = dbSpot + (IF t.pc = "bought" THEN t.fill ELSE 0)
  PROVE  HedgeMoves /\ RowGap' = RowGap /\ SpotGap' = SpotGap
<1>1. t \in Task /\ vPerp \in Int /\ vSpot \in Int /\ dbPerp \in Int /\ dbSpot \in Int
  BY DEF RunInv, EntryTypeOK
<1>2. t.fill \in Int
  BY <1>1 DEF Task
<1>3. t'.pc # "unwound" /\ t'.pc # "bought"
  BY DEF Resumes
<1>4. RowGap' = vPerp - dbPerp' /\ SpotGap' = vSpot - dbSpot'
  BY <1>1, <1>2, <1>3 DEF RowGap, SpotGap
<1>5. RowGap' = RowGap /\ SpotGap' = SpotGap
  BY <1>1, <1>2, <1>4 DEF RowGap, SpotGap
<1> QED
  BY <1>5 DEF HedgeMoves, Resumes

LEMMA HedgeStepMoves ==
  ASSUME RunInv, HedgeStep \/ UnwindTimesOut
  PROVE  HedgeMoves /\ RowGap' = RowGap /\ SpotGap' = SpotGap
<1>0. t \in Task /\ vPerp \in Int /\ vSpot \in Int /\ dbPerp \in Int /\ dbSpot \in Int
  BY DEF RunInv, EntryTypeOK
<1>1. /\ t.unhedged \in Int /\ t.need \in Int /\ t.naked \in Int /\ t.fill \in Int
  BY <1>0 DEF Task
<1> DEFINE Goal == HedgeMoves /\ RowGap' = RowGap /\ SpotGap' = SpotGap
<1>2. ASSUME Resumes(t'), UNCHANGED <<venue, db, runs, room>>,
             t.pc \in {"hedge", "buy", "unwind"}
      PROVE  Goal
  <2>1. /\ dbPerp' = dbPerp - (IF t.pc = "unwound" THEN t.fill ELSE 0)
        /\ dbSpot' = dbSpot + (IF t.pc = "bought" THEN t.fill ELSE 0)
    BY <1>0, <1>2 DEF db
  <2> QED
    BY <1>2, <2>1, ResumesMoves DEF venue, db
<1>3. CASE NothingToHedge
  <2>1. t.pc = "hedge" /\ t' = [t EXCEPT !.pc = AfterHedge] /\ UNCHANGED <<venue, db, runs, room>>
    BY <1>3 DEF NothingToHedge
  <2>2. /\ t'.pc = AfterHedge /\ t'.oid = t.oid /\ t'.seen = t.seen
        /\ t'.force = t.force /\ t'.remaining = t.remaining
        /\ t'.unhedged = t.unhedged
    BY <1>0, <2>1 DEF Task
  <2>3. t.force => t.unhedged <= 0
    BY <1>3 DEF NothingToHedge
  <2>4. Resumes(t')
    BY <2>2, <2>3, AfterHedgeResumes DEF Resumes
  <2> QED
    BY <1>2, <2>1, <2>4
<1>4. CASE HedgeAll
  BY <1>0, <1>1, <1>2, <1>4, HedgingResumes DEF HedgeAll, ToHedge
<1>5. ASSUME NEW salvage \in 0..Target, HedgePart(salvage) PROVE Goal
  <2>0. salvage \in Int
    BY EntryAssumption
  <2>1. t.pc = "hedge" /\ UNCHANGED <<venue, db, runs, room>>
    BY <1>5 DEF HedgePart, ToHedge
  <2>2. CASE salvage = t.unhedged
    BY <1>0, <1>2, <1>5, <2>0, <2>1, <2>2, HedgingResumes DEF HedgePart
  <2>3. CASE salvage # t.unhedged
    <3> DEFINE ab == IF salvage = 0 THEN TRUE ELSE t.aborted
    <3>1. t' = [t EXCEPT !.pc = "unwind", !.naked = t.unhedged - salvage,
                         !.unhedged = salvage, !.aborted = ab]
      BY <1>5, <2>3 DEF HedgePart
    <3> HIDE DEF ab
    <3>2. t'.pc = "unwind" /\ t'.oid = t.oid /\ t'.seen = t.seen
          /\ t'.force = t.force /\ t'.remaining = t.remaining
      BY <1>0, <3>1 DEF Task
    <3>3. Resumes(t')
      BY <3>2 DEF Resumes
    <3> QED
      BY <1>2, <2>1, <3>3
  <2> QED
    BY <2>2, <2>3
<1>6. ASSUME NEW k \in 0..Target, BuySpot(k) PROVE Goal
  <2>1. /\ k \in Int /\ t.pc = "buy" /\ vSpot' = vSpot + k
        /\ t' = [t EXCEPT !.pc = "bought", !.fill = k]
        /\ UNCHANGED <<ost, oqty, exec, placed, vPerp, db, runs, room>>
    BY <1>6, EntryAssumption DEF BuySpot
  <2>2. /\ t'.pc = "bought" /\ t'.fill = k /\ t'.oid = t.oid /\ t'.seen = t.seen
        /\ t'.force = t.force /\ t'.remaining = t.remaining
    BY <1>0, <2>1 DEF Task
  <2>3. HedgeMoves
    BY <2>1, <2>2 DEF HedgeMoves, db
  <2>4. RowGap' = (vPerp + 0) - dbPerp /\ RowGap = (vPerp + 0) - dbPerp
    BY <2>1, <2>2 DEF RowGap, db
  <2>5. SpotGap' = ((vSpot + k) - k) - dbSpot /\ SpotGap = (vSpot - 0) - dbSpot
    BY <2>1, <2>2 DEF SpotGap, db
  <2>6. (vSpot + k) - k = vSpot - 0
    BY <1>0, <2>1
  <2> QED
    BY <2>3, <2>4, <2>5, <2>6
<1>7. CASE SpotBought
  <2>1. /\ t.pc = "bought" /\ dbSpot' = dbSpot + t.fill /\ t' = AfterAttempt(t.need - t.fill)
        /\ UNCHANGED <<venue, state, dbPerp, runs, room>>
    BY <1>7 DEF SpotBought
  <2>2. t.need - t.fill \in Int
    BY <1>1
  <2>3. Resumes(t')
    BY <1>0, <2>1, <2>2, AfterAttemptResumes
  <2>4. dbPerp' = dbPerp - (IF t.pc = "unwound" THEN t.fill ELSE 0)
    BY <1>0, <2>1
  <2> QED
    BY <2>1, <2>3, <2>4, ResumesMoves DEF venue
<1>8. CASE SpotRejected
  <2>1. /\ t.pc = "buy" /\ t' = AfterAttempt(t.need) /\ UNCHANGED <<venue, db, runs, room>>
    BY <1>8 DEF SpotRejected
  <2> QED
    BY <1>0, <1>1, <1>2, <2>1, AfterAttemptResumes
<1>9. ASSUME NEW k \in 0..Target, BuyBack(k) PROVE Goal
  <2>1. /\ k \in Int /\ t.pc = "unwind" /\ vPerp' = vPerp - k
        /\ t' = [t EXCEPT !.pc = "unwound", !.fill = k]
        /\ UNCHANGED <<ost, oqty, exec, placed, vSpot, db, runs, room>>
    BY <1>9, EntryAssumption DEF BuyBack
  <2>2. /\ t'.pc = "unwound" /\ t'.fill = k /\ t'.oid = t.oid /\ t'.seen = t.seen
        /\ t'.force = t.force /\ t'.remaining = t.remaining
    BY <1>0, <2>1 DEF Task
  <2>3. HedgeMoves
    BY <2>1, <2>2 DEF HedgeMoves, db
  <2>4. RowGap' = ((vPerp - k) + k) - dbPerp /\ RowGap = (vPerp + 0) - dbPerp
    BY <2>1, <2>2 DEF RowGap, db
  <2>5. SpotGap' = (vSpot - 0) - dbSpot /\ SpotGap = (vSpot - 0) - dbSpot
    BY <2>1, <2>2 DEF SpotGap, db
  <2>6. (vPerp - k) + k = vPerp + 0
    BY <1>0, <2>1
  <2> QED
    BY <2>3, <2>4, <2>5, <2>6
<1>10. CASE BoughtBack
  <2>1. /\ t.pc = "unwound" /\ dbPerp' = dbPerp - t.fill
        /\ UNCHANGED <<venue, state, dbSpot, runs, room>>
    BY <1>10 DEF BoughtBack
  <2>2. dbSpot' = dbSpot + (IF t.pc = "bought" THEN t.fill ELSE 0)
    BY <1>0, <2>1
  <2>3. Resumes(t')
    <3>1. CASE t.fill = t.naked
      <4>1. t' = [Unwound EXCEPT !.fill = 0]
        BY <1>10, <3>1 DEF BoughtBack
      <4>2. Unwound \in Task
        BY <1>0, UnwoundGoes DEF Goes
      <4>3. ASSUME NEW u \in Task
            PROVE  LET v == [u EXCEPT !.fill = 0]
                   IN  /\ v.pc = u.pc /\ v.unhedged = u.unhedged /\ v.force = u.force
                       /\ v.remaining = u.remaining
                       /\ v.oid = u.oid /\ v.seen = u.seen
        BY DEF Task
      <4>4. /\ t'.pc = Unwound.pc /\ t'.unhedged = Unwound.unhedged
            /\ t'.remaining = Unwound.remaining
            /\ t'.force = Unwound.force /\ t'.oid = Unwound.oid /\ t'.seen = Unwound.seen
        BY <4>1, <4>2, <4>3
      <4>5. Resumes(Unwound)
        BY <1>0, UnwoundResumes
      <4> QED
        BY <4>4, <4>5 DEF Resumes
    <3>2. CASE t.fill # t.naked
      <4>1. t' = [t EXCEPT !.pc = "unwind", !.naked = @ - t.fill, !.fill = 0]
        BY <1>10, <3>2 DEF BoughtBack
      <4>2. t'.pc = "unwind" /\ t'.oid = t.oid /\ t'.seen = t.seen
            /\ t'.force = t.force /\ t'.remaining = t.remaining
        BY <1>0, <4>1 DEF Task
      <4> QED
        BY <4>2 DEF Resumes
    <3> QED
      BY <3>1, <3>2
  <2>4. dbPerp' = dbPerp - (IF t.pc = "unwound" THEN t.fill ELSE 0)
    BY <2>1
  <2> QED
    BY <2>1, <2>2, <2>3, <2>4, ResumesMoves DEF venue
<1>11. CASE UnwindTimesOut
  BY <1>0, <1>2, <1>11, UnwoundResumes DEF UnwindTimesOut
<1> QED
  BY <1>3, <1>4, <1>5, <1>6, <1>7, <1>8, <1>9, <1>10, <1>11 DEF HedgeStep

LEMMA AmbiguousMoves ==
  ASSUME RunInv, SpotAmbiguous \/ BuyBackAmbiguous PROVE HedgeMoves
<1>0. t \in Task
  BY DEF RunInv, EntryTypeOK
<1>1. CASE SpotAmbiguous
  <2>1. /\ t.pc = "bought" /\ UNCHANGED <<venue, db, runs, room>>
        /\ t' = [t EXCEPT !.pc = AfterHedge, !.unhedged = 0, !.need = 0, !.fill = 0]
    BY <1>1 DEF SpotAmbiguous
  <2>2. /\ t'.pc = AfterHedge /\ t'.oid = t.oid /\ t'.seen = t.seen
        /\ t'.force = t.force /\ t'.remaining = t.remaining
        /\ t'.unhedged = 0
    BY <1>0, <2>1 DEF Task
  <2> QED
    BY <2>1, <2>2, AfterHedgeResumes DEF HedgeMoves, venue, db
<1>2. CASE BuyBackAmbiguous
  <2>1. /\ t.pc = "unwound" /\ UNCHANGED <<venue, db, runs, room>>
        /\ t' = [t EXCEPT !.pc = "unwind", !.fill = 0]
    BY <1>2 DEF BuyBackAmbiguous
  <2>2. t'.pc = "unwind" /\ t'.oid = t.oid /\ t'.seen = t.seen
        /\ t'.force = t.force /\ t'.remaining = t.remaining
    BY <1>0, <2>1 DEF Task
  <2> QED
    BY <2>1, <2>2 DEF HedgeMoves, venue, db
<1> QED
  BY <1>1, <1>2

\* A look at the order in hand books what the run had not seen of it, and lets
\* go of it when it can fill no more.
LEMMA PollMoves ==
  ASSUME RunInv, (\E reprice \in BOOLEAN : Poll(reprice)) \/ ReadCancelled
  PROVE  /\ t.pc \in {"top", "cancelled"} /\ t.oid \in Order /\ t.oid # 0
         /\ t'.pc \in {"cancel", "hedge"}
         /\ t'.pc = "cancel" => t'.oid = t.oid
         /\ \/ t'.oid = t.oid /\ t.pc = "top"
            \/ t'.oid = 0 /\ (ost[t.oid] # "open" \/ t.pc = "cancelled")
         /\ t'.seen = exec[t.oid] /\ t'.force = t.force
         /\ t'.unhedged = t.unhedged + NewlySeen
         /\ t'.remaining = t.remaining - NewlySeen
         /\ dbPerp' = dbPerp + NewlySeen
         /\ UNCHANGED <<venue, state, dbSpot, runs, room, warned>>
<1>0. t \in Task /\ exec \in [Order -> Nat] /\ t.oid \in Order \cup {0}
  BY DEF RunInv, EntryTypeOK, Task
<1>1. t.oid # 0 /\ t.pc \in {"top", "cancelled"}
  BY DEF Poll, ReadCancelled, RunInv, HandTaken
<1>2. /\ dbPerp' = dbPerp + NewlySeen
      /\ UNCHANGED <<venue, state, dbSpot, runs, room, warned>>
  BY DEF Poll, ReadCancelled, BookFill
<1>3. /\ Absorbed \in Task /\ Absorbed.oid = t.oid /\ Absorbed.seen = exec[t.oid]
      /\ Absorbed.force = t.force /\ Absorbed.unhedged = t.unhedged + NewlySeen
      /\ Absorbed.remaining = t.remaining - NewlySeen
  BY <1>0, <1>1, AbsorbedType DEF Absorbed, Task
<1>4. ASSUME NEW p, t' = [Absorbed EXCEPT !.pc = p]
      PROVE  /\ t'.pc = p /\ t'.oid = t.oid /\ t'.seen = exec[t.oid] /\ t'.force = t.force
             /\ t'.unhedged = t.unhedged + NewlySeen
             /\ t'.remaining = t.remaining - NewlySeen
  BY <1>3, <1>4 DEF Task
<1>5. ASSUME t' = [Absorbed EXCEPT !.pc = "hedge", !.oid = 0]
      PROVE  /\ t'.pc = "hedge" /\ t'.oid = 0 /\ t'.seen = exec[t.oid] /\ t'.force = t.force
             /\ t'.unhedged = t.unhedged + NewlySeen
             /\ t'.remaining = t.remaining - NewlySeen
  BY <1>3, <1>5 DEF Task
<1> HIDE DEF NewlySeen
<1>6. ASSUME NEW reprice \in BOOLEAN, Poll(reprice)
      PROVE  /\ t.pc = "top"
             /\ \/ t' = [Absorbed EXCEPT !.pc = IF reprice THEN "cancel" ELSE "hedge"]
                \/ ost[t.oid] # "open" /\ t' = [Absorbed EXCEPT !.pc = "hedge", !.oid = 0]
  BY <1>6 DEF Poll
<1>7. CASE ReadCancelled
  <2>1. t.pc = "cancelled" /\ t' = [Absorbed EXCEPT !.pc = "hedge", !.oid = 0]
    BY <1>7 DEF ReadCancelled
  <2> QED
    BY <1>0, <1>1, <1>2, <1>5, <2>1
<1>8. ASSUME NEW reprice \in BOOLEAN, Poll(reprice)
      PROVE  /\ t'.pc \in {"cancel", "hedge"}
             /\ t'.pc = "cancel" => t'.oid = t.oid
             /\ \/ t'.oid = t.oid /\ t.pc = "top"
                \/ t'.oid = 0 /\ (ost[t.oid] # "open" \/ t.pc = "cancelled")
             /\ t'.seen = exec[t.oid] /\ t'.force = t.force
             /\ t'.unhedged = t.unhedged + NewlySeen
             /\ t'.remaining = t.remaining - NewlySeen
  <2>1. CASE t' = [Absorbed EXCEPT !.pc = IF reprice THEN "cancel" ELSE "hedge"]
    <3> DEFINE p == IF reprice THEN "cancel" ELSE "hedge"
    <3>1. p \in {"cancel", "hedge"} /\ t' = [Absorbed EXCEPT !.pc = p]
      BY <2>1
    <3> HIDE DEF p
    <3>2. t.pc = "top"
      BY <1>6, <1>8
    <3> QED
      BY <1>4, <3>1, <3>2
  <2>2. CASE ost[t.oid] # "open" /\ t' = [Absorbed EXCEPT !.pc = "hedge", !.oid = 0]
    BY <1>5, <2>2
  <2> QED
    BY <1>6, <1>8, <2>1, <2>2
<1> QED
  BY <1>0, <1>1, <1>2, <1>7, <1>8

\* The steps of the loop that look at no order but the one they place.
LoopMoves ==
    \/ /\ AskToStop
       /\ UNCHANGED <<venue, state, dbPerp, dbSpot, runs, room, warned, t>>
    \/ /\ t.pc = "top" /\ t'.pc \in {"cancel", "hedge"}
       /\ t'.pc = "cancel" => t.oid # 0
       /\ t'.pc = "hedge" => t.oid = 0
       /\ t'.oid = t.oid /\ t'.seen = t.seen /\ t'.unhedged = t.unhedged
       /\ t'.remaining = t.remaining /\ t'.force \in BOOLEAN
       /\ UNCHANGED <<venue, state, dbPerp, dbSpot, runs, room, warned>>

LEMMA LeaveOrRestMoves ==
  ASSUME RunInv, AskToStop \/ LeaveLoop \/ RestNothing PROVE LoopMoves
<1>0. t \in Task
  BY DEF RunInv, EntryTypeOK
<1>1. CASE AskToStop
  BY <1>1 DEF AskToStop, LoopMoves, venue, db
<1>2. CASE LeaveLoop
  <2> DEFINE p == IF t.oid # 0 THEN "cancel" ELSE "hedge"
  <2>1. /\ t.pc = "top" /\ t' = [t EXCEPT !.pc = p, !.force = TRUE]
        /\ UNCHANGED <<venue, state, dbPerp, dbSpot, runs, room, warned>>
    BY <1>2 DEF LeaveLoop, db
  <2>2. p \in {"cancel", "hedge"} /\ (p = "cancel" => t.oid # 0) /\ (p = "hedge" => t.oid = 0)
    OBVIOUS
  <2> HIDE DEF p
  <2>3. /\ t'.pc = p /\ t'.oid = t.oid /\ t'.seen = t.seen /\ t'.unhedged = t.unhedged
        /\ t'.remaining = t.remaining /\ t'.force = TRUE
    BY <1>0, <2>1 DEF Task
  <2> QED
    BY <2>1, <2>2, <2>3 DEF LoopMoves
<1>3. CASE RestNothing
  <2>1. /\ t.pc = "top" /\ t.oid = 0 /\ t' = [t EXCEPT !.pc = "hedge"]
        /\ UNCHANGED <<venue, state, dbPerp, dbSpot, runs, room, warned>>
    BY <1>3 DEF RestNothing, db
  <2>2. /\ t'.pc = "hedge" /\ t'.oid = t.oid /\ t'.seen = t.seen
        /\ t'.unhedged = t.unhedged /\ t'.force = t.force /\ t.force \in BOOLEAN
        /\ t'.remaining = t.remaining
    BY <1>0, <2>1 DEF Task
  <2> QED
    BY <2>1, <2>2 DEF LoopMoves
<1> QED
  BY <1>1, <1>2, <1>3

\* A request on its way, and what its reply makes of it.
LEMMA PlaceMoves ==
  ASSUME RunInv, NEW q \in 1..Target, Place(q)
  PROVE  /\ t.pc = "top" /\ t.oid = 0
         /\ placed' = placed + 1 /\ placed' \in Order /\ ost[placed'] = "none"
         /\ exec[placed'] = 0
         /\ ost' = [ost EXCEPT ![placed'] = "sent"]
         /\ intent' = [intent EXCEPT ![placed'] = "pending"]
         /\ t'.pc = "placing" /\ t'.oid = 0 /\ t'.force = t.force
         /\ t'.unhedged = t.unhedged /\ t'.remaining = t.remaining
         /\ q <= t.remaining /\ oqty' = [oqty EXCEPT ![placed'] = q]
         /\ UNCHANGED <<exec, vPerp, vSpot, state, dbPerp, dbSpot, runs, room, warned>>
<1>0. t \in Task /\ placed \in Nat
  BY DEF RunInv, EntryTypeOK
<1>1. /\ t.pc = "top" /\ t.oid = 0 /\ placed < MaxOrders /\ placed' = placed + 1
      /\ ost' = [ost EXCEPT ![placed'] = "sent"] /\ t' = [t EXCEPT !.pc = "placing"]
      /\ intent' = [intent EXCEPT ![placed'] = "pending"]
      /\ q <= t.remaining /\ oqty' = [oqty EXCEPT ![placed'] = q]
      /\ UNCHANGED <<exec, vPerp, vSpot, state, dbPerp, dbSpot, runs, room, warned>>
  BY DEF Place
<1>2. placed' \in Order /\ placed' > placed
  BY <1>0, <1>1, EntryAssumption, SMTT(30) DEF Order
<1>3. exec[placed'] = 0 /\ ost[placed'] = "none"
  BY <1>2 DEF RunInv, OrdersInTurn
<1>4. /\ t'.pc = "placing" /\ t'.oid = 0 /\ t'.force = t.force
      /\ t'.unhedged = t.unhedged /\ t'.remaining = t.remaining
  BY <1>0, <1>1 DEF Task
<1> QED
  BY <1>1, <1>2, <1>3, <1>4

LEMMA ReplyMoves ==
  ASSUME RunInv, PlaceReply
  PROVE  /\ t.pc = "placing" /\ placed \in Order
         /\ t'.pc = "hedge" /\ t'.force = t.force
         /\ t'.unhedged = t.unhedged /\ t'.remaining = t.remaining
         /\ \/ /\ t'.oid = placed /\ t'.seen = 0 /\ ost[placed] \in {"open", "filled"}
               /\ intent' = [intent EXCEPT ![placed] = "done"]
            \/ /\ t'.oid = 0 /\ ost[placed] = "rejected"
               /\ intent' = [intent EXCEPT ![placed] = "failed"]
            \/ /\ t'.oid = 0 /\ "place_ambiguous" \in Faults
               /\ intent' = [intent EXCEPT ![placed] = "ambiguous"]
         /\ UNCHANGED <<venue, state, dbPerp, dbSpot, runs, room, warned>>
<1>0. t \in Task /\ placed \in Nat
  BY DEF RunInv, EntryTypeOK
<1>1. t.pc = "placing"
  BY DEF PlaceReply, PlaceConfirmed, PlaceRejected, PlaceAmbiguous
<1>2. placed \in Order /\ placed # 0
  BY <1>0, <1>1, EntryAssumption DEF RunInv, OrdersInTurn, Order
<1>3. UNCHANGED <<venue, state, dbPerp, dbSpot, runs, room, warned>>
  BY DEF PlaceReply, PlaceConfirmed, PlaceRejected, PlaceAmbiguous, PlaceReplies
<1>4. ASSUME NEW status, NEW oid \in Order \cup {0}, PlaceReplies(status, oid)
      PROVE  /\ t'.pc = "hedge" /\ t'.oid = oid /\ t'.force = t.force
             /\ t'.unhedged = t.unhedged /\ t'.remaining = t.remaining
             /\ (oid # 0 => t'.seen = 0)
             /\ intent' = [intent EXCEPT ![placed] = status]
  <2> DEFINE s == IF oid # 0 THEN 0 ELSE t.seen
  <2>1. /\ t' = [t EXCEPT !.pc = "hedge", !.oid = oid, !.seen = s]
        /\ intent' = [intent EXCEPT ![placed] = status]
    BY <1>4 DEF PlaceReplies
  <2>2. oid # 0 => s = 0
    OBVIOUS
  <2> HIDE DEF s
  <2> QED
    BY <1>0, <2>1, <2>2 DEF Task
<1>5. CASE PlaceConfirmed
  <2>1. PlaceReplies("done", placed) /\ ost[placed] \in {"open", "filled"}
    BY <1>5 DEF PlaceConfirmed
  <2> QED
    BY <1>1, <1>2, <1>3, <1>4, <2>1
<1>6. CASE PlaceRejected
  <2>1. PlaceReplies("failed", 0) /\ ost[placed] = "rejected"
    BY <1>6 DEF PlaceRejected
  <2> QED
    BY <1>1, <1>2, <1>3, <1>4, <2>1
<1>7. CASE PlaceAmbiguous
  <2>1. PlaceReplies("ambiguous", 0) /\ "place_ambiguous" \in Faults
    BY <1>7 DEF PlaceAmbiguous
  <2> QED
    BY <1>1, <1>2, <1>3, <1>4, <2>1
<1> QED
  BY <1>5, <1>6, <1>7 DEF PlaceReply

LEMMA CancelMoves ==
  ASSUME RunInv, CancelOrder
  PROVE  /\ t.pc = "cancel" /\ t'.pc = "cancelled" /\ t.oid \in Order /\ t.oid # 0
         /\ t'.oid = t.oid /\ t'.seen = t.seen /\ t'.force = t.force
         /\ t'.unhedged = t.unhedged /\ t'.remaining = t.remaining
         /\ \/ ost' = [ost EXCEPT ![t.oid] = IF @ = "open" THEN "cancelled" ELSE @]
            \/ "cancel_fails" \in Faults /\ ost' = ost
         /\ UNCHANGED <<oqty, exec, placed, vPerp, vSpot, db, runs, room, warned>>
<1>0. t \in Task /\ t.oid \in Order \cup {0}
  BY DEF RunInv, EntryTypeOK, Task
<1>1. t.pc = "cancel" /\ t' = [t EXCEPT !.pc = "cancelled"]
  BY DEF CancelOrder
<1>2. t.oid # 0
  BY <1>1 DEF RunInv, HandTaken
<1>3. /\ t'.pc = "cancelled" /\ t'.oid = t.oid /\ t'.seen = t.seen /\ t'.force = t.force
      /\ t'.unhedged = t.unhedged /\ t'.remaining = t.remaining
  BY <1>0, <1>1 DEF Task
<1> QED
  BY <1>0, <1>1, <1>2, <1>3 DEF CancelOrder

\* The venue answers a request, or fills an open order.
Answers(o) ==
    /\ ost[o] = "sent" /\ ost'[o] \in {"open", "rejected"}
    /\ exec' = exec /\ vPerp' = vPerp /\ room' = room

Fills(o, k) ==
    /\ ost[o] = "open" /\ ost'[o] \in {"open", "filled"}
    /\ exec'[o] = exec[o] + k /\ vPerp' = vPerp + k
    /\ room' = room - k /\ exec[o] + k <= oqty[o]

LEMMA VenueMoves ==
  ASSUME RunInv, VenueStep
  PROVE  /\ UNCHANGED <<oqty, placed, vSpot, db, t, runs, warned>>
         /\ \E o \in Order : /\ Answers(o) \/ (\E k \in Nat : Fills(o, k))
                             /\ \A p \in Order : p # o => ost'[p] = ost[p] /\ exec'[p] = exec[p]
<1>0. ost \in [Order -> OrderStates] /\ exec \in [Order -> Nat]
  BY DEF RunInv, EntryTypeOK
<1> DEFINE Other(o) == \A p \in Order : p # o => ost'[p] = ost[p] /\ exec'[p] = exec[p]
<1>1. ASSUME NEW o \in Order, VenueAccept(o) \/ VenueReject(o)
      PROVE  Answers(o) /\ Other(o)
  BY <1>0, <1>1 DEF VenueAccept, VenueReject, Answers
<1>2. ASSUME NEW o \in Order, NEW k \in 1..Target, VenueFill(o, k)
      PROVE  k \in Nat /\ Fills(o, k) /\ Other(o)
  <2>1. k \in Nat
    BY EntryAssumption
  <2>2. /\ ost[o] = "open" /\ exec' = [exec EXCEPT ![o] = @ + k] /\ vPerp' = vPerp + k
        /\ room' = room - k /\ exec[o] + k <= oqty[o]
        /\ ost' = [ost EXCEPT ![o] = IF exec[o] + k = oqty[o] THEN "filled" ELSE @]
    BY <1>2 DEF VenueFill
  <2> QED
    BY <1>0, <2>1, <2>2 DEF Fills
<1>3. UNCHANGED <<oqty, placed, vSpot, db, t, runs, warned>>
  BY DEF VenueStep, VenueAccept, VenueReject, VenueFill
<1>4. \E o \in Order : (Answers(o) \/ (\E k \in Nat : Fills(o, k))) /\ Other(o)
  BY <1>1, <1>2 DEF VenueStep
<1> QED
  BY <1>3, <1>4

\* The beginnings and the ends of a run.
Begins ==
    /\ t.pc = "idle" /\ state # "ENTERING" /\ state' = "ENTERING"
    /\ t'.pc = "top" /\ t'.oid = 0 /\ t'.force = FALSE /\ t'.unhedged = 0
    /\ t'.remaining = Target /\ room' = room + Target
    /\ warned' = warned

BeginsNot ==
    /\ t.pc = "idle" /\ t' = t /\ state # "ENTERING" /\ state' # "ENTERING"
    /\ room' = room /\ warned' = warned

Ends ==
    /\ t.pc = "finish" /\ t' = Idle /\ state' # "ENTERING" /\ room' = room
    /\ warned' = TRUE \/ warned' = warned

Dies ==
    /\ t.pc \in {"top", "cancelled"} /\ t' = Idle
    /\ UNCHANGED <<state, warned, room>>

LEMMA RunMoves ==
  ASSUME RunInv, StartRun \/ StartWithoutQuotes \/ EndAdd \/ EndRun \/ TaskDies
  PROVE  /\ Begins \/ BeginsNot \/ Ends \/ Dies
         /\ UNCHANGED <<venue, dbPerp, dbSpot, intent>>
<1>1. CASE StartRun
  <2> DEFINE add == (state = "OPEN")
             u == [Idle EXCEPT !.pc = "top", !.remaining = Target, !.isAdd = add,
                               !.prePerp = dbPerp]
  <2>1. /\ t' = u /\ t.pc = "idle" /\ state # "ENTERING" /\ state' = "ENTERING"
        /\ room' = room + Target
        /\ UNCHANGED <<venue, dbPerp, dbSpot, intent, warned>>
    BY <1>1 DEF StartRun
  <2> HIDE DEF add
  <2>2. /\ u.pc = "top" /\ u.oid = 0 /\ u.force = FALSE /\ u.unhedged = 0
        /\ u.remaining = Target
    BY DEF Idle
  <2> HIDE DEF u
  <2> QED
    BY <2>1, <2>2 DEF Begins
<1>2. CASE StartWithoutQuotes
  BY <1>2 DEF StartWithoutQuotes, BeginsNot
<1>3. CASE EndAdd
  BY <1>3 DEF EndAdd, EndWith, Ends
<1>4. CASE EndRun
  BY <1>4 DEF EndRun, EndWith, Ends
<1>5. CASE TaskDies
  BY <1>5 DEF TaskDies, Dies, db
<1> QED
  BY <1>1, <1>2, <1>3, <1>4, <1>5

-------------------------------------------------------------------------------
\* The order in hand and where the run is, under every fault.
LEMMA HandInvInit == EntryInit => HandInv
  BY DEF EntryInit, HandInv, Idle

LEMMA HandInvStep ==
  ASSUME RunInv, HandInv, VenueStep \/ EngineStep PROVE HandInv'
<1>0. /\ t \in Task /\ t.force \in BOOLEAN /\ exec \in [Order -> Nat]
      /\ ost \in [Order -> OrderStates] /\ t.unhedged \in Int
  BY DEF RunInv, EntryTypeOK, Task
<1>1. CASE VenueStep
  <2>1. UNCHANGED <<t, state>>
    BY <1>1, VenueMoves DEF db
  <2>2. \A p \in Order : ost'[p] \in {"none", "sent", "rejected"} => exec'[p] = 0
    BY <1>0, <1>1, VenueMoves DEF HandInv, Answers, Fills
  <2> QED
    BY <2>1, <2>2 DEF HandInv
<1>2. CASE HedgeStep \/ UnwindTimesOut \/ SpotAmbiguous \/ BuyBackAmbiguous
  <2>1. HedgeMoves
    BY <1>2, HedgeStepMoves, AmbiguousMoves
  <2> QED
    BY <2>1 DEF HandInv, HedgeMoves
<1>3. CASE AskToStop \/ LeaveLoop \/ RestNothing
  BY <1>0, <1>3, LeaveOrRestMoves DEF LoopMoves, HandInv, venue
<1>4. ASSUME NEW q \in 1..Target, Place(q) PROVE HandInv'
  <2>1. \A p \in Order : ost'[p] \in {"none", "sent", "rejected"} => exec'[p] = 0
    BY <1>0, <1>4, PlaceMoves DEF HandInv
  <2> QED
    BY <1>4, <2>1, PlaceMoves DEF HandInv
<1>5. CASE PlaceReply
  BY <1>5, ReplyMoves DEF HandInv, venue
<1>6. CASE (\E reprice \in BOOLEAN : Poll(reprice)) \/ ReadCancelled
  BY <1>6, PollMoves DEF HandInv, venue
<1>7. CASE CancelOrder
  <2>1. \A p \in Order : ost'[p] \in {"none", "sent", "rejected"} => exec'[p] = 0
    BY <1>0, <1>7, CancelMoves DEF HandInv
  <2> QED
    BY <1>7, <2>1, CancelMoves DEF HandInv, db
<1>8. CASE StartRun \/ StartWithoutQuotes \/ EndAdd \/ EndRun \/ TaskDies
  <2>1. UNCHANGED <<ost, exec>> /\ (Begins \/ BeginsNot \/ Ends \/ Dies)
    BY <1>8, RunMoves DEF venue
  <2>2. Idle.pc = "idle" /\ Idle.oid = 0 /\ Idle.force = FALSE
    BY DEF Idle
  <2> QED
    BY <2>1, <2>2 DEF HandInv, Begins, BeginsNot, Ends, Dies
<1> QED
  BY <1>1, <1>2, <1>3, <1>4, <1>5, <1>6, <1>7, <1>8
  DEF EngineStep, TaskStep, LoopStep, FaultStep
-------------------------------------------------------------------------------
\* Only the order in hand can fill, unless nobody is left to mind it.  A place
\* request or a cancellation of unknown outcome would break this.
Tended ==
    /\ \A o \in Order : OrderLive(o) => o = Hand \/ Dead
    /\ \A o \in Order : ost[o] = "sent" => t.pc = "placing" \/ Dead
    /\ t.pc = "cancelled" => ost[t.oid] # "open"

LEMMA OrderPositive == 0 \notin Order
  BY DEF Order

LEMMA TendedInit == EntryInit => Tended
  BY DEF EntryInit, Tended, OrderLive, Idle

LEMMA TendedStep ==
  ASSUME "place_ambiguous" \notin Faults, "cancel_fails" \notin Faults,
         RunInv, HandInv, Tended, VenueStep \/ EngineStep
  PROVE  Tended'
<1>0. /\ t \in Task /\ ost \in [Order -> OrderStates] /\ t.oid \in Order \cup {0}
  BY DEF RunInv, EntryTypeOK, Task
<1>1. CASE VenueStep
  <2>1. UNCHANGED <<t, state, placed>>
    BY <1>1, VenueMoves DEF db
  <2>2. \A p \in Order : /\ OrderLive(p)' => OrderLive(p)
                         /\ ost'[p] = "sent" => ost[p] = "sent"
                         /\ ost'[p] = "open" => ost[p] = "open" \/ ost[p] = "sent"
    BY <1>1, VenueMoves DEF OrderLive, Answers, Fills
  <2>3. t.pc = "cancelled" => t.oid \in Order
    BY <1>0 DEF RunInv, HandTaken
  <2>4. Hand' = Hand /\ Dead' = Dead
    BY <2>1 DEF Hand, Dead
  <2>5. t.pc = "cancelled" => ost'[t.oid] # "open"
    BY <2>2, <2>3 DEF Tended, Dead
  <2> QED
    BY <2>1, <2>2, <2>4, <2>5 DEF Tended
<1>2. CASE HedgeStep \/ UnwindTimesOut \/ SpotAmbiguous \/ BuyBackAmbiguous
  <2>1. HedgeMoves
    BY <1>2, HedgeStepMoves, AmbiguousMoves
  <2>2. Hand' = Hand /\ ~Dead /\ ~Dead' /\ t'.pc # "cancelled" /\ t.pc # "placing"
    BY <2>1 DEF HedgeMoves, Hand, Dead
  <2> QED
    BY <2>1, <2>2 DEF Tended, HedgeMoves, OrderLive
<1>3. CASE AskToStop \/ LeaveLoop \/ RestNothing
  <2>1. CASE UNCHANGED <<venue, state, dbPerp, dbSpot, runs, room, warned, t>>
    BY <2>1 DEF Tended, Hand, Dead, OrderLive, venue
  <2>2. CASE ~(UNCHANGED <<venue, state, dbPerp, dbSpot, runs, room, warned, t>>)
    <3>1. /\ t.pc = "top" /\ t'.pc \in {"cancel", "hedge"} /\ t'.oid = t.oid /\ UNCHANGED venue
      BY <1>3, <2>2, LeaveOrRestMoves DEF LoopMoves
    <3>2. Hand' = Hand /\ ~Dead /\ ~Dead'
      BY <3>1 DEF Hand, Dead
    <3> QED
      BY <3>1, <3>2 DEF Tended, OrderLive, venue
  <2> QED
    BY <2>1, <2>2
<1>4. ASSUME NEW q \in 1..Target, Place(q) PROVE Tended'
  <2>1. Hand = 0 /\ ~Dead /\ Hand' = placed' /\ t.pc = "top" /\ t'.pc = "placing"
    BY <1>4, PlaceMoves DEF Hand, Dead
  <2>2. \A p \in Order : ~OrderLive(p)
    BY <2>1, OrderPositive DEF Tended
  <2>3. \A p \in Order : OrderLive(p)' => p = placed'
    BY <1>0, <1>4, <2>2, PlaceMoves DEF OrderLive
  <2>4. \A p \in Order : ost'[p] = "sent" => t'.pc = "placing"
    BY <2>1
  <2> QED
    BY <2>1, <2>3, <2>4 DEF Tended
<1>5. CASE PlaceReply
  <2>1. Hand = placed /\ ~Dead /\ ~Dead' /\ Hand' = t'.oid /\ t'.pc = "hedge"
    BY <1>5, ReplyMoves DEF Hand, Dead
  <2>2. UNCHANGED ost /\ (t'.oid = placed \/ ost[placed] = "rejected") /\ ost[placed] # "sent"
    BY <1>5, ReplyMoves DEF venue
  <2>3. \A p \in Order : OrderLive(p) => p = placed
    BY <2>1 DEF Tended
  <2>4. \A p \in Order : OrderLive(p)' => p = Hand'
    BY <2>1, <2>2, <2>3 DEF OrderLive
  <2>5. \A p \in Order : ost'[p] # "sent"
    BY <2>2, <2>3 DEF OrderLive
  <2> QED
    BY <2>1, <2>4, <2>5 DEF Tended
<1>6. CASE (\E reprice \in BOOLEAN : Poll(reprice)) \/ ReadCancelled
  <2>1. /\ t.pc \in {"top", "cancelled"} /\ t'.pc \in {"cancel", "hedge"} /\ UNCHANGED ost
        /\ t.oid \in Order
        /\ \/ t'.oid = t.oid
           \/ t'.oid = 0 /\ (ost[t.oid] # "open" \/ t.pc = "cancelled")
    BY <1>6, PollMoves DEF venue
  <2>2. Hand = t.oid /\ Hand' = t'.oid /\ ~Dead /\ ~Dead'
    BY <2>1 DEF Hand, Dead
  <2>3. \A p \in Order : ost[p] # "sent" /\ (ost[p] = "open" => p = t.oid)
    BY <2>1, <2>2 DEF Tended, OrderLive
  <2>4. t'.oid = t.oid \/ ost[t.oid] # "open"
    BY <2>1 DEF Tended
  <2> QED
    BY <2>1, <2>2, <2>3, <2>4 DEF Tended, OrderLive
<1>7. CASE CancelOrder
  <2>1. /\ t.pc = "cancel" /\ t'.pc = "cancelled" /\ t.oid \in Order /\ t'.oid = t.oid
        /\ ost' = [ost EXCEPT ![t.oid] = IF @ = "open" THEN "cancelled" ELSE @]
    BY <1>7, CancelMoves
  <2>2. Hand' = Hand /\ ~Dead
    BY <2>1 DEF Hand, Dead
  <2>3. /\ ost'[t.oid] # "open"
        /\ \A p \in Order : /\ OrderLive(p)' => OrderLive(p)
                            /\ ost'[p] = "sent" => ost[p] = "sent"
    BY <1>0, <2>1 DEF OrderLive
  <2> QED
    BY <2>1, <2>2, <2>3 DEF Tended
<1>8. CASE StartRun \/ StartWithoutQuotes \/ EndAdd \/ EndRun \/ TaskDies
  <2>1. UNCHANGED <<ost, placed>> /\ (Begins \/ BeginsNot \/ Ends \/ Dies)
    BY <1>8, RunMoves DEF venue
  <2>2. Idle.pc = "idle" /\ Idle.oid = 0
    BY DEF Idle
  <2>3. CASE Dies
    <3>1. Dead' /\ t'.pc = "idle"
      BY <2>2, <2>3 DEF Dies, Dead, HandInv
    <3> QED
      BY <2>1, <3>1 DEF Tended
  <2>4. CASE Begins \/ BeginsNot \/ Ends
    <3>1. Hand = 0 /\ ~Dead /\ t.pc # "placing"
      BY <2>4 DEF Hand, Dead, HandInv, Begins, BeginsNot, Ends
    <3>2. \A p \in Order : ~OrderLive(p)
      BY <3>1, OrderPositive DEF Tended
    <3>3. t'.pc # "cancelled"
      BY <2>2, <2>4 DEF Begins, BeginsNot, Ends
    <3> QED
      BY <2>1, <3>2, <3>3 DEF Tended, OrderLive
  <2> QED
    BY <2>1, <2>3, <2>4
<1> QED
  BY <1>1, <1>2, <1>3, <1>4, <1>5, <1>6, <1>7, <1>8
  DEF EngineStep, TaskStep, LoopStep, FaultStep
-------------------------------------------------------------------------------
\* A fill is of the order in hand, so it is unseen.
LEMMA FillIsUnseen ==
  ASSUME RunInv, Tended, VenueStep, ~Dead
  PROVE  \E k \in Nat : vPerp' = vPerp + k /\ Unseen' = Unseen + k
<1>0. /\ t \in Task /\ vPerp \in Int /\ exec \in [Order -> Nat] /\ t.seen \in Nat
      /\ t.oid \in Order \cup {0}
  BY DEF RunInv, EntryTypeOK, Task
<1>1. UNCHANGED <<placed, t>>
  BY VenueMoves
<1>2. PICK o \in Order : /\ Answers(o) \/ (\E k \in Nat : Fills(o, k))
                         /\ \A p \in Order : p # o => ost'[p] = ost[p] /\ exec'[p] = exec[p]
  BY VenueMoves
<1>3. CASE Answers(o)
  <2>1. Unseen' = Unseen /\ vPerp' = vPerp
    BY <1>1, <1>3 DEF Answers, Unseen
  <2>2. Unseen \in Int
    BY UnseenPositive
  <2>3. vPerp' = vPerp + 0 /\ Unseen' = Unseen + 0
    BY <1>0, <2>1, <2>2
  <2> QED
    BY <2>3, Zero
<1>4. CASE \E k \in Nat : Fills(o, k)
  <2>1. PICK k \in Nat : Fills(o, k)
    BY <1>4
  <2>2. o = Hand /\ exec'[o] = exec[o] + k /\ vPerp' = vPerp + k
    BY <2>1 DEF Fills, Tended, OrderLive
  <2>3. CASE t.pc = "placing"
    <3>1. Unseen = exec[o] /\ Unseen' = exec'[o]
      BY <1>1, <2>2, <2>3 DEF Unseen, Hand
    <3> QED
      BY <2>2, <3>1
  <2>4. CASE t.pc # "placing"
    <3>1. t.oid = o /\ t.oid # 0
      BY <2>2, <2>4, OrderPositive DEF Hand
    <3>2. Unseen = exec[o] - t.seen /\ Unseen' = exec'[o] - t.seen
      BY <1>1, <2>4, <3>1 DEF Unseen
    <3>3. (exec[o] + k) - t.seen = (exec[o] - t.seen) + k
      BY <1>0
    <3> QED
      BY <2>2, <3>2, <3>3
  <2> QED
    BY <2>3, <2>4
<1> QED
  BY <1>2, <1>3, <1>4

\* In the loop nothing is traded, and what was unseen becomes booked and owed.
LEMMA LoopTurns ==
  ASSUME "place_ambiguous" \notin Faults, RunInv, HandInv, RunInv',
         LeaveLoop \/ RestNothing \/ (\E q \in 1..Target : Place(q)) \/ PlaceReply
         \/ (\E reprice \in BOOLEAN : Poll(reprice)) \/ CancelOrder \/ ReadCancelled
  PROVE  /\ t.pc \in LoopPlaces /\ t'.pc \in LoopPlaces
         /\ UNCHANGED <<vPerp, vSpot, dbSpot, state, room, warned>>
         /\ dbPerp' + Unseen' = dbPerp + Unseen
         /\ t'.unhedged + Unseen' = t.unhedged + Unseen
         /\ t'.remaining - Unseen' = t.remaining - Unseen
<1>0. /\ t \in Task /\ dbPerp \in Int /\ exec \in [Order -> Nat] /\ t.unhedged \in Int
      /\ t.oid \in Order \cup {0} /\ t.seen \in Nat /\ Unseen \in Int
      /\ t.remaining \in Int
  BY UnseenPositive DEF RunInv, EntryTypeOK, Task
<1> DEFINE Goal == /\ t.pc \in LoopPlaces /\ t'.pc \in LoopPlaces
                   /\ UNCHANGED <<vPerp, vSpot, dbSpot, state, room, warned>>
                   /\ dbPerp' + Unseen' = dbPerp + Unseen
                   /\ t'.unhedged + Unseen' = t.unhedged + Unseen
                   /\ t'.remaining - Unseen' = t.remaining - Unseen
<1>1. CASE LeaveLoop \/ RestNothing
  <2>1. t.pc = "top" /\ t'.pc # "top"
    <3>1. "cancel" # "top" /\ "hedge" # "top"
      OBVIOUS
    <3>2. CASE LeaveLoop
      <4> DEFINE p == IF t.oid # 0 THEN "cancel" ELSE "hedge"
      <4>1. t' = [t EXCEPT !.pc = p, !.force = TRUE] /\ p # "top" /\ t.pc = "top"
        BY <3>2 DEF LeaveLoop
      <4> HIDE DEF p
      <4> QED
        BY <1>0, <4>1 DEF Task
    <3>3. CASE RestNothing
      BY <1>0, <3>3 DEF RestNothing, Task
    <3> QED
      BY <1>1, <3>2, <3>3
  <2>2. /\ t'.pc \in {"cancel", "hedge"} /\ t'.oid = t.oid /\ t'.seen = t.seen
        /\ t'.unhedged = t.unhedged /\ t'.remaining = t.remaining
        /\ UNCHANGED <<venue, state, dbPerp, dbSpot, room, warned>>
    BY <1>1, <2>1, LeaveOrRestMoves DEF LoopMoves
  <2>3. Unseen' = Unseen
    BY <2>1, <2>2 DEF Unseen, venue
  <2> QED
    BY <2>1, <2>2, <2>3 DEF LoopPlaces, venue
<1>2. ASSUME NEW q \in 1..Target, Place(q) PROVE Goal
  <2>1. Unseen = 0 /\ Unseen' = 0
    BY <1>2, PlaceMoves DEF Unseen
  <2> QED
    BY <1>2, <2>1, PlaceMoves DEF LoopPlaces
<1>3. CASE PlaceReply
  <2>1. /\ t.pc = "placing" /\ placed \in Order /\ t'.pc = "hedge"
        /\ t'.unhedged = t.unhedged /\ t'.remaining = t.remaining
        /\ UNCHANGED <<venue, state, dbPerp, dbSpot, room, warned>>
        /\ \/ t'.oid = placed /\ t'.seen = 0
           \/ t'.oid = 0 /\ ost[placed] = "rejected"
    BY <1>3, ReplyMoves
  <2>2. Unseen = exec[placed] /\ exec[placed] \in Nat
    BY <1>0, <2>1 DEF Unseen
  <2>3. CASE t'.oid = placed /\ t'.seen = 0
    <3>1. Unseen' = exec[placed] - 0
      BY <2>1, <2>3, OrderPositive DEF Unseen, venue
    <3>2. Unseen' = Unseen
      BY <2>2, <3>1
    <3> QED
      BY <2>1, <3>2 DEF LoopPlaces, venue
  <2>4. CASE t'.oid = 0 /\ ost[placed] = "rejected"
    <3>1. Unseen' = 0 /\ exec[placed] = 0
      BY <2>1, <2>4 DEF Unseen, HandInv
    <3> QED
      BY <2>1, <2>2, <3>1 DEF LoopPlaces, venue
  <2> QED
    BY <2>1, <2>3, <2>4
<1>4. CASE (\E reprice \in BOOLEAN : Poll(reprice)) \/ ReadCancelled
  <2>1. /\ t.pc \in {"top", "cancelled"} /\ t'.pc \in {"cancel", "hedge"} /\ t.oid \in Order
        /\ t.oid # 0 /\ t'.oid \in {t.oid, 0} /\ t'.seen = exec[t.oid]
        /\ t'.remaining = t.remaining - NewlySeen
        /\ t'.unhedged = t.unhedged + NewlySeen /\ dbPerp' = dbPerp + NewlySeen
        /\ UNCHANGED <<venue, state, dbSpot, room, warned>>
    BY <1>4, PollMoves
  <2>2. Unseen = NewlySeen
    BY <2>1 DEF Unseen, NewlySeen
  <2>3. Unseen' = 0
    <3>1. exec[t.oid] - exec[t.oid] = 0 /\ exec' = exec
      BY <1>0, <2>1 DEF venue
    <3> QED
      BY <2>1, <3>1 DEF Unseen
  <2> QED
    BY <1>0, <2>1, <2>2, <2>3 DEF LoopPlaces, venue
<1>5. CASE CancelOrder
  <2>1. /\ t.pc = "cancel" /\ t'.pc = "cancelled" /\ t'.oid = t.oid /\ t'.seen = t.seen
        /\ t'.unhedged = t.unhedged /\ t'.remaining = t.remaining
        /\ UNCHANGED <<exec, placed, vPerp, vSpot, db, room, warned>>
    BY <1>5, CancelMoves
  <2>2. Unseen' = Unseen
    BY <2>1 DEF Unseen
  <2> QED
    BY <2>1, <2>2 DEF LoopPlaces, db
<1> QED
  BY <1>1, <1>2, <1>3, <1>4, <1>5

-------------------------------------------------------------------------------
\* The rows lag the venues by what the run has not seen or not yet written.
RowsInv ==
    /\ ~Dead => RowGap = Unseen
    /\ SpotGap = 0

LEMMA RowsInvInit == EntryInit => RowsInv
<1> SUFFICES ASSUME EntryInit PROVE RowsInv
  OBVIOUS
<1>1. t.pc = "idle" /\ t.oid = 0 /\ dbPerp = vPerp /\ dbSpot = vSpot /\ vSpot = vPerp
      /\ vPerp \in Int
  BY EntryAssumption DEF EntryInit, Idle
<1> QED
  BY <1>1 DEF RowsInv, RowGap, SpotGap, Unseen

LEMMA RowsInvStep ==
  ASSUME "place_ambiguous" \notin Faults, "spot_ambiguous" \notin Faults,
         "unwind_ambiguous" \notin Faults,
         RunInv, HandInv, Tended, RowsInv, RunInv', VenueStep \/ EngineStep
  PROVE  RowsInv'
<1>0. /\ t \in Task /\ vPerp \in Int /\ vSpot \in Int /\ dbPerp \in Int /\ dbSpot \in Int
      /\ t.fill \in Int /\ Unseen \in Int
      /\ dbPerp' \in Int /\ Unseen' \in Int
  <2>1. Unseen' \in Int
    <3>1. /\ t' \in Task /\ exec' \in [Order -> Nat] /\ placed' \in Nat
      BY DEF RunInv, EntryTypeOK
    <3>2. t'.oid \in Order \cup {0} /\ t'.seen \in Nat
      BY <3>1 DEF Task
    <3>3. t'.pc = "placing" => placed' \in Order
      BY <3>1, EntryAssumption DEF RunInv, OrdersInTurn, Order
    <3> QED
      BY <3>1, <3>2, <3>3 DEF Unseen
  <2> QED
    BY <2>1, UnseenPositive DEF RunInv, EntryTypeOK, Task
<1>1. CASE VenueStep
  <2>1. UNCHANGED <<t, db, vSpot>> /\ Dead' = Dead
    BY <1>1, VenueMoves DEF Dead, db
  <2>2. SpotGap' = SpotGap
    BY <2>1 DEF SpotGap, db
  <2>3. CASE ~Dead
    <3>1. PICK k \in Nat : vPerp' = vPerp + k /\ Unseen' = Unseen + k
      BY <1>1, <2>3, FillIsUnseen
    <3> DEFINE f == IF t.pc = "unwound" THEN t.fill ELSE 0
    <3>2. f \in Int /\ RowGap = (vPerp + f) - dbPerp /\ RowGap' = (vPerp' + f) - dbPerp
      BY <1>0, <2>1 DEF RowGap, db
    <3> HIDE DEF f
    <3>3. RowGap' = RowGap + k
      BY <1>0, <3>1, <3>2
    <3> QED
      BY <2>1, <2>2, <2>3, <3>1, <3>3 DEF RowsInv
  <2> QED
    BY <2>1, <2>2, <2>3 DEF RowsInv
<1>2. CASE HedgeStep \/ UnwindTimesOut
  <2>1. HedgeMoves /\ RowGap' = RowGap /\ SpotGap' = SpotGap
    BY <1>2, HedgeStepMoves
  <2>2. Unseen' = Unseen /\ ~Dead
    BY <2>1 DEF HedgeMoves, Unseen, Dead
  <2> QED
    BY <2>1, <2>2 DEF RowsInv
<1>3. ASSUME t.pc \in LoopPlaces, t'.pc \in LoopPlaces,
             UNCHANGED <<vPerp, vSpot, dbSpot>>, dbPerp' + Unseen' = dbPerp + Unseen
      PROVE  RowsInv'
  <2>1. RowGap = vPerp - dbPerp /\ RowGap' = vPerp - dbPerp' /\ SpotGap' = SpotGap /\ ~Dead
    BY <1>0, <1>3 DEF RowGap, SpotGap, LoopPlaces, Dead
  <2> QED
    BY <1>0, <1>3, <2>1 DEF RowsInv
<1>4. CASE AskToStop
  BY <1>4 DEF AskToStop, RowsInv, RowGap, SpotGap, Unseen, Dead, venue, db
<1>5. CASE LeaveLoop \/ RestNothing \/ (\E q \in 1..Target : Place(q)) \/ PlaceReply
           \/ (\E reprice \in BOOLEAN : Poll(reprice)) \/ CancelOrder \/ ReadCancelled
  BY <1>3, <1>5, LoopTurns
<1>6. CASE StartRun \/ StartWithoutQuotes \/ EndAdd \/ EndRun \/ TaskDies
  <2>1. /\ UNCHANGED <<vPerp, vSpot, dbPerp, dbSpot>>
        /\ Begins \/ BeginsNot \/ Ends \/ Dies
    BY <1>6, RunMoves DEF venue
  <2>2. Idle.pc = "idle" /\ Idle.oid = 0
    BY DEF Idle
  <2>3. /\ t.pc \notin {"bought", "unwound"} /\ t'.pc \notin {"bought", "unwound"}
    BY <2>1, <2>2 DEF Begins, BeginsNot, Ends, Dies
  <2>4. RowGap' = RowGap /\ SpotGap' = SpotGap
    BY <2>1, <2>3 DEF RowGap, SpotGap
  <2>5. ~Dead' => ~Dead /\ Unseen = 0 /\ Unseen' = 0
    BY <2>1, <2>2 DEF Begins, BeginsNot, Ends, Dies, Dead, Unseen, HandInv
  <2> QED
    BY <2>4, <2>5 DEF RowsInv
<1>7. ~SpotAmbiguous /\ ~BuyBackAmbiguous
  BY DEF SpotAmbiguous, BuyBackAmbiguous
<1> QED
  BY <1>1, <1>2, <1>4, <1>5, <1>6, <1>7 DEF EngineStep, TaskStep, LoopStep, FaultStep
-------------------------------------------------------------------------------
\* With lots of one contract the legs differ by what the run owes, or the
\* operator was told.
LegsInv == ~Dead => warned \/ Balance + Unseen = 0

LEMMA LegsInvInit == EntryInit => LegsInv
<1> SUFFICES ASSUME EntryInit PROVE LegsInv
  OBVIOUS
<1>1. t = Idle /\ t.pc = "idle" /\ t.oid = 0 /\ vSpot = vPerp /\ vPerp \in Int
  BY EntryAssumption DEF EntryInit, Idle
<1>2. Owed(t) = 0
  BY <1>1, IdleOwes
<1> QED
  BY <1>1, <1>2 DEF LegsInv, Balance, Unseen

LEMMA LegsInvStep ==
  ASSUME SpotStep = 1,
         "place_ambiguous" \notin Faults, "unwind_ambiguous" \notin Faults,
         RunInv, HedgeInv, HandInv, Tended, LegsInv, RunInv', HedgeInv',
         VenueStep \/ EngineStep
  PROVE  LegsInv'
<1>0. /\ t \in Task /\ vPerp \in Int /\ vSpot \in Int /\ t.unhedged \in Int
      /\ Owed(t) \in Int /\ Unseen \in Int /\ Sound(t) /\ t.unhedged >= 0
      /\ warned \in BOOLEAN
  BY HedgeTypes DEF RunInv, EntryTypeOK, Sound
<1>00. t' \in Task /\ t'.unhedged \in Int /\ Owed(t') \in Int /\ Unseen' \in Int
       /\ warned' \in BOOLEAN
  <2>1. t' \in Task /\ exec' \in [Order -> Nat] /\ placed' \in Nat /\ warned' \in BOOLEAN
    BY DEF RunInv, EntryTypeOK
  <2>2. t'.oid \in Order \cup {0} /\ t'.seen \in Nat /\ t'.unhedged \in Int
    BY <2>1 DEF Task
  <2>3. t'.pc = "placing" => placed' \in Order
    BY <2>1, EntryAssumption DEF RunInv, OrdersInTurn, Order
  <2>4. Unseen' \in Int
    BY <2>1, <2>2, <2>3 DEF Unseen
  <2> QED
    BY <2>1, <2>2, <2>4, OwedType
<1>1. CASE VenueStep
  <2>1. UNCHANGED <<t, vSpot, warned>> /\ Dead' = Dead
    BY <1>1, VenueMoves DEF Dead, db
  <2>2. CASE ~Dead
    <3>1. PICK k \in Nat : vPerp' = vPerp + k /\ Unseen' = Unseen + k
      BY <1>1, <2>2, FillIsUnseen
    <3>2. Balance' + Unseen' = Balance + Unseen
      BY <1>0, <2>1, <3>1 DEF Balance
    <3> QED
      BY <2>1, <2>2, <3>2 DEF LegsInv
  <2> QED
    BY <2>1, <2>2 DEF LegsInv
<1>2. CASE HedgeStep \/ UnwindTimesOut \/ SpotAmbiguous
  <2>1. HedgeTrades
    BY <1>2, HedgeBalances
  <2>2. HedgeMoves
    BY <1>2, HedgeStepMoves, AmbiguousMoves
  <2>3. Unseen' = Unseen /\ ~Dead
    BY <2>2 DEF HedgeMoves, Unseen, Dead
  <2>4. warned => warned'
    BY <1>0, <1>2 DEF HedgeStep, NothingToHedge, HedgeAll, HedgePart, BuySpot, SpotBought,
       SpotRejected, BuyBack, BoughtBack, UnwindTimesOut, SpotAmbiguous
  <2> QED
    BY <2>1, <2>3, <2>4 DEF LegsInv, HedgeTrades
<1>3. CASE LeaveLoop \/ RestNothing \/ (\E q \in 1..Target : Place(q)) \/ PlaceReply
           \/ (\E reprice \in BOOLEAN : Poll(reprice)) \/ CancelOrder \/ ReadCancelled
  <2>1. /\ t.pc \in LoopPlaces /\ t'.pc \in LoopPlaces
        /\ UNCHANGED <<vPerp, vSpot, dbSpot, state, warned>>
        /\ t'.unhedged + Unseen' = t.unhedged + Unseen
    BY <1>3, LoopTurns
  <2>2. Owed(t) = t.unhedged /\ Owed(t') = t'.unhedged /\ ~Dead
    BY <2>1 DEF Owed, LoopPlaces, Dead
  <2>3. Balance' + Unseen' = Balance + Unseen
    BY <1>0, <1>00, <2>1, <2>2 DEF Balance
  <2> QED
    BY <2>1, <2>2, <2>3 DEF LegsInv
<1>4. CASE AskToStop
  BY <1>4 DEF AskToStop, LegsInv, Balance, Unseen, Dead, venue, db
<1>5. CASE StartRun \/ StartWithoutQuotes \/ EndAdd \/ EndRun \/ TaskDies
  <2>1. UNCHANGED <<vPerp, vSpot>> /\ (Begins \/ BeginsNot \/ Ends \/ Dies)
    BY <1>5, RunMoves DEF venue
  <2>2. Idle.pc = "idle" /\ Idle.oid = 0 /\ Owed(Idle) = 0
    BY IdleOwes DEF Idle
  <2>3. CASE Dies
    BY <2>2, <2>3 DEF Dies, Dead, HandInv, LegsInv
  <2>4. CASE BeginsNot
    <3>1. t.oid = 0 /\ t.pc = "idle" /\ t' = t /\ ~Dead /\ warned' = warned
      BY <2>4 DEF BeginsNot, Dead, HandInv
    <3>2. Unseen = 0 /\ Unseen' = 0 /\ Balance' = Balance
      BY <2>1, <3>1 DEF Unseen, Balance
    <3> QED
      BY <3>1, <3>2 DEF LegsInv
  <2>5. CASE Begins
    <3>1. /\ t.oid = 0 /\ t.pc = "idle" /\ ~Dead /\ warned' = warned
          /\ t'.pc = "top" /\ t'.oid = 0 /\ t'.unhedged = 0
      BY <2>5 DEF Begins, Dead, HandInv
    <3>2. Unseen = 0 /\ Unseen' = 0 /\ Owed(t) = 0 /\ Owed(t') = 0
      BY <3>1 DEF Unseen, Owed
    <3> QED
      BY <2>1, <3>1, <3>2 DEF LegsInv, Balance
  <2>6. CASE Ends
    <3>1. /\ t.oid = 0 /\ t.pc = "finish" /\ ~Dead /\ t.unhedged <= 0
          /\ t' = Idle /\ (warned' = TRUE \/ warned' = warned)
      BY <2>6 DEF Ends, Dead, HandInv
    <3>2. t.unhedged = 0
      BY <1>0, <3>1
    <3>3. Unseen = 0 /\ Unseen' = 0 /\ Owed(t) = 0 /\ Owed(t') = 0
      BY <2>2, <3>1, <3>2 DEF Unseen, Owed
    <3> QED
      BY <2>1, <3>1, <3>3 DEF LegsInv, Balance
  <2> QED
    BY <2>1, <2>3, <2>4, <2>5, <2>6
<1>6. ~BuyBackAmbiguous
  BY DEF BuyBackAmbiguous
<1> QED
  BY <1>1, <1>2, <1>3, <1>4, <1>5, <1>6 DEF EngineStep, TaskStep, LoopStep, FaultStep

-------------------------------------------------------------------------------
LEMMA HandInvariance == EntrySpec => []HandInv
<1>1. RunInv /\ HandInv /\ [EntryNext]_vars => HandInv'
  <2>1. HandInv /\ UNCHANGED vars => HandInv'
    BY DEF HandInv, vars, venue, db
  <2> QED
    BY <2>1, HandInvStep DEF EntryNext
<1> QED
  BY <1>1, HandInvInit, RunInvariance, PTL DEF EntrySpec

LEMMA TendedInvariance ==
  ASSUME "place_ambiguous" \notin Faults, "cancel_fails" \notin Faults
  PROVE  EntrySpec => [](HandInv /\ Tended)
<1>1. RunInv /\ HandInv /\ Tended /\ [EntryNext]_vars => Tended'
  <2>1. Tended /\ UNCHANGED vars => Tended'
    BY DEF Tended, Hand, Dead, OrderLive, vars, venue, db
  <2> QED
    BY <2>1, TendedStep DEF EntryNext
<1> QED
  BY <1>1, TendedInit, HandInvariance, RunInvariance, PTL DEF EntrySpec

\* When a run is over, however often it was repriced, filled between two polls
\* or bought back, the rows say what the venues hold and no order is left on
\* the book.  Excluded are the replies the code cannot learn the outcome of and
\* a cancellation without effect; a poll that raises is not.
THEOREM RowsMatchWhenOver ==
  ASSUME "place_ambiguous" \notin Faults, "cancel_fails" \notin Faults,
         "spot_ambiguous" \notin Faults, "unwind_ambiguous" \notin Faults
  PROVE  EntrySpec => []RowsMatchVenues
<1>1. RunInv /\ RunInv' /\ HandInv /\ Tended /\ RowsInv /\ [EntryNext]_vars => RowsInv'
  <2>1. RowsInv /\ UNCHANGED vars => RowsInv'
    BY DEF RowsInv, RowGap, SpotGap, Unseen, Dead, vars, venue, db
  <2> QED
    BY <2>1, RowsInvStep DEF EntryNext
<1>2. RunInv /\ HandInv /\ Tended /\ RowsInv => RowsMatchVenues
  <2> SUFFICES ASSUME RunInv, HandInv, Tended, RowsInv, Settled
               PROVE  /\ dbPerp = vPerp /\ dbSpot = vSpot
                      /\ \A o \in Order : ~OrderLive(o)
    BY DEF RowsMatchVenues
  <2>1. t.pc = "idle" /\ t.oid = 0 /\ ~Dead
    BY DEF Settled, Dead, HandInv
  <2>2. vPerp \in Int /\ vSpot \in Int /\ dbPerp \in Int /\ dbSpot \in Int
    BY DEF RunInv, EntryTypeOK
  <2>3. vPerp - dbPerp = 0 /\ vSpot - dbSpot = 0
    BY <2>1, <2>2 DEF RowsInv, RowGap, SpotGap, Unseen
  <2>4. \A o \in Order : ~OrderLive(o)
    BY <2>1, OrderPositive DEF Tended, Hand
  <2> QED
    BY <2>2, <2>3, <2>4
<1>3. EntrySpec => [](HandInv /\ Tended)
  BY TendedInvariance
<1> QED
  BY <1>1, <1>2, <1>3, RowsInvInit, RunInvariance, PTL DEF EntrySpec

\* LegsInv is what LegsMatchOrWarned says when nothing is under way.
LEMMA SettledLegs ==
  ASSUME SpotStep = 1, RunInv, HandInv, LegsInv PROVE LegsMatchOrWarned
<1> SUFFICES ASSUME Settled, ~warned PROVE LegsMatch
  BY DEF LegsMatchOrWarned
<1>1. t.pc = "idle" /\ t.oid = 0 /\ ~Dead
  BY DEF Settled, Dead, HandInv
<1>2. vPerp \in Int /\ vSpot \in Int
  BY DEF RunInv, EntryTypeOK
<1>3. (vSpot + 0 - vPerp) + 0 = 0
  BY <1>1 DEF LegsInv, Balance, Owed, Unseen
<1>4. vPerp - vSpot = 0
  BY <1>2, <1>3
<1> QED
  BY <1>4 DEF LegsMatch

\* A run does not end with legs that differ without a word to the operator:
\* every fill is hedged, bought back or reported, for every size, number of
\* attempts and dust limit, with a spot lot of one contract.
THEOREM LegsMatchWhenOver ==
  ASSUME SpotStep = 1, "place_ambiguous" \notin Faults, "cancel_fails" \notin Faults,
         "unwind_ambiguous" \notin Faults
  PROVE  EntrySpec => []LegsMatchOrWarned
<1>1. RunInv /\ RunInv' /\ HedgeInv /\ [EntryNext]_vars => HedgeInv'
  <2>1. HedgeInv /\ UNCHANGED vars => HedgeInv'
    BY DEF HedgeInv, Unseen, vars, venue
  <2> QED
    BY <2>1, RunKeepsHedge DEF EntryNext
<1>2. RunInv /\ RunInv' /\ HedgeInv /\ HedgeInv' /\ HandInv /\ Tended /\ LegsInv
        /\ [EntryNext]_vars => LegsInv'
  <2>1. LegsInv /\ UNCHANGED vars => LegsInv'
    BY DEF LegsInv, Balance, Unseen, Dead, vars, venue, db
  <2> QED
    BY <2>1, LegsInvStep DEF EntryNext
<1>3. RunInv /\ HandInv /\ LegsInv => LegsMatchOrWarned
  BY SettledLegs
<1>4. EntrySpec => [](HandInv /\ Tended)
  BY TendedInvariance
<1> QED
  BY <1>1, <1>2, <1>3, <1>4, HedgeInvInit, LegsInvInit, RunInvariance, PTL DEF EntrySpec
-------------------------------------------------------------------------------
(***************************************************************************)
(* Restarts.                                                               *)
(***************************************************************************)

\* Reconcile trades nothing: it cancels open orders, writes the rows and never
\* takes a word to the operator back.
LEMMA ReconcileMoves ==
  ASSUME BookingInv, ReconcileStep
  PROVE  /\ phase # "up" /\ t = Idle /\ runs' = runs
         /\ UNCHANGED <<t, oqty, exec, placed, vPerp, vSpot, room>>
         /\ \A p \in Order : ost'[p] = ost[p] \/ (ost[p] = "open" /\ ost'[p] = "cancelled")
         /\ warned => warned'
<1>0. ost \in [Order -> OrderStates] /\ warned \in BOOLEAN /\ found \in Found
  BY DEF BookingInv, RunInv, EntryTypeOK, RecoveryTypeOK
<1>1. phase # "up"
  BY DEF ReconcileStep, BeginReconcile, SweepOrder, EndSweep, LookupIntent,
         ResolveIntent, EndIntents, FixUp, Compare
<1>2. t = Idle
  BY <1>1 DEF BookingInv, AtHand
<1>3. UNCHANGED <<t, oqty, exec, placed, vPerp, vSpot, runs, room>>
  BY DEF ReconcileStep, BeginReconcile, SweepOrder, EndSweep, LookupIntent,
         ResolveIntent, EndIntents, FixUp, Compare, vars, venue
<1>4. \A p \in Order : ost'[p] = ost[p] \/ (ost[p] = "open" /\ ost'[p] = "cancelled")
  <2>1. ASSUME NEW o \in Order, SweepOrder(o)
        PROVE  \A p \in Order : ost'[p] = ost[p] \/ (ost[p] = "open" /\ ost'[p] = "cancelled")
    BY <1>0, <2>1 DEF SweepOrder
  <2>2. CASE ResolveIntent
    <3>1. found.oid \in Order
      BY <1>0, <2>2 DEF ResolveIntent, BookingInv, AtHand, Found
    <3>2. \/ ost' = [ost EXCEPT ![found.oid] =
                       IF found.open /\ @ = "open" THEN "cancelled" ELSE @]
          \/ ost' = ost
      BY <2>2 DEF ResolveIntent
    <3> QED
      BY <1>0, <3>1, <3>2
  <2>3. CASE \/ BeginReconcile \/ EndSweep \/ EndIntents \/ FixUp \/ Compare
             \/ \E o \in Order : LookupIntent(o)
    <3>1. ost' = ost
      BY <2>3 DEF BeginReconcile, EndSweep, LookupIntent, EndIntents, FixUp, Compare, vars,
         venue
    <3> QED
      BY <3>1
  <2> QED
    BY <2>1, <2>2, <2>3 DEF ReconcileStep
<1>5. warned => warned'
  <2> DEFINE Told == warned => warned'
  <2>1. ASSUME NEW o, NEW e, BookLateFill(o, e) PROVE Told
    BY <1>0, <2>1 DEF BookLateFill
  <2>2. ASSUME NEW o \in Order, SweepOrder(o) PROVE Told
    BY <2>1, <2>2 DEF SweepOrder
  <2>3. CASE ResolveIntent
    BY <2>1, <2>3 DEF ResolveIntent
  <2>4. CASE \/ BeginReconcile \/ EndSweep \/ EndIntents
             \/ \E o \in Order : LookupIntent(o)
    BY <2>4 DEF BeginReconcile, EndSweep, LookupIntent, EndIntents, vars
  <2>5. CASE FixUp
    BY <2>5 DEF FixUp
  <2>6. CASE Compare
    BY <2>6, Zenon DEF Compare
  <2> QED
    BY <2>2, <2>3, <2>4, <2>5, <2>6 DEF ReconcileStep
<1> QED
  BY <1>1, <1>2, <1>3, <1>4, <1>5

\* HandInv through a restart.
LEMMA HandInvRestart ==
  ASSUME BookingInv, HandInv, ReconcileStep \/ Crash PROVE HandInv'
<1>0. exec \in [Order -> Nat]
  BY DEF BookingInv, RunInv, EntryTypeOK
<1>1. Idle.pc = "idle" /\ Idle.oid = 0 /\ Idle.force = FALSE
  BY DEF Idle
<1>2. CASE ReconcileStep
  <2>1. /\ t = Idle /\ t' = t /\ exec' = exec
        /\ \A p \in Order : ost'[p] = ost[p] \/ (ost[p] = "open" /\ ost'[p] = "cancelled")
    BY <1>2, ReconcileMoves
  <2> QED
    BY <1>1, <2>1 DEF HandInv
<1>3. CASE Crash
  <2>1. t' = Idle /\ UNCHANGED <<ost, exec>>
    BY <1>3 DEF Crash, venue
  <2> QED
    BY <1>1, <2>1 DEF HandInv
<1> QED
  BY <1>2, <1>3

LEMMA HandThroughRestarts == RecoverySpec => []HandInv
<1>1. RecoveryInit => HandInv
  BY HandInvInit DEF RecoveryInit
<1>2. BookingInv /\ HandInv /\ [RecoveryNext]_allVars => HandInv'
  <2>1. HandInv /\ UNCHANGED allVars => HandInv'
    BY DEF HandInv, allVars, vars, venue, db
  <2> QED
    BY <2>1, HandInvStep, HandInvRestart DEF RecoveryNext, WhileUp, BookingInv
<1> QED
  BY <1>1, <1>2, BookingInvariance, PTL DEF RecoverySpec

-------------------------------------------------------------------------------
\* Every order that can still fill is one a restart finds: its intent is
\* unresolved, or the position is in mid-entry.
Findable ==
    /\ \A o \in Order : OrderLive(o) => InDoubt(o) \/ o = Hand \/ Dead
    /\ t.oid # 0 => ost[t.oid] # "sent"
    /\ t.pc = "cancelled" => ost[t.oid] # "open"

\* How far the sweep has come: what can still fill is still to be looked at.
SweepInv ==
    /\ phase \notin {"up", "down"} => \A o \in Order : ost[o] # "sent"
    /\ phase = "sweep" => \A o \in Order : ost[o] = "open" => o \in listed \/ o \in unresolved
    /\ phase = "intents" => \A o \in Order : ost[o] = "open" => o \in unresolved
    /\ phase = "resolve" =>
          /\ found.oid \notin unresolved
          /\ \A o \in Order : ost[o] = "open" =>
                o \in unresolved \/ (o = found.oid /\ found.open)
    /\ phase \in {"fixup", "compare"} => \A o \in Order : ost[o] # "open"

LEMMA FindableInit == RecoveryInit => Findable /\ SweepInv
  BY DEF RecoveryInit, EntryInit, Findable, SweepInv, OrderLive, Idle

LEMMA FindableStep ==
  ASSUME "cancel_fails" \notin Faults,
         RunInv, HandInv, Findable, VenueStep \/ EngineStep
  PROVE  Findable'
<1>0. /\ t \in Task /\ ost \in [Order -> OrderStates] /\ t.oid \in Order \cup {0}
      /\ intent \in [Order -> IntentStates]
  BY DEF RunInv, EntryTypeOK, Task
<1>1. CASE VenueStep
  <2>1. UNCHANGED <<t, state, placed, intent>>
    BY <1>1, VenueMoves DEF db
  <2>2. \A p \in Order : /\ OrderLive(p)' => OrderLive(p)
                         /\ ost'[p] = "sent" => ost[p] = "sent"
                         /\ ost'[p] = "open" => ost[p] = "open" \/ ost[p] = "sent"
    BY <1>1, VenueMoves DEF OrderLive, Answers, Fills
  <2>3. t.pc = "cancelled" => t.oid # 0
    BY DEF RunInv, HandTaken
  <2>4. Hand' = Hand /\ Dead' = Dead /\ \A p \in Order : InDoubt(p)' = InDoubt(p)
    BY <2>1 DEF Hand, Dead, InDoubt
  <2>5. /\ t'.pc = "cancelled" => ost'[t'.oid] # "open"
        /\ t'.oid # 0 => ost'[t'.oid] # "sent"
    BY <1>0, <2>1, <2>2, <2>3 DEF Findable
  <2> QED
    BY <2>2, <2>4, <2>5 DEF Findable
<1>2. CASE HedgeStep \/ UnwindTimesOut \/ SpotAmbiguous \/ BuyBackAmbiguous
  <2>1. HedgeMoves
    BY <1>2, HedgeStepMoves, AmbiguousMoves
  <2>2. Hand' = Hand /\ ~Dead /\ t'.pc # "cancelled"
    BY <2>1 DEF HedgeMoves, Hand, Dead
  <2>3. intent' = intent
    BY <1>2 DEF HedgeStep, NothingToHedge, HedgeAll, HedgePart, BuySpot, SpotBought,
       SpotRejected, BuyBack, BoughtBack, UnwindTimesOut, SpotAmbiguous,
       BuyBackAmbiguous, db
  <2> QED
    BY <2>1, <2>2, <2>3 DEF Findable, HedgeMoves, OrderLive, InDoubt
<1>3. CASE AskToStop \/ LeaveLoop \/ RestNothing
  <2>1. intent' = intent
    BY <1>3 DEF AskToStop, LeaveLoop, RestNothing, db
  <2>2. CASE UNCHANGED <<venue, state, dbPerp, dbSpot, runs, room, warned, t>>
    BY <2>1, <2>2 DEF Findable, Hand, Dead, OrderLive, InDoubt, venue
  <2>3. CASE ~(UNCHANGED <<venue, state, dbPerp, dbSpot, runs, room, warned, t>>)
    <3>1. /\ t.pc = "top" /\ t'.pc \in {"cancel", "hedge"} /\ t'.oid = t.oid /\ UNCHANGED venue
      BY <1>3, <2>3, LeaveOrRestMoves DEF LoopMoves
    <3>2. Hand' = Hand /\ ~Dead /\ ~Dead'
      BY <3>1 DEF Hand, Dead
    <3> QED
      BY <2>1, <3>1, <3>2 DEF Findable, OrderLive, InDoubt, venue
  <2> QED
    BY <2>2, <2>3
<1>4. ASSUME NEW q \in 1..Target, Place(q) PROVE Findable'
  <2>1. Hand = 0 /\ ~Dead /\ Hand' = placed' /\ t'.pc = "placing" /\ t'.oid = 0
    BY <1>4, PlaceMoves DEF Hand, Dead
  <2>2. \A p \in Order : OrderLive(p) => InDoubt(p)
    BY <2>1, OrderPositive DEF Findable
  <2>3. \A p \in Order : p # placed' => OrderLive(p)' = OrderLive(p) /\ InDoubt(p)' = InDoubt(p)
    BY <1>0, <1>4, PlaceMoves DEF OrderLive, InDoubt
  <2> QED
    BY <2>1, <2>2, <2>3 DEF Findable
<1>5. CASE PlaceReply
  <2>1. Hand = placed /\ ~Dead /\ Hand' = t'.oid /\ t'.pc = "hedge" /\ placed \in Order
    BY <1>5, ReplyMoves DEF Hand, Dead
  <2>2. UNCHANGED ost
    BY <1>5, ReplyMoves DEF venue
  <2>3. \/ t'.oid = placed /\ ost[placed] \in {"open", "filled"}
           /\ intent' = [intent EXCEPT ![placed] = "done"]
        \/ t'.oid = 0 /\ ost[placed] = "rejected"
           /\ intent' = [intent EXCEPT ![placed] = "failed"]
        \/ t'.oid = 0 /\ intent' = [intent EXCEPT ![placed] = "ambiguous"]
    BY <1>5, ReplyMoves
  <2>4. \A p \in Order : p # placed => InDoubt(p)' = InDoubt(p)
    BY <1>0, <2>3 DEF InDoubt
  <2>5. OrderLive(placed) => intent'[placed] \in {"pending", "ambiguous"} \/ placed = Hand'
    <3>1. CASE t'.oid = placed
      BY <2>1, <3>1
    <3>2. CASE t'.oid = 0 /\ ost[placed] = "rejected"
      BY <3>2 DEF OrderLive
    <3>3. CASE t'.oid = 0 /\ intent' = [intent EXCEPT ![placed] = "ambiguous"]
      BY <1>0, <2>1, <3>3
    <3> QED
      BY <2>3, <3>1, <3>2, <3>3
  <2>6. \A p \in Order : p # placed /\ OrderLive(p) => InDoubt(p)
    BY <2>1 DEF Findable
  <2>7. \A p \in Order : OrderLive(p)' => InDoubt(p)' \/ p = Hand'
    <3> SUFFICES ASSUME NEW p \in Order, OrderLive(p)' PROVE InDoubt(p)' \/ p = Hand'
      OBVIOUS
    <3>1. OrderLive(p)
      BY <2>2 DEF OrderLive
    <3>2. CASE p = placed
      BY <2>1, <2>5, <3>1, <3>2 DEF InDoubt
    <3>3. CASE p # placed
      BY <2>4, <2>6, <3>1, <3>3
    <3> QED
      BY <3>2, <3>3
  <2>8. t'.oid # 0 => ost'[t'.oid] # "sent"
    BY <1>0, <2>2, <2>3, <2>1
  <2> QED
    BY <2>1, <2>7, <2>8 DEF Findable
<1>6. CASE (\E reprice \in BOOLEAN : Poll(reprice)) \/ ReadCancelled
  <2>1. /\ t.pc \in {"top", "cancelled"} /\ t'.pc \in {"cancel", "hedge"} /\ UNCHANGED ost
        /\ t.oid \in Order /\ t.oid # 0
        /\ \/ t'.oid = t.oid
           \/ t'.oid = 0 /\ (ost[t.oid] # "open" \/ t.pc = "cancelled")
    BY <1>6, PollMoves DEF venue
  <2>2. Hand = t.oid /\ Hand' = t'.oid /\ ~Dead
    BY <2>1 DEF Hand, Dead
  <2>3. intent' = intent
    BY <1>6 DEF Poll, ReadCancelled
  <2>4. \A p \in Order : OrderLive(p) => InDoubt(p) \/ p = t.oid
    BY <2>2 DEF Findable
  <2>5. t'.oid = t.oid \/ ~OrderLive(t.oid)
    BY <2>1 DEF Findable, OrderLive
  <2> QED
    BY <2>1, <2>2, <2>3, <2>4, <2>5 DEF Findable, OrderLive, InDoubt
<1>7. CASE CancelOrder
  <2>1. /\ t.pc = "cancel" /\ t'.pc = "cancelled" /\ t.oid \in Order /\ t'.oid = t.oid
        /\ ost' = [ost EXCEPT ![t.oid] = IF @ = "open" THEN "cancelled" ELSE @]
        /\ t.oid # 0 /\ intent' = intent
    BY <1>7, CancelMoves DEF db
  <2>2. Hand' = Hand /\ ~Dead
    BY <2>1 DEF Hand, Dead
  <2>3. /\ ost'[t.oid] # "open" /\ ost'[t.oid] # "sent"
        /\ \A p \in Order : OrderLive(p)' => OrderLive(p)
    BY <1>0, <2>1 DEF OrderLive, Findable
  <2> QED
    BY <2>1, <2>2, <2>3 DEF Findable, InDoubt
<1>8. CASE StartRun \/ StartWithoutQuotes \/ EndAdd \/ EndRun \/ TaskDies
  <2>1. UNCHANGED <<ost, placed, intent>> /\ (Begins \/ BeginsNot \/ Ends \/ Dies)
    BY <1>8, RunMoves DEF venue
  <2>2. Idle.pc = "idle" /\ Idle.oid = 0
    BY DEF Idle
  <2>3. CASE Dies
    <3>1. Dead' /\ t'.pc = "idle" /\ t'.oid = 0
      BY <2>2, <2>3 DEF Dies, Dead, HandInv
    <3> QED
      BY <3>1 DEF Findable
  <2>4. CASE Begins \/ BeginsNot \/ Ends
    <3>1. Hand = 0 /\ ~Dead /\ t'.oid = 0 /\ t'.pc # "cancelled"
      BY <2>2, <2>4 DEF Hand, Dead, HandInv, Begins, BeginsNot, Ends
    <3>2. \A p \in Order : OrderLive(p) => InDoubt(p)
      BY <3>1, OrderPositive DEF Findable
    <3> QED
      BY <2>1, <3>1, <3>2 DEF Findable, OrderLive, InDoubt
  <2> QED
    BY <2>1, <2>3, <2>4
<1> QED
  BY <1>1, <1>2, <1>3, <1>4, <1>5, <1>6, <1>7, <1>8
  DEF EngineStep, TaskStep, LoopStep, FaultStep

\* Reconcile takes an intent off the list only of an order that cannot fill,
\* and the position out of mid-entry only when none can.
LEMMA FindableRestart ==
  ASSUME "sweep_fails" \notin RecoveryFaults, "lookup_fails" \notin RecoveryFaults,
         BookingInv, HandInv, Findable, SweepInv, ReconcileStep \/ Crash
  PROVE  Findable'
<1>0. /\ ost \in [Order -> OrderStates] /\ intent \in [Order -> IntentStates]
      /\ found \in Found
  BY DEF BookingInv, RunInv, EntryTypeOK, RecoveryTypeOK
<1>1. Idle.pc = "idle" /\ Idle.oid = 0
  BY DEF Idle
<1>2. CASE Crash
  <2>1. t' = Idle /\ UNCHANGED <<ost, state, intent>>
    BY <1>2 DEF Crash, venue, db
  <2>2. \A p \in Order : OrderLive(p) => InDoubt(p) \/ Dead'
    <3>1. CASE t.pc = "idle"
      <4>1. Hand = 0 /\ Dead' = Dead
        BY <1>1, <2>1, <3>1 DEF Hand, HandInv, Dead
      <4> QED
        BY <4>1, OrderPositive DEF Findable
    <3>2. CASE t.pc # "idle"
      BY <1>1, <2>1, <3>2 DEF HandInv, Dead
    <3> QED
      BY <3>1, <3>2
  <2> QED
    BY <1>1, <2>1, <2>2 DEF Findable, OrderLive, InDoubt
<1>3. CASE ReconcileStep
  <2>1. /\ t = Idle /\ t' = t
        /\ \A p \in Order : ost'[p] = ost[p] \/ (ost[p] = "open" /\ ost'[p] = "cancelled")
    BY <1>3, ReconcileMoves
  <2>2. Hand = 0 /\ \A p \in Order : OrderLive(p) => InDoubt(p) \/ Dead
    BY <1>1, <2>1, OrderPositive DEF Hand, Findable
  <2>3. \A p \in Order : OrderLive(p)' => OrderLive(p)
    BY <2>1 DEF OrderLive
  <2>4. \A p \in Order : OrderLive(p)' => InDoubt(p)' \/ Dead'
    <3> SUFFICES ASSUME NEW p \in Order, OrderLive(p)' PROVE InDoubt(p)' \/ Dead'
      OBVIOUS
    <3>1. OrderLive(p) /\ (InDoubt(p) \/ Dead)
      BY <2>2, <2>3
    <3>2. CASE UNCHANGED <<state, intent>>
      BY <2>1, <3>1, <3>2 DEF InDoubt, Dead
    <3>3. ASSUME NEW o \in Order, LookupIntent(o) PROVE InDoubt(p)' \/ Dead'
      <4>1. /\ UNCHANGED <<ost, state>>
            /\ \/ intent' = intent
               \/ ost[o] = "rejected" /\ intent' = [intent EXCEPT ![o] = "failed"]
        BY <3>3 DEF LookupIntent, venue
      <4>2. intent'[p] = intent[p]
        BY <1>0, <3>1, <4>1 DEF OrderLive
      <4> QED
        BY <2>1, <3>1, <4>1, <4>2 DEF InDoubt, Dead
    <3>4. CASE ResolveIntent
      <4>1. /\ phase = "resolve" /\ found.oid \in Order /\ UNCHANGED state
            /\ ost' = [ost EXCEPT ![found.oid] =
                          IF found.open /\ @ = "open" THEN "cancelled" ELSE @]
            /\ intent' = [intent EXCEPT ![found.oid] = "reconciled"]
        BY <1>0, <3>4 DEF ResolveIntent, BookingInv, AtHand, Found
      <4>2. p # found.oid
        BY <1>0, <4>1 DEF SweepInv, OrderLive
      <4>3. intent'[p] = intent[p]
        BY <1>0, <4>1, <4>2
      <4> QED
        BY <2>1, <3>1, <4>1, <4>3 DEF InDoubt, Dead
    <3>5. CASE FixUp
      BY <3>1, <3>5 DEF FixUp, SweepInv, OrderLive
    <3>6. CASE BeginReconcile \/ EndSweep \/ EndIntents \/ Compare
               \/ \E o \in Order : SweepOrder(o)
      <4>1. UNCHANGED <<state, intent>>
        BY <3>6 DEF BeginReconcile, EndSweep, EndIntents, Compare, SweepOrder, vars, db
      <4> QED
        BY <3>2, <4>1
    <3> QED
      BY <1>3, <3>3, <3>4, <3>5, <3>6 DEF ReconcileStep
  <2> QED
    BY <1>1, <2>1, <2>4 DEF Findable
<1> QED
  BY <1>2, <1>3

\* Each step of reconcile hands on what can still fill, the venue's steps and
\* a crash add nothing to it.
LEMMA SweepStep ==
  ASSUME RecoveryFaults \cap {"listing_fails", "sweep_fails", "lookup_fails"} = {},
         BookingInv, HandInv, Findable, SweepInv, RecoveryNext
  PROVE  SweepInv'
<1>0. /\ ost \in [Order -> OrderStates] /\ intent \in [Order -> IntentStates]
      /\ found \in Found
  BY DEF BookingInv, RunInv, EntryTypeOK, RecoveryTypeOK
<1>1. CASE WhileUp(EngineStep)
  <2>1. phase' = "up"
    BY <1>1 DEF WhileUp, restartVars, recovering
  <2> QED
    BY <2>1 DEF SweepInv
<1>2. CASE Crash
  <2>1. phase' = "down"
    BY <1>2 DEF Crash
  <2> QED
    BY <2>1 DEF SweepInv
<1>3. CASE VenueStep /\ UNCHANGED restartVars
  <2>1. UNCHANGED <<phase, listed, unresolved, found>>
    BY <1>3 DEF restartVars, recovering
  <2>2. \A p \in Order : /\ ost'[p] = "sent" => ost[p] = "sent"
                         /\ ost'[p] = "open" => ost[p] = "open" \/ ost[p] = "sent"
    BY <1>3, VenueMoves DEF Answers, Fills, BookingInv
  <2>3. phase \notin {"up", "down"} =>
           \A p \in Order : ost'[p] # "sent" /\ (ost'[p] = "open" => ost[p] = "open")
    BY <2>2 DEF SweepInv
  <2> QED
    BY <2>1, <2>3 DEF SweepInv
<1>4. CASE ReconcileStep
  <2>1. /\ t = Idle
        /\ \A p \in Order : ost'[p] = ost[p] \/ (ost[p] = "open" /\ ost'[p] = "cancelled")
    BY <1>4, ReconcileMoves
  <2>2. \A p \in Order : ost'[p] = "open" => ost[p] = "open"
    BY <2>1
  <2>3. \A p \in Order : ost[p] # "sent" /\ ost'[p] # "sent"
    <3>1. \A p \in Order : ost[p] # "sent"
      BY <1>4 DEF SweepInv, ReconcileStep, BeginReconcile, SweepOrder, EndSweep,
         LookupIntent, ResolveIntent, EndIntents, FixUp, Compare
    <3> QED
      BY <2>1, <3>1
  <2>4. CASE BeginReconcile
    <3>1. /\ phase' = "sweep" /\ UNCHANGED ost
          /\ unresolved' = {o \in Order : InDoubt(o)}
          /\ listed' = {o \in Order : Active /\ ost[o] = "open"}
      BY <2>4 DEF BeginReconcile, vars, venue
    <3>2. \A p \in Order : ost[p] = "open" => InDoubt(p) \/ Dead
      BY <2>1, OrderPositive DEF Findable, OrderLive, Hand, Idle
    <3>3. Dead => Active
      BY DEF Dead, Active
    <3>4. \A p \in Order : ost'[p] = "open" => p \in listed' \/ p \in unresolved'
      BY <3>1, <3>2, <3>3
    <3> QED
      BY <2>3, <3>1, <3>4 DEF SweepInv
  <2>5. ASSUME NEW o \in Order, SweepOrder(o) PROVE SweepInv'
    <3>1. /\ phase = "sweep" /\ phase' = "sweep" /\ unresolved' = unresolved
          /\ listed' = listed \ {o}
          /\ \/ ost' = [ost EXCEPT ![o] = "cancelled"]
             \/ ost[o] # "open" /\ ost' = ost
      BY <2>5 DEF SweepOrder
    <3>2. ost'[o] # "open"
      BY <1>0, <3>1
    <3>3. \A p \in Order : ost'[p] = "open" => p \in listed' \/ p \in unresolved'
      BY <2>2, <3>1, <3>2 DEF SweepInv
    <3> QED
      BY <2>3, <3>1, <3>3 DEF SweepInv
  <2>6. CASE EndSweep
    <3>1. /\ phase = "sweep" /\ phase' = "intents" /\ listed = {} /\ unresolved' = unresolved
          /\ ost' = ost
      BY <2>6 DEF EndSweep, vars, venue
    <3> QED
      BY <2>3, <3>1 DEF SweepInv
  <2>7. ASSUME NEW o \in Order, LookupIntent(o) PROVE SweepInv'
    <3>1. /\ phase = "intents" /\ ost' = ost /\ unresolved' = unresolved \ {o}
          /\ \/ phase' = "resolve" /\ found' = [oid |-> o, open |-> ost[o] = "open",
                                                exec |-> exec[o]]
             \/ phase' = "intents" /\ ost[o] = "rejected"
      BY <2>7 DEF LookupIntent, venue
    <3>2. \A p \in Order : ost[p] = "open" => p \in unresolved' \/ p = o
      BY <3>1 DEF SweepInv
    <3>3. CASE phase' = "intents" /\ ost[o] = "rejected"
      BY <2>3, <3>1, <3>2, <3>3 DEF SweepInv
    <3>4. CASE phase' = "resolve" /\ found' = [oid |-> o, open |-> ost[o] = "open",
                                               exec |-> exec[o]]
      <4>1. found'.oid = o /\ found'.open = (ost[o] = "open") /\ found'.oid \notin unresolved'
        BY <3>1, <3>4
      <4>2. \A p \in Order : ost'[p] = "open" =>
               p \in unresolved' \/ (p = found'.oid /\ found'.open)
        BY <3>1, <3>2, <4>1
      <4> QED
        BY <2>3, <3>4, <4>1, <4>2 DEF SweepInv
    <3> QED
      BY <3>1, <3>3, <3>4
  <2>8. CASE ResolveIntent
    <3>1. /\ phase = "resolve" /\ phase' = "intents" /\ found.oid \in Order
          /\ unresolved' = unresolved
          /\ ost' = [ost EXCEPT ![found.oid] =
                        IF found.open /\ @ = "open" THEN "cancelled" ELSE @]
      BY <1>0, <2>8 DEF ResolveIntent, BookingInv, AtHand, Found
    <3>2. ost'[found.oid] # "open"
      BY <1>0, <3>1 DEF SweepInv
    <3>3. \A p \in Order : ost'[p] = "open" => p \in unresolved'
      BY <2>2, <3>1, <3>2 DEF SweepInv
    <3> QED
      BY <2>3, <3>1, <3>3 DEF SweepInv
  <2>9. CASE EndIntents
    <3>1. phase = "intents" /\ phase' = "fixup" /\ unresolved = {} /\ ost' = ost
      BY <2>9 DEF EndIntents, vars, venue
    <3> QED
      BY <2>3, <3>1 DEF SweepInv
  <2>10. CASE FixUp \/ Compare
    <3>1. /\ phase \in {"fixup", "compare"} /\ phase' \in {"compare", "up"} /\ ost' = ost
      BY <2>10 DEF FixUp, Compare, venue
    <3> QED
      BY <2>3, <3>1 DEF SweepInv
  <2> QED
    BY <1>4, <2>4, <2>5, <2>6, <2>7, <2>8, <2>9, <2>10 DEF ReconcileStep
<1> QED
  BY <1>1, <1>2, <1>3, <1>4 DEF RecoveryNext

\* With every lookup answered, what can still fill is listed or in doubt.
LEMMA NothingInDoubtRests ==
  ASSUME "cancel_fails" \notin Faults,
         RecoveryFaults \cap {"listing_fails", "sweep_fails", "lookup_fails"} = {}
  PROVE  RecoverySpec => []NothingRestsAfterSweep
<1>1. BookingInv /\ HandInv /\ Findable /\ SweepInv /\ [RecoveryNext]_allVars
        => Findable' /\ SweepInv'
  <2> SUFFICES ASSUME BookingInv, HandInv, Findable, SweepInv, [RecoveryNext]_allVars
               PROVE  Findable' /\ SweepInv'
    OBVIOUS
  <2>1. CASE UNCHANGED allVars
    BY <2>1 DEF Findable, SweepInv, OrderLive, InDoubt, Hand, Dead, allVars, vars, venue, db,
       recovering
  <2>2. CASE RecoveryNext
    <3>1. SweepInv'
      BY <2>2, SweepStep
    <3>2. Findable'
      BY <2>2, FindableStep, FindableRestart DEF RecoveryNext, WhileUp, BookingInv
    <3> QED
      BY <3>1, <3>2
  <2> QED
    BY <2>1, <2>2
<1>2. SweepInv => NothingRestsAfterSweep
  BY DEF SweepInv, NothingRestsAfterSweep, OrderLive
<1> QED
  BY <1>1, <1>2, FindableInit, BookingInvariance, HandThroughRestarts, PTL DEF RecoverySpec

\* The sweep alone finds what can still fill, as long as no place request is
\* given up for lost: it then belongs to a position in mid-entry.
SweepLists ==
    /\ phase \notin {"up", "down"} => \A o \in Order : ost[o] # "sent"
    /\ phase = "sweep" => \A o \in Order : ost[o] = "open" => o \in listed
    /\ phase \in {"intents", "resolve", "fixup", "compare"} =>
          \A o \in Order : ost[o] # "open"

LEMMA SweepListsStep ==
  ASSUME "listing_fails" \notin RecoveryFaults, "sweep_fails" \notin RecoveryFaults,
         BookingInv, Tended, SweepLists, RecoveryNext
  PROVE  SweepLists'
<1>0. ost \in [Order -> OrderStates]
  BY DEF BookingInv, RunInv, EntryTypeOK
<1>1. CASE WhileUp(EngineStep)
  <2>1. phase' = "up"
    BY <1>1 DEF WhileUp, restartVars, recovering
  <2> QED
    BY <2>1 DEF SweepLists
<1>2. CASE Crash
  <2>1. phase' = "down"
    BY <1>2 DEF Crash
  <2> QED
    BY <2>1 DEF SweepLists
<1>3. CASE VenueStep /\ UNCHANGED restartVars
  <2>1. UNCHANGED <<phase, listed>>
    BY <1>3 DEF restartVars, recovering
  <2>2. \A p \in Order : /\ ost'[p] = "sent" => ost[p] = "sent"
                         /\ ost'[p] = "open" => ost[p] = "open" \/ ost[p] = "sent"
    BY <1>3, VenueMoves DEF Answers, Fills, BookingInv
  <2> QED
    BY <2>1, <2>2 DEF SweepLists
<1>4. CASE ReconcileStep
  <2>1. /\ t = Idle
        /\ \A p \in Order : ost'[p] = ost[p] \/ (ost[p] = "open" /\ ost'[p] = "cancelled")
    BY <1>4, ReconcileMoves
  <2>2. \A p \in Order : ost'[p] = "open" => ost[p] = "open"
    BY <2>1
  <2>3. \A p \in Order : ost'[p] # "sent"
    <3>1. \A p \in Order : ost[p] # "sent"
      BY <1>4 DEF SweepLists, ReconcileStep, BeginReconcile, SweepOrder, EndSweep,
         LookupIntent, ResolveIntent, EndIntents, FixUp, Compare
    <3> QED
      BY <2>1, <3>1
  <2>4. CASE BeginReconcile
    <3>1. /\ phase' = "sweep" /\ UNCHANGED ost
          /\ listed' = {o \in Order : Active /\ ost[o] = "open"}
      BY <2>4 DEF BeginReconcile, vars, venue
    <3>2. \A p \in Order : ost[p] = "open" => Active
      BY <2>1, OrderPositive DEF Tended, OrderLive, Hand, Idle, Dead, Active
    <3> QED
      BY <2>3, <3>1, <3>2 DEF SweepLists
  <2>5. ASSUME NEW o \in Order, SweepOrder(o) PROVE SweepLists'
    <3>1. /\ phase = "sweep" /\ phase' = "sweep" /\ listed' = listed \ {o}
          /\ \/ ost' = [ost EXCEPT ![o] = "cancelled"]
             \/ ost[o] # "open" /\ ost' = ost
      BY <2>5 DEF SweepOrder
    <3>2. ost'[o] # "open"
      BY <1>0, <3>1
    <3> QED
      BY <2>2, <2>3, <3>1, <3>2 DEF SweepLists
  <2>6. CASE EndSweep
    <3>1. phase = "sweep" /\ phase' = "intents" /\ listed = {}
      BY <2>6 DEF EndSweep
    <3> QED
      BY <2>2, <2>3, <3>1 DEF SweepLists
  <2>7. CASE \/ ResolveIntent \/ EndIntents \/ FixUp \/ Compare
             \/ \E o \in Order : LookupIntent(o)
    <3>1. phase \in {"intents", "resolve", "fixup", "compare"} /\ phase' # "sweep"
      BY <2>7 DEF LookupIntent, ResolveIntent, EndIntents, FixUp, Compare
    <3> QED
      BY <2>2, <2>3, <3>1 DEF SweepLists
  <2> QED
    BY <1>4, <2>4, <2>5, <2>6, <2>7 DEF ReconcileStep
<1> QED
  BY <1>1, <1>2, <1>3, <1>4 DEF RecoveryNext

\* The order in hand stays the only one that can fill, through restarts.
LEMMA TendedRestart ==
  ASSUME BookingInv, HandInv, Tended, SweepLists, ReconcileStep \/ Crash
  PROVE  Tended'
<1>1. Idle.pc = "idle" /\ Idle.oid = 0
  BY DEF Idle
<1>2. CASE Crash
  <2>1. t' = Idle /\ UNCHANGED <<ost, state>>
    BY <1>2 DEF Crash, venue, db
  <2>2. \A p \in Order : OrderLive(p) => Dead'
    <3>1. CASE t.pc = "idle"
      <4>1. Hand = 0 /\ Dead' = Dead
        BY <1>1, <2>1, <3>1 DEF Hand, HandInv, Dead
      <4> QED
        BY <4>1, OrderPositive DEF Tended
    <3>2. CASE t.pc # "idle"
      BY <1>1, <2>1, <3>2 DEF HandInv, Dead
    <3> QED
      BY <3>1, <3>2
  <2> QED
    BY <1>1, <2>1, <2>2 DEF Tended, OrderLive
<1>3. CASE ReconcileStep
  <2>1. /\ t = Idle /\ t' = t
        /\ \A p \in Order : ost'[p] = ost[p] \/ (ost[p] = "open" /\ ost'[p] = "cancelled")
    BY <1>3, ReconcileMoves
  <2>2. \A p \in Order : OrderLive(p)' => OrderLive(p) /\ Dead
    BY <1>1, <2>1, OrderPositive DEF Hand, Tended, OrderLive
  <2>3. CASE FixUp
    <3>1. \A p \in Order : ~OrderLive(p)
      BY <2>3 DEF FixUp, SweepLists, OrderLive
    <3> QED
      BY <1>1, <2>1, <2>2, <3>1 DEF Tended, OrderLive
  <2>4. CASE ~FixUp
    <3>1. state' = state
      BY <1>3, <2>4 DEF ReconcileStep, BeginReconcile, SweepOrder, EndSweep, LookupIntent,
         ResolveIntent, EndIntents, Compare, vars, db
    <3>2. Dead' = Dead
      BY <2>1, <3>1 DEF Dead
    <3> QED
      BY <1>1, <2>1, <2>2, <3>2 DEF Tended, OrderLive
  <2> QED
    BY <2>3, <2>4
<1> QED
  BY <1>2, <1>3

LEMMA TendedThroughRestarts ==
  ASSUME "place_ambiguous" \notin Faults, "cancel_fails" \notin Faults,
         "listing_fails" \notin RecoveryFaults, "sweep_fails" \notin RecoveryFaults
  PROVE  RecoverySpec => [](Tended /\ SweepLists)
<1>1. RecoveryInit => Tended /\ SweepLists
  BY TendedInit DEF RecoveryInit, SweepLists
<1>2. BookingInv /\ HandInv /\ Tended /\ SweepLists /\ [RecoveryNext]_allVars
        => Tended' /\ SweepLists'
  <2> SUFFICES ASSUME BookingInv, HandInv, Tended, SweepLists, [RecoveryNext]_allVars
               PROVE  Tended' /\ SweepLists'
    OBVIOUS
  <2>1. CASE UNCHANGED allVars
    BY <2>1 DEF Tended, SweepLists, OrderLive, Hand, Dead, allVars, vars, venue, db,
       recovering
  <2>2. CASE RecoveryNext
    BY <2>2, SweepListsStep, TendedStep, TendedRestart DEF RecoveryNext, WhileUp, BookingInv
  <2> QED
    BY <2>1, <2>2
<1> QED
  BY <1>1, <1>2, BookingInvariance, HandThroughRestarts, PTL DEF RecoverySpec

\* Whichever step of whichever run a crash cuts short, filled orders, lost
\* replies and crashes in the middle of reconcile included: when reconcile has
\* been through the sweep and the intents, no order can still fill.  The listing
\* and the cancellations must work; the lookups must where a place request may
\* be given up for lost.
THEOREM NothingRests ==
  ASSUME "cancel_fails" \notin Faults,
         "listing_fails" \notin RecoveryFaults, "sweep_fails" \notin RecoveryFaults,
         "lookup_fails" \notin RecoveryFaults \/ "place_ambiguous" \notin Faults
  PROVE  RecoverySpec => []NothingRestsAfterSweep
<1>1. CASE "lookup_fails" \notin RecoveryFaults
  BY <1>1, NothingInDoubtRests
<1>2. CASE "place_ambiguous" \notin Faults
  <2>1. SweepLists => NothingRestsAfterSweep
    BY DEF SweepLists, NothingRestsAfterSweep, OrderLive
  <2> QED
    BY <1>2, <2>1, TendedThroughRestarts, PTL
<1> QED
  BY <1>1, <1>2

\* The position as reconcile read it is the position still, until the fix-up
\* takes it out of mid-entry.
SnapInv ==
    /\ phase \in {"sweep", "intents", "resolve", "fixup"} => snap.state = state
    /\ phase = "compare" => state # "ENTERING"

LEMMA SnapInvStep ==
  ASSUME BookingInv, SnapInv, RecoveryNext PROVE SnapInv'
<1>1. CASE WhileUp(EngineStep)
  <2>1. phase' = "up"
    BY <1>1 DEF WhileUp, restartVars, recovering
  <2> QED
    BY <2>1 DEF SnapInv
<1>2. CASE VenueStep /\ UNCHANGED restartVars
  <2>1. UNCHANGED <<phase, snap, state>>
    BY <1>2, VenueMoves DEF restartVars, recovering, db, BookingInv
  <2> QED
    BY <2>1 DEF SnapInv
<1>3. CASE Crash
  <2>1. phase' = "down"
    BY <1>3 DEF Crash
  <2> QED
    BY <2>1 DEF SnapInv
<1>4. CASE BeginReconcile
  <2>1. snap'.state = state /\ state' = state /\ phase' = "sweep"
    BY <1>4 DEF BeginReconcile, vars, db
  <2> QED
    BY <2>1 DEF SnapInv
<1>5. CASE EndSweep \/ EndIntents \/ ResolveIntent
           \/ \E o \in Order : SweepOrder(o) \/ LookupIntent(o)
  <2>1. /\ UNCHANGED <<snap, state>>
        /\ phase \in {"sweep", "intents", "resolve"} /\ phase' # "compare"
    BY <1>5 DEF EndSweep, EndIntents, ResolveIntent, SweepOrder, LookupIntent, vars, db
  <2> QED
    BY <2>1 DEF SnapInv
<1>6. CASE FixUp
  <2>1. phase = "fixup" /\ phase' = "compare" /\ snap.state = state
        /\ state' \in {"OPEN", "CANCELLED", state}
        /\ (state \in {"PENDING_ENTRY", "ENTERING"} => state' \in {"OPEN", "CANCELLED"})
    BY <1>6 DEF FixUp, SnapInv
  <2> QED
    BY <2>1 DEF SnapInv
<1>7. CASE Compare
  <2>1. phase' = "up"
    BY <1>7 DEF Compare
  <2> QED
    BY <2>1 DEF SnapInv
<1> QED
  BY <1>1, <1>2, <1>3, <1>4, <1>5, <1>6, <1>7 DEF RecoveryNext, ReconcileStep

\* What is true of the legs at every moment: they differ by what is owed, or
\* the operator was told, or reconcile has yet to look at the position: it is
\* in mid-entry, or its last comparison with the venue is to come.
NakedInv ==
    \/ warned
    \/ Dead
    \/ phase # "up" /\ state = "CANCELLED"
    \/ Balance + Unseen = 0

LEMMA NakedInvRestart ==
  ASSUME "risk_fails" \notin RecoveryFaults,
         BookingInv, HedgeInv, HandInv, SnapInv, NakedInv, ReconcileStep \/ Crash
  PROVE  NakedInv'
<1>0. vPerp \in Int /\ vSpot \in Nat
  BY DEF BookingInv, RunInv, EntryTypeOK
<1>1. Idle.pc = "idle" /\ Idle.oid = 0 /\ Owed(Idle) = 0
  BY DEF Idle, Owed
<1>2. CASE Crash
  <2>1. t' = Idle /\ UNCHANGED <<exec, placed, vPerp, vSpot, state, warned>> /\ phase' = "down"
    BY <1>2 DEF Crash, venue, db
  <2>2. CASE t.pc # "idle"
    BY <1>1, <2>1, <2>2 DEF NakedInv, HandInv, Dead
  <2>3. CASE t.pc = "idle"
    <3>1. t.oid = 0 /\ Owed(t) = 0 /\ Dead' = Dead
      BY <1>1, <2>1, <2>3 DEF HandInv, Owed, Dead
    <3>2. Unseen = 0 /\ Unseen' = 0
      BY <1>1, <2>1, <2>3, <3>1 DEF Unseen
    <3>3. Balance' = Balance
      BY <1>1, <2>1, <3>1 DEF Balance
    <3> QED
      BY <2>1, <3>1, <3>2, <3>3 DEF NakedInv
  <2> QED
    BY <2>2, <2>3
<1>3. CASE ReconcileStep
  <2>1. /\ t = Idle /\ UNCHANGED <<t, exec, placed, vPerp, vSpot>> /\ phase # "up"
        /\ warned => warned'
    BY <1>3, ReconcileMoves
  <2>2. Balance' = Balance /\ Unseen' = Unseen
    BY <2>1 DEF Balance, Unseen
  <2>3. CASE state' = state /\ phase' # "up"
    BY <2>1, <2>2, <2>3 DEF NakedInv, Dead
  <2>4. CASE FixUp
    <3>1. phase' = "compare"
          /\ (state' = state \/ (state' = "OPEN" /\ warned' = TRUE) \/ state' = "CANCELLED")
      BY <2>4 DEF FixUp
    <3> QED
      BY <2>3, <3>1 DEF NakedInv
  <2>5. CASE Compare
    <3>1. /\ phase = "compare" /\ state # "ENTERING"
          /\ mismatch' = (ActivePerp # vPerp)
          /\ warned' = IF mismatch' THEN TRUE ELSE warned
      BY <2>5 DEF Compare, SnapInv
    <3>2. CASE warned
      BY <2>1, <3>2 DEF NakedInv
    <3>3. CASE Balance + Unseen = 0
      BY <2>2, <3>3 DEF NakedInv
    <3>4. CASE state = "CANCELLED" /\ vPerp # 0
      <4>1. warned' = TRUE
        BY <3>1, <3>4 DEF ActivePerp, Active
      <4> QED
        BY <4>1 DEF NakedInv
    <3>5. CASE state = "CANCELLED" /\ vPerp = 0
      <4>1. Owed(t) = 0 /\ Unseen = 0
        BY <1>1, <2>1 DEF Unseen
      <4>2. vSpot = 0
        BY <1>0, <3>5, <4>1 DEF HedgeInv
      <4>3. Balance + Unseen = 0
        BY <3>5, <4>1, <4>2 DEF Balance
      <4> QED
        BY <3>3, <4>3
    <3> QED
      BY <3>1, <3>2, <3>3, <3>4, <3>5 DEF NakedInv, Dead
  <2>6. CASE \/ BeginReconcile \/ EndSweep \/ ResolveIntent \/ EndIntents
             \/ \E o \in Order : SweepOrder(o) \/ LookupIntent(o)
    <3>1. state' = state /\ phase' # "up"
      BY <2>6 DEF BeginReconcile, SweepOrder, EndSweep, LookupIntent, ResolveIntent,
         EndIntents, vars, db
    <3> QED
      BY <2>3, <3>1
  <2> QED
    BY <1>3, <2>4, <2>5, <2>6 DEF ReconcileStep
<1> QED
  BY <1>2, <1>3

LEMMA NakedInvRun ==
  ASSUME SpotStep = 1,
         "place_ambiguous" \notin Faults, "unwind_ambiguous" \notin Faults,
         BookingInv, HedgeInv, HandInv, Tended, NakedInv, BookingInv', HedgeInv',
         UNCHANGED restartVars, VenueStep \/ (phase = "up" /\ EngineStep)
  PROVE  NakedInv'
<1>1. phase' = phase /\ RunInv /\ RunInv'
  BY DEF restartVars, recovering, BookingInv
<1>2. CASE LegsInv
  <2>1. LegsInv'
    BY <1>1, <1>2, LegsInvStep
  <2> QED
    BY <2>1 DEF LegsInv, NakedInv
<1>3. CASE ~LegsInv
  <2>1. phase # "up" /\ state = "CANCELLED" /\ VenueStep
    BY <1>3 DEF LegsInv, NakedInv
  <2>2. state' = state
    BY <1>1, <2>1, VenueMoves DEF db
  <2> QED
    BY <1>1, <2>1, <2>2 DEF NakedInv
<1> QED
  BY <1>2, <1>3

LEMMA NakedThroughRestarts ==
  ASSUME SpotStep = 1, "place_ambiguous" \notin Faults, "cancel_fails" \notin Faults,
         "unwind_ambiguous" \notin Faults, RecoveryFaults \subseteq {"lookup_fails"}
  PROVE  RecoverySpec => [](SnapInv /\ NakedInv)
<1> DEFINE Inv == SnapInv /\ NakedInv
<1>1. RecoveryInit => Inv
  <2> SUFFICES ASSUME RecoveryInit PROVE Inv
    OBVIOUS
  <2>1. EntryInit /\ phase = "up"
    BY DEF RecoveryInit
  <2>2. LegsInv
    BY <2>1, LegsInvInit
  <2> QED
    BY <2>1, <2>2 DEF SnapInv, NakedInv, LegsInv
<1>2. BookingInv /\ BookingInv' /\ HedgeInv /\ HedgeInv' /\ HandInv /\ Tended
        /\ Inv /\ [RecoveryNext]_allVars => Inv'
  <2> SUFFICES ASSUME BookingInv, BookingInv', HedgeInv, HedgeInv', HandInv, Tended, Inv,
                      [RecoveryNext]_allVars
               PROVE  Inv'
    OBVIOUS
  <2>1. CASE UNCHANGED allVars
    BY <2>1 DEF SnapInv, NakedInv, Dead, Balance, Unseen, allVars, vars, venue, db, recovering
  <2>2. CASE RecoveryNext
    <3>1. SnapInv'
      BY <2>2, SnapInvStep
    <3>2. CASE UNCHANGED restartVars /\ (VenueStep \/ (phase = "up" /\ EngineStep))
      BY <3>1, <3>2, NakedInvRun
    <3>3. CASE ReconcileStep \/ Crash
      <4>1. NakedInv'
        BY <3>3, NakedInvRestart
      <4> QED
        BY <3>1, <4>1
    <3> QED
      BY <2>2, <3>2, <3>3 DEF RecoveryNext, WhileUp
  <2> QED
    BY <2>1, <2>2
<1>3. RecoverySpec => [](Tended /\ SweepLists)
  BY TendedThroughRestarts
<1> QED
  BY <1>1, <1>2, <1>3, HedgeInvariance, HandThroughRestarts, PTL DEF RecoverySpec

\* A crash at any point of a run or of reconcile does not leave legs that
\* differ without a word to the operator once the engine is up again, as long
\* as the requests that trade, and reconcile's but its lookups, get an answer.
THEOREM NakedLegIsTold ==
  ASSUME SpotStep = 1, "place_ambiguous" \notin Faults, "cancel_fails" \notin Faults,
         "unwind_ambiguous" \notin Faults, RecoveryFaults \subseteq {"lookup_fails"}
  PROVE  RecoverySpec => []NakedLegIsReported
<1>1. BookingInv /\ HandInv /\ NakedInv => NakedLegIsReported
  <2> SUFFICES ASSUME BookingInv, HandInv, NakedInv, phase = "up" PROVE LegsMatchOrWarned
    BY DEF NakedLegIsReported
  <2>1. LegsInv
    BY DEF NakedInv, LegsInv
  <2> QED
    BY <2>1, SettledLegs DEF BookingInv
<1> QED
  BY <1>1, NakedThroughRestarts, BookingInvariance, HandThroughRestarts, PTL

-------------------------------------------------------------------------------
\* What may still be sold by the order in hand and the ones to come: what
\* remains of the run less the fills it has not seen.
Wanted == IF t.pc = "idle" THEN room ELSE t.remaining - Unseen

\* One order at most can fill, for no more than is wanted, and no more is
\* wanted than the runs have left to sell.
RoomInv ==
    /\ room >= 0
    /\ Wanted <= room
    /\ \A o \in Order : OrderLive(o) => oqty[o] - exec[o] <= Wanted
    /\ \A o, p \in Order : OrderLive(o) /\ OrderLive(p) => o = p

LEMMA RoomInvInit == EntryInit => RoomInv
<1> SUFFICES ASSUME EntryInit PROVE RoomInv
  OBVIOUS
<1>1. Wanted = 0 /\ room = 0
  BY DEF EntryInit, Idle, Wanted
<1>2. \A o \in Order : ~OrderLive(o)
  BY DEF EntryInit, OrderLive
<1> QED
  BY <1>1, <1>2 DEF RoomInv

LEMMA WantedType ==
  ASSUME RunInv
  PROVE  /\ room \in Int /\ Unseen \in Int /\ Wanted \in Int /\ t.remaining \in Int
         /\ oqty \in [Order -> Nat] /\ exec \in [Order -> Nat]
<1>1. /\ room \in Int /\ t.remaining \in Int
      /\ oqty \in [Order -> Nat] /\ exec \in [Order -> Nat]
  BY DEF RunInv, EntryTypeOK, Task
<1>2. Unseen \in Int
  BY UnseenPositive
<1> QED
  BY <1>1, <1>2 DEF Wanted

LEMMA WantedTypeNext ==
  RunInv' => (Unseen \in Int /\ Wanted \in Int /\ t.remaining \in Int)'
<1>1. RunInv => Unseen \in Int /\ Wanted \in Int /\ t.remaining \in Int
  BY WantedType
<1> QED
  BY <1>1, PTL

\* Nothing fills, nothing is placed, and no less is wanted.
LEMMA NoFill ==
  ASSUME RunInv, RunInv', RoomInv, UNCHANGED <<oqty, exec, room>>,
         Wanted <= Wanted', Wanted' <= room,
         \A p \in Order : OrderLive(p)' => OrderLive(p)
  PROVE  RoomInv'
<1>1. Wanted \in Int /\ Wanted' \in Int /\ room \in Int
  BY WantedType, WantedTypeNext
<1>2. \A p \in Order : oqty[p] \in Int /\ exec[p] \in Int
  BY WantedType
<1>3. \A p \in Order : OrderLive(p)' => oqty'[p] - exec'[p] <= Wanted'
  BY <1>1, <1>2 DEF RoomInv
<1> QED
  BY <1>3 DEF RoomInv

\* Nobody is at work after the step: the runs may still sell what is left.
LEMMA NobodyWants ==
  ASSUME RunInv, RunInv', RoomInv, t'.pc = "idle", UNCHANGED <<oqty, exec, room>>,
         \A p \in Order : OrderLive(p)' => OrderLive(p)
  PROVE  RoomInv'
<1>1. Wanted' = room /\ Wanted <= room /\ room \in Int
  BY WantedType DEF Wanted, RoomInv
<1> QED
  BY <1>1, NoFill

\* Between runs nothing can fill.
LEMMA NothingBetweenRuns ==
  ASSUME HandInv, Tended, t.pc = "idle", state # "ENTERING"
  PROVE  \A o \in Order : ~OrderLive(o)
<1>1. Hand = 0 /\ ~Dead
  BY DEF HandInv, Hand, Dead
<1> QED
  BY <1>1, OrderPositive DEF Tended

\* A fill is of the order that is wanted, or of the one a dead run left.
LEMMA VenueKeepsRoom ==
  ASSUME RunInv, RunInv', HandInv, Tended, RoomInv, VenueStep PROVE RoomInv'
<1>0. /\ vPerp \in Int /\ ost \in [Order -> OrderStates]
      /\ \A p \in Order : oqty[p] \in Int /\ exec[p] \in Int
      /\ room \in Int /\ Unseen \in Int /\ Wanted \in Int /\ t.remaining \in Int
  BY WantedType DEF RunInv, EntryTypeOK
<1>1. UNCHANGED <<oqty, placed, t, state>>
  BY VenueMoves DEF db
<1>2. PICK o \in Order : /\ Answers(o) \/ (\E k \in Nat : Fills(o, k))
                         /\ \A p \in Order : p # o => ost'[p] = ost[p] /\ exec'[p] = exec[p]
  BY VenueMoves
<1>3. \A p \in Order : OrderLive(p)' => OrderLive(p)
  BY <1>2 DEF Answers, Fills, OrderLive
<1>4. CASE Answers(o)
  <2>1. UNCHANGED <<exec, room>>
    BY <1>4 DEF Answers
  <2>2. Unseen' = Unseen /\ Wanted' = Wanted
    BY <1>1, <2>1 DEF Unseen, Wanted
  <2>3. Wanted <= Wanted' /\ Wanted' <= room
    BY <1>0, <2>2 DEF RoomInv
  <2> QED
    BY <1>1, <1>3, <2>1, <2>3, NoFill
<1>5. CASE \E k \in Nat : Fills(o, k)
  <2>1. PICK k \in Nat : Fills(o, k)
    BY <1>5
  <2>2. /\ OrderLive(o) /\ room' = room - k /\ vPerp' = vPerp + k
        /\ exec'[o] = exec[o] + k /\ exec[o] + k <= oqty[o]
    BY <2>1 DEF Fills, OrderLive
  <2>3. oqty[o] - exec[o] <= Wanted /\ Wanted <= room
    BY <2>2 DEF RoomInv
  <2>4. room' >= 0
    BY <1>0, <2>2, <2>3
  <2>5. Wanted' = Wanted - k
    <3>1. CASE t.pc = "idle"
      BY <1>1, <2>2, <3>1 DEF Wanted
    <3>2. CASE t.pc # "idle"
      <4>1. ~Dead
        BY <3>2 DEF Dead
      <4>2. PICK j \in Nat : vPerp' = vPerp + j /\ Unseen' = Unseen + j
        BY <4>1, FillIsUnseen
      <4>3. j = k
        BY <1>0, <2>2, <4>2
      <4>4. Wanted = t.remaining - Unseen /\ Wanted' = t.remaining - (Unseen + k)
        BY <1>1, <3>2, <4>2, <4>3 DEF Wanted
      <4> QED
        BY <1>0, <4>4
    <3> QED
      BY <3>1, <3>2
  <2>6. Wanted' <= room'
    BY <1>0, <2>2, <2>3, <2>5
  <2>7. oqty'[o] - exec'[o] <= Wanted'
    <3>1. oqty'[o] = oqty[o]
      BY <1>1
    <3> QED
      BY <1>0, <2>2, <2>3, <2>5, <3>1
  <2>8. \A p \in Order : OrderLive(p)' => p = o
    BY <1>3, <2>2 DEF RoomInv
  <2> QED
    BY <2>4, <2>6, <2>7, <2>8 DEF RoomInv
<1> QED
  BY <1>2, <1>4, <1>5

LEMMA RoomInvStep ==
  ASSUME "place_ambiguous" \notin Faults, "cancel_fails" \notin Faults,
         RunInv, RunInv', HandInv, Tended, RoomInv, VenueStep \/ EngineStep
  PROVE  RoomInv'
<1>0. /\ ost \in [Order -> OrderStates] /\ t.oid \in Order \cup {0}
      /\ \A p \in Order : oqty[p] \in Int /\ exec[p] \in Int
      /\ oqty \in [Order -> Nat] /\ exec \in [Order -> Nat]
      /\ room \in Int /\ Unseen \in Int /\ Wanted \in Int /\ t.remaining \in Int
      /\ Unseen' \in Int /\ t'.remaining \in Int
  BY WantedType, WantedTypeNext DEF RunInv, EntryTypeOK, Task
\* A step that changes nothing but the frame, and in it nothing that is wanted.
<1>1. ASSUME UNCHANGED <<oqty, exec, room>>, t.pc # "idle", t'.pc # "idle",
             t'.remaining - Unseen' = t.remaining - Unseen,
             \A p \in Order : OrderLive(p)' => OrderLive(p)
      PROVE  RoomInv'
  <2>1. Wanted' = Wanted
    BY <1>1 DEF Wanted
  <2>2. Wanted <= Wanted' /\ Wanted' <= room
    BY <1>0, <2>1 DEF RoomInv
  <2> QED
    BY <1>1, <2>2, NoFill
<1>2. CASE VenueStep
  BY <1>2, VenueKeepsRoom
<1>3. CASE HedgeStep \/ UnwindTimesOut \/ SpotAmbiguous \/ BuyBackAmbiguous
  <2>1. HedgeMoves
    BY <1>3, HedgeStepMoves, AmbiguousMoves
  <2>2. /\ UNCHANGED <<ost, oqty, exec, placed, room>> /\ t.pc # "idle" /\ t'.pc # "idle"
        /\ t'.remaining = t.remaining
    BY <2>1 DEF HedgeMoves
  <2>3. Unseen' = Unseen
    BY <2>1 DEF HedgeMoves, Unseen
  <2>4. \A p \in Order : OrderLive(p)' => OrderLive(p)
    BY <2>2 DEF OrderLive
  <2> QED
    BY <1>1, <2>2, <2>3, <2>4
<1>4. CASE AskToStop
  <2>1. UNCHANGED <<ost, oqty, exec, placed, room, t>>
    BY <1>4 DEF AskToStop, venue
  <2>2. Wanted' = Wanted
    BY <2>1 DEF Wanted, Unseen
  <2> QED
    BY <2>1, <2>2 DEF RoomInv, OrderLive
<1>5. CASE LeaveLoop \/ RestNothing \/ PlaceReply \/ CancelOrder
           \/ (\E reprice \in BOOLEAN : Poll(reprice)) \/ ReadCancelled
  <2>1. /\ t.pc \in LoopPlaces /\ t'.pc \in LoopPlaces /\ room' = room
        /\ t'.remaining - Unseen' = t.remaining - Unseen
    BY <1>5, LoopTurns
  <2>2. CASE CancelOrder
    <3>1. /\ UNCHANGED <<oqty, exec>>
          /\ \A p \in Order : OrderLive(p)' => OrderLive(p)
      BY <1>0, <2>2, CancelMoves DEF OrderLive
    <3> QED
      BY <1>1, <2>1, <3>1 DEF LoopPlaces
  <2>3. CASE ~CancelOrder
    <3>1. UNCHANGED venue
      BY <1>5, <2>3 DEF LeaveLoop, RestNothing, PlaceReply, PlaceConfirmed, PlaceRejected,
         PlaceAmbiguous, PlaceReplies, Poll, ReadCancelled
    <3>2. /\ UNCHANGED <<oqty, exec>>
          /\ \A p \in Order : OrderLive(p)' => OrderLive(p)
      BY <3>1 DEF venue, OrderLive
    <3> QED
      BY <1>1, <2>1, <3>2 DEF LoopPlaces
  <2> QED
    BY <2>2, <2>3
<1>6. ASSUME NEW q \in 1..Target, Place(q) PROVE RoomInv'
  <2>1. /\ Unseen = 0 /\ Unseen' = 0 /\ room' = room /\ t.pc = "top" /\ t'.pc = "placing"
        /\ t'.remaining = t.remaining /\ placed' \in Order /\ q <= t.remaining
        /\ oqty' = [oqty EXCEPT ![placed'] = q] /\ exec' = exec /\ exec[placed'] = 0
        /\ ost' = [ost EXCEPT ![placed'] = "sent"]
    BY <1>6, PlaceMoves DEF Unseen
  <2>2. Wanted = t.remaining /\ Wanted' = t.remaining
    BY <1>0, <2>1 DEF Wanted
  <2>3. Hand = 0 /\ ~Dead
    BY <1>6, <2>1, PlaceMoves DEF Hand, Dead
  <2>4. \A p \in Order : ~OrderLive(p)
    BY <2>3, OrderPositive DEF Tended
  <2>5. \A p \in Order : OrderLive(p)' => p = placed'
    BY <1>0, <2>1, <2>4 DEF OrderLive
  <2>6. oqty'[placed'] - exec'[placed'] <= Wanted'
    <3>1. oqty'[placed'] = q /\ exec'[placed'] = 0 /\ q \in Int
      BY <1>0, <2>1, EntryAssumption
    <3> QED
      BY <1>0, <2>1, <2>2, <3>1
  <2> QED
    BY <2>1, <2>2, <2>5, <2>6 DEF RoomInv
<1>7. CASE StartRun \/ StartWithoutQuotes \/ EndAdd \/ EndRun \/ TaskDies
  <2>1. UNCHANGED <<ost, oqty, exec, placed>> /\ (Begins \/ BeginsNot \/ Ends \/ Dies)
    BY <1>7, RunMoves DEF venue
  <2>2. \A p \in Order : OrderLive(p)' => OrderLive(p)
    BY <2>1 DEF OrderLive
  <2>3. CASE Begins
    <3>1. \A p \in Order : ~OrderLive(p)
      BY <2>3, NothingBetweenRuns DEF Begins
    <3>2. Unseen' = 0
      BY <2>3 DEF Begins, Unseen
    <3>3. Wanted' = Target - 0 /\ room' = room + Target /\ room >= 0 /\ Target \in Nat
      BY <2>3, <3>2, EntryAssumption DEF Begins, Wanted, RoomInv
    <3>4. room' >= 0 /\ Wanted' <= room'
      BY <1>0, <3>3
    <3> QED
      BY <2>2, <3>1, <3>4 DEF RoomInv
  <2>4. CASE BeginsNot \/ Ends \/ Dies
    <3>1. t'.pc = "idle" /\ room' = room
      BY <2>4, IdleType DEF BeginsNot, Ends, Dies
    <3> QED
      BY <2>1, <2>2, <3>1, NobodyWants
  <2> QED
    BY <2>1, <2>3, <2>4
<1> QED
  BY <1>2, <1>3, <1>4, <1>5, <1>6, <1>7
  DEF EngineStep, TaskStep, LoopStep, FaultStep

LEMMA RoomInvRestart ==
  ASSUME BookingInv, BookingInv', RoomInv, ReconcileStep \/ Crash PROVE RoomInv'
<1>1. CASE Crash
  <2>1. t' = Idle /\ UNCHANGED <<ost, oqty, exec, room>>
    BY <1>1 DEF Crash, venue
  <2> QED
    BY <2>1, IdleType, NobodyWants DEF BookingInv, OrderLive
<1>2. CASE ReconcileStep
  <2>1. /\ t = Idle /\ UNCHANGED <<t, oqty, exec, room>>
        /\ \A p \in Order : ost'[p] = ost[p] \/ (ost[p] = "open" /\ ost'[p] = "cancelled")
    BY <1>2, ReconcileMoves
  <2>2. \A p \in Order : OrderLive(p)' => OrderLive(p)
    BY <2>1 DEF OrderLive
  <2> QED
    BY <2>1, <2>2, IdleType, NobodyWants DEF BookingInv
<1> QED
  BY <1>1, <1>2

\* The maker orders of a run, repriced after partial fills and taken down while
\* fills race the cancellations, never sell more than the run was asked to, in
\* every run whose place and cancel requests get an answer.
THEOREM SellsNoMoreThanAsked ==
  ASSUME "place_ambiguous" \notin Faults, "cancel_fails" \notin Faults
  PROVE  EntrySpec => []NeverOversold
<1>1. RunInv /\ RunInv' /\ HandInv /\ Tended /\ RoomInv /\ [EntryNext]_vars => RoomInv'
  <2> SUFFICES ASSUME RunInv, RunInv', HandInv, Tended, RoomInv, [EntryNext]_vars
               PROVE  RoomInv'
    OBVIOUS
  <2>1. CASE UNCHANGED vars
    BY <2>1 DEF RoomInv, Wanted, Unseen, OrderLive, vars, venue, db
  <2>2. CASE EntryNext
    BY <2>2, RoomInvStep DEF EntryNext
  <2> QED
    BY <2>1, <2>2
<1>2. RoomInv => NeverOversold
  BY DEF RoomInv, NeverOversold
<1> QED
  BY <1>1, <1>2, RoomInvInit, RunInvariance, TendedInvariance, PTL DEF EntrySpec

\* The same through crashes and restarts.
LEMMA RoomThroughRestarts ==
  ASSUME "place_ambiguous" \notin Faults, "cancel_fails" \notin Faults,
         "listing_fails" \notin RecoveryFaults, "sweep_fails" \notin RecoveryFaults
  PROVE  RecoverySpec => []RoomInv
<1>1. RecoveryInit => RoomInv
  BY RoomInvInit DEF RecoveryInit
<1>2. BookingInv /\ BookingInv' /\ HandInv /\ Tended /\ RoomInv /\ [RecoveryNext]_allVars
        => RoomInv'
  <2> SUFFICES ASSUME BookingInv, BookingInv', HandInv, Tended, RoomInv,
                      [RecoveryNext]_allVars
               PROVE  RoomInv'
    OBVIOUS
  <2>1. CASE UNCHANGED allVars
    BY <2>1 DEF RoomInv, Wanted, Unseen, OrderLive, allVars, vars, venue, db
  <2>2. CASE RecoveryNext
    BY <2>2, RoomInvStep, RoomInvRestart DEF RecoveryNext, WhileUp, BookingInv
  <2> QED
    BY <2>1, <2>2
<1>3. RecoverySpec => [](Tended /\ SweepLists)
  BY TendedThroughRestarts
<1> QED
  BY <1>1, <1>2, <1>3, BookingInvariance, HandThroughRestarts, PTL DEF RecoverySpec
-------------------------------------------------------------------------------
\* The account as TwoLegs tells it: somebody is at work on the position.
AtWork == state = "ENTERING" \/ phase # "up"

LEMMA SpotBelowNext == (RunInv /\ HedgeInv)' => SpotNeverLeads'
<1>1. RunInv /\ HedgeInv => SpotNeverLeads
  BY HedgedBelow
<1> QED
  BY <1>1, PTL

LEMMA RoomTypeNext == (RunInv /\ RoomInv)' => (room \in Int /\ room >= 0)'
<1>1. RunInv /\ RoomInv => room \in Int /\ room >= 0
  BY WantedType DEF RoomInv
<1> QED
  BY <1>1, PTL

\* When nobody is at work the legs are equal, or the operator was told.
LEMMA LeftAlone ==
  (BookingInv /\ HandInv /\ NakedInv)' => (t.pc = "idle" /\ ~AtWork => warned \/ vPerp = vSpot)'
<1>1. BookingInv /\ HandInv /\ NakedInv => (t.pc = "idle" /\ ~AtWork => warned \/ vPerp = vSpot)
  <2> SUFFICES ASSUME BookingInv, HandInv, NakedInv, t.pc = "idle", ~AtWork, ~warned
               PROVE  vPerp = vSpot
    OBVIOUS
  <2>1. t.oid = 0 /\ vPerp \in Int /\ vSpot \in Int
    BY DEF HandInv, BookingInv, RunInv, EntryTypeOK
  <2>2. (vSpot + 0 - vPerp) + 0 = 0
    BY <2>1 DEF NakedInv, AtWork, Dead, Balance, Owed, Unseen
  <2> QED
    BY <2>1, <2>2
<1> QED
  BY <1>1, PTL

\* The account does not trade, and whoever is at work stays at work: nothing
\* happens in TwoLegs, or the operator is told.
LEMMA QuietLegs ==
  ASSUME UNCHANGED <<vPerp, vSpot, room>>, AtWork' = AtWork,
         warned' = warned \/ (warned' = TRUE /\ AtWork)
  PROVE  [Legs!Next]_Legs!legsVars
  BY DEF AtWork, Legs!Next, Legs!Tell, Legs!legsVars

\* A fill is a sale, while a run or a restart is to look after it.
LEMMA FillIsSale ==
  ASSUME BookingInv, BookingInv', HandInv, Tended, RoomInv, RoomInv', VenueStep,
         UNCHANGED restartVars
  PROVE  [Legs!Next]_Legs!legsVars
<1>0. RunInv /\ RunInv' /\ phase' = phase
  BY DEF BookingInv, restartVars, recovering
<1>1. UNCHANGED <<placed, vSpot, state, t, warned>>
  BY <1>0, VenueMoves DEF db
<1>2. PICK o \in Order : Answers(o) \/ (\E k \in Nat : Fills(o, k))
  BY <1>0, VenueMoves
<1>3. vPerp \in Int /\ room \in Int
  BY <1>0 DEF RunInv, EntryTypeOK
<1>4. AtWork' = AtWork
  BY <1>0, <1>1 DEF AtWork
<1>5. CASE UNCHANGED <<vPerp, room>>
  BY <1>1, <1>4, <1>5, QuietLegs
<1>6. ASSUME NEW k \in Nat, k # 0, Fills(o, k) PROVE Legs!Next
  <2>1. OrderLive(o) /\ vPerp' = vPerp + k /\ room' = room - k
    BY <1>6 DEF Fills, OrderLive
  <2>2. state = "ENTERING"
    <3>1. CASE Dead
      BY <3>1 DEF Dead
    <3>2. CASE ~Dead
      <4>1. Hand # 0
        BY <2>1, <3>2, OrderPositive DEF Tended
      <4> QED
        BY <4>1 DEF HandInv, Hand
    <3> QED
      BY <3>1, <3>2
  <2>3. k \in 1..room
    <3>1. room' >= 0
      BY <1>0, RoomTypeNext
    <3> QED
      BY <1>3, <1>6, <2>1, <3>1
  <2>4. Legs!Sell(k)
    BY <1>0, <1>1, <2>1, <2>2, <2>3 DEF Legs!Sell
  <2> QED
    BY <2>3, <2>4 DEF Legs!Next
<1>7. ASSUME NEW k \in Nat, k = 0, Fills(o, k) PROVE UNCHANGED <<vPerp, room>>
  BY <1>3, <1>7 DEF Fills
<1> QED
  BY <1>2, <1>5, <1>6, <1>7 DEF Answers

\* The steps of a run.
LEMMA RunIsLegs ==
  ASSUME "unwind_ambiguous" \notin Faults, "place_ambiguous" \notin Faults,
         BookingInv, BookingInv', HandInv, HandInv', HedgeInv', NakedInv',
         phase = "up", EngineStep, UNCHANGED restartVars
  PROVE  [Legs!Next]_Legs!legsVars
<1>0. RunInv /\ RunInv' /\ phase' = "up"
  BY DEF BookingInv, restartVars, recovering
<1>1. /\ vPerp \in Int /\ vSpot \in Int /\ vPerp' \in Int /\ vSpot' \in Int
      /\ vSpot' <= vPerp'
  BY <1>0, SpotBelowNext DEF RunInv, EntryTypeOK, SpotNeverLeads
<1>2. ASSUME t.pc # "idle" PROVE AtWork
  BY <1>2 DEF HandInv, AtWork
<1>3. ASSUME NEW k \in 0..Target, BuySpot(k) PROVE Legs!Next
  <2>1. /\ t.pc = "buy" /\ k \in Int /\ k >= 0 /\ vSpot' = vSpot + k
        /\ UNCHANGED <<vPerp, room, warned, state>>
    BY <1>3, EntryAssumption DEF BuySpot, db
  <2>2. vSpot' \in vSpot..vPerp /\ AtWork
    BY <1>1, <1>2, <2>1
  <2>3. Legs!Hedge
    BY <1>0, <2>1, <2>2 DEF Legs!Hedge, AtWork
  <2> QED
    BY <2>3 DEF Legs!Next
<1>4. ASSUME NEW k \in 0..Target, BuyBack(k) PROVE Legs!Next
  <2>1. /\ t.pc = "unwind" /\ k \in Int /\ k >= 0 /\ vPerp' = vPerp - k
        /\ UNCHANGED <<vSpot, room, warned, state>>
    BY <1>4, EntryAssumption DEF BuyBack, db
  <2>2. vPerp' \in vSpot..vPerp /\ AtWork
    BY <1>1, <1>2, <2>1
  <2>3. Legs!BuyBack
    BY <1>0, <2>1, <2>2 DEF Legs!BuyBack, AtWork
  <2> QED
    BY <2>3 DEF Legs!Next
<1>5. CASE \/ NothingToHedge \/ HedgeAll \/ (\E salvage \in 0..Target : HedgePart(salvage))
           \/ SpotBought \/ SpotRejected \/ BoughtBack
  <2>1. UNCHANGED <<vPerp, vSpot, room, warned, state>>
    BY <1>5 DEF NothingToHedge, HedgeAll, HedgePart, SpotBought, SpotRejected, BoughtBack,
       venue, db
  <2> QED
    BY <1>0, <2>1, QuietLegs DEF AtWork
<1>6. CASE UnwindTimesOut \/ SpotAmbiguous
  <2>1. /\ t.pc # "idle" /\ warned' = TRUE
        /\ UNCHANGED <<vPerp, vSpot, room, state>>
    BY <1>6 DEF UnwindTimesOut, SpotAmbiguous, venue, db
  <2> QED
    BY <1>0, <1>2, <2>1, QuietLegs DEF AtWork
<1>7. CASE AskToStop
  <2>1. UNCHANGED <<vPerp, vSpot, room, warned, state>>
    BY <1>7 DEF AskToStop, venue, db
  <2> QED
    BY <1>0, <2>1, QuietLegs DEF AtWork
<1>8. CASE LoopStep \/ PlaceReply
  <2>1. UNCHANGED <<vPerp, vSpot, room, warned, state>>
    BY <1>0, <1>8, LoopTurns DEF LoopStep
  <2> QED
    BY <1>0, <2>1, QuietLegs DEF AtWork
<1>9. CASE StartRun \/ StartWithoutQuotes \/ EndAdd \/ EndRun \/ TaskDies
  <2>1. UNCHANGED <<vPerp, vSpot>> /\ (Begins \/ BeginsNot \/ Ends \/ Dies)
    BY <1>0, <1>9, RunMoves DEF venue
  <2>2. CASE Begins
    <3>1. Legs!Begin
      BY <2>1, <2>2 DEF Begins, Legs!Begin
    <3> QED
      BY <3>1 DEF Legs!Next
  <2>3. CASE BeginsNot \/ Dies
    <3>1. UNCHANGED <<room, warned>> /\ AtWork' = AtWork
      BY <1>0, <2>3 DEF BeginsNot, Dies, AtWork
    <3> QED
      BY <2>1, <3>1, QuietLegs
  <2>4. CASE Ends
    <3>1. /\ t'.pc = "idle" /\ ~AtWork' /\ AtWork /\ room' = room
          /\ warned' = TRUE \/ warned' = warned
      BY <1>0, <1>2, <2>4, IdleType DEF Ends, AtWork
    <3>2. vPerp = vSpot \/ warned'
      BY <2>1, <3>1, LeftAlone
    <3>3. Legs!End
      BY <2>1, <3>1, <3>2 DEF Legs!End, AtWork
    <3> QED
      BY <3>3 DEF Legs!Next
  <2> QED
    BY <2>1, <2>2, <2>3, <2>4
<1> QED
  BY <1>3, <1>4, <1>5, <1>6, <1>7, <1>8, <1>9
  DEF EngineStep, TaskStep, HedgeStep, FaultStep, BuyBackAmbiguous

\* The crashes and the steps of a restart.
LEMMA RestartIsLegs ==
  ASSUME BookingInv, BookingInv', HandInv', NakedInv', ReconcileStep \/ Crash
  PROVE  [Legs!Next]_Legs!legsVars
<1>1. CASE Crash
  <2>1. UNCHANGED <<vPerp, vSpot, room, warned>> /\ phase' = "down"
    BY <1>1 DEF Crash, venue
  <2>2. Legs!Halt
    BY <2>1 DEF Legs!Halt
  <2> QED
    BY <2>2 DEF Legs!Next
<1>2. CASE ReconcileStep
  <2>1. /\ t = Idle /\ UNCHANGED <<t, vPerp, vSpot, room>> /\ phase # "up"
        /\ warned' = TRUE \/ warned' = warned
    <3>1. warned \in BOOLEAN /\ warned' \in BOOLEAN
      BY DEF BookingInv, RunInv, EntryTypeOK
    <3> QED
      BY <1>2, <3>1, ReconcileMoves
  <2>2. CASE AtWork'
    BY <2>1, <2>2, QuietLegs DEF AtWork
  <2>3. CASE ~AtWork'
    <3>1. vPerp = vSpot \/ warned'
      BY <2>1, <2>3, IdleType, LeftAlone
    <3>2. Legs!End
      BY <2>1, <2>3, <3>1 DEF Legs!End, AtWork
    <3> QED
      BY <3>2 DEF Legs!Next
  <2> QED
    BY <2>2, <2>3
<1> QED
  BY <1>1, <1>2

\* Runs, crashes and restarts, seen from the account, are the life of two legs
\* that TwoLegs describes: no sale while nobody is at work, none beyond what
\* the runs were started for, never more spot than perp, and no position left
\* alone with unequal legs in silence.
THEOREM RunsAndRestartsAreTwoLegs ==
  ASSUME SpotStep = 1, "place_ambiguous" \notin Faults, "cancel_fails" \notin Faults,
         "unwind_ambiguous" \notin Faults, RecoveryFaults \subseteq {"lookup_fails"}
  PROVE  RecoverySpec => ImplementsTwoLegs
<1>1. RecoveryInit => Legs!Init
  <2> SUFFICES ASSUME RecoveryInit PROVE Legs!Init
    OBVIOUS
  <2>1. /\ vPerp \in Nat /\ vSpot = vPerp /\ room = 0 /\ warned = FALSE
        /\ state # "ENTERING" /\ phase = "up"
    BY EntryAssumption DEF RecoveryInit, EntryInit
  <2> QED
    BY <2>1 DEF Legs!Init
<1> DEFINE Inv == /\ BookingInv /\ HedgeInv /\ HandInv /\ Tended /\ NakedInv /\ RoomInv
<1>2. Inv /\ Inv' /\ [RecoveryNext]_allVars => [Legs!Next]_Legs!legsVars
  <2> SUFFICES ASSUME Inv, Inv', [RecoveryNext]_allVars PROVE [Legs!Next]_Legs!legsVars
    OBVIOUS
  <2>1. CASE UNCHANGED allVars
    BY <2>1, QuietLegs DEF AtWork, allVars, vars, venue, db, recovering
  <2>2. CASE VenueStep /\ UNCHANGED restartVars
    BY <2>2, FillIsSale
  <2>3. CASE WhileUp(EngineStep)
    BY <2>3, RunIsLegs DEF WhileUp
  <2>4. CASE ReconcileStep \/ Crash
    BY <2>4, RestartIsLegs
  <2> QED
    BY <2>1, <2>2, <2>3, <2>4 DEF RecoveryNext
<1>3. RecoverySpec => [](Tended /\ SweepLists)
  BY TendedThroughRestarts
<1>4. RecoverySpec => [](SnapInv /\ NakedInv)
  BY NakedThroughRestarts
<1>5. RecoverySpec => []RoomInv
  BY RoomThroughRestarts
<1> QED
  BY <1>1, <1>2, <1>3, <1>4, <1>5, HedgeInvariance, HandThroughRestarts, PTL
  DEF RecoverySpec, ImplementsTwoLegs, Legs!Spec

================================================================================
