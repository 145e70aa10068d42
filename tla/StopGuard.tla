------------------------------- MODULE StopGuard -------------------------------
(***************************************************************************)
(* The protection of one open position: the safety loop of the engine, the *)
(* protective orders (a perp STOP on Aster, a spot sell LIMIT on MEXC), the *)
(* hedge guard that reacts to what the venues did by themselves, and the   *)
(* commands and runs that interleave with it.                              *)
(*                                                                         *)
(* The sweep is one coroutine; sw.pc is the await it is at and the other   *)
(* fields what it has read so far: sw.perp, sw.spot and sw.open are the    *)
(* row as it was when the sweep began.  The exit, sell-down and add tasks  *)
(* are reduced to their fills, each booked at once (ExitRun and EntryRun   *)
(* have their inside).  A unit of quantity exceeds the tolerances.         *)
(* Clocks are choices: a poll is due or not, a window is over or not.      *)
(***************************************************************************)
EXTENDS Integers, FiniteSetsExt

CONSTANTS
    Held,         \* contracts held, and hedged, at the start
    ExitFloors,   \* floors that /exit is given
    MaxStops,     \* protective orders placed in a behaviour
    MaxReduced,   \* times the venue closes contracts by itself
    MaxOps,       \* closes, stand-downs and adds in a behaviour
    MaxRenewals,  \* times /stops is given
    MaxRestarts,  \* restarts of the engine in a behaviour
    StopFaults    \* which of StopFaultKinds may happen

StopFaultKinds ==
    {"check_first",   \* the balance check books what a stop of ours sold before
                      \* the poll of that stop or the guard does
     "risk_stalls",   \* positionRisk is not refreshed for a confirmation window
     "row_moves",     \* a run fills while the sweep is between its read of the row
                      \* and what it does with it
     "refound",       \* a spot LIMIT the guard booked a part of, and left, is found
                      \* by its prefix at a later deficit
     "dies_between",  \* a restart between a venue or a row that changed and
                      \* the stop_orders row that says so
     "deadline",      \* a run reaches its deadline before it is done
     "refused",       \* a buy-back is refused
     "lost_reply",    \* ... or placed, and its reply lost
     "stops_cut_in",  \* /stops replaces orders while the sweep handles one that fired, or
                      \* while a close begins or works under a row that says OPEN
     "add_unseen",    \* an add begins and ends between two looks of the guard, while
                      \* the window runs or the guard acts
     "cancel_fails"}  \* neither cancel nor listing works

ASSUME StopAssumption ==
    /\ Held \in Nat \ {0} /\ ExitFloors \subseteq Nat
    /\ MaxStops \in Nat /\ MaxReduced \in Nat
    /\ MaxOps \in Nat /\ MaxRenewals \in Nat /\ MaxRestarts \in Nat
    /\ StopFaults \subseteq StopFaultKinds

VARIABLES
    vPerp, vSpot,  \* the short perp and the spot at the venues
    ord,           \* protective orders, by order of placement
    reduced,       \* times the venue closed contracts by itself
    risk,          \* _position_risk: the last snapshot, and whether it is later than
                   \* the guard's first sight of a deficit
    state, exitReq, floorReq, dbPerp, dbSpot,  \* the position's row
    saved,         \* its row in stop_orders: Aster id, MEXC id
    known,         \* _stops_orders in memory
    hedgeBreak,    \* the guard has seen a deficit and is confirming it
    spotDeficit,   \* so has the spot check
    spotClose,     \* _spot_stop_close: the spot stop filled first
    grace,         \* _stop_grace
    task,          \* the run working on the position, and its floor
    lock,          \* the stop lock: who holds it
    sw,            \* the sweep
    op,            \* the close in progress, a command's or the loop's
    renew,         \* /stops: the row it read, how far it is, its perp stop
    ops, renewals, restarts,  \* counters
    warned         \* the operator was asked to look at the position

world == <<vPerp, vSpot, ord, reduced, risk>>
row == <<state, exitReq, floorReq, dbPerp, dbSpot>>
memory == <<known, hedgeBreak, spotDeficit, spotClose, grace>>
commands == <<renew, ops, renewals, restarts>>
stopVars == <<world, row, saved, memory, task, lock, sw, op, commands, warned>>

Id == 1..MaxStops
NoStops == [a |-> 0, m |-> 0]
NoGrace == [m |-> 0, booked |-> 0, floor |-> 0]
NoTask == [kind |-> "none", floor |-> 0]
NoRenew == [pc |-> "none", perp |-> 0, spot |-> 0, a |-> 0]
Asleep == [pc |-> "idle", perp |-> 0, spot |-> 0, open |-> FALSE, own |-> FALSE,
           a |-> 0, m |-> 0, venue |-> 0, booked |-> 0]

StopInit ==
    /\ vPerp = Held /\ vSpot = Held /\ reduced = 0
    /\ ord = [o \in Id |-> [leg |-> "none", st |-> "none", qty |-> 0, exec |-> 0]]
    /\ risk = [perp |-> Held, later |-> FALSE]
    /\ state = "OPEN" /\ exitReq = FALSE /\ floorReq = 0 /\ dbPerp = Held /\ dbSpot = Held
    /\ saved = NoStops /\ known = NoStops
    /\ hedgeBreak = FALSE /\ spotDeficit = FALSE /\ spotClose = FALSE /\ grace = NoGrace
    /\ task = NoTask /\ lock = "none" /\ sw = Asleep /\ op = "none" /\ renew = NoRenew
    /\ renewals = 0 /\ ops = 0 /\ restarts = 0 /\ warned = FALSE

Live(o) == o \in Id /\ ord[o].st = "live"
LiveOn(leg) == {o \in Id : Live(o) /\ ord[o].leg = leg}
Executed(o) == IF o = 0 THEN 0 ELSE ord[o].exec
\* The spot that no resting sell LIMIT locks.
FreeSpot == vSpot - MapThenSumSet(LAMBDA o : ord[o].qty - ord[o].exec, LiveOn("spot"))
Placed == Cardinality({o \in Id : ord[o].st # "none"})
Placing(leg, q) == [ord EXCEPT ![Placed + 1] = [leg |-> leg, st |-> "live", qty |-> q, exec |-> 0]]
\* _cancel_stop_orders: every order of ours that rests, found by its prefix.
AllCancelled == [o \in Id |-> IF Live(o) THEN [ord[o] EXCEPT !.st = "dead"] ELSE ord[o]]
Sweep(frame) == sw' = frame
Goes(pc) == Sweep([sw EXCEPT !.pc = pc])
Rest == Sweep(Asleep)

-------------------------------------------------------------------------------
\* The venues, and the tasks by their fills.

OrderFills(o, k) ==
    /\ Live(o)
    /\ k <= ord[o].qty - ord[o].exec
    /\ k <= (IF ord[o].leg = "perp" THEN vPerp ELSE vSpot)
    /\ ord' = [ord EXCEPT ![o].exec = @ + k,
                          ![o].st = IF ord[o].exec + k = ord[o].qty THEN "filled" ELSE "live"]
    /\ IF ord[o].leg = "perp" THEN vPerp' = vPerp - k /\ UNCHANGED vSpot
                              ELSE vSpot' = vSpot - k /\ UNCHANGED vPerp
    /\ UNCHANGED <<reduced, risk, row, saved, memory, task, lock, sw, op, commands, warned>>

\* A reduce-only order with nothing left to reduce is cancelled by Aster.
OrderLapses(o) ==
    /\ Live(o) /\ ord[o].leg = "perp" /\ vPerp = 0
    /\ ord' = [ord EXCEPT ![o].st = "dead"]
    /\ UNCHANGED <<vPerp, vSpot, reduced, risk, row, saved, memory, task, lock, sw, op,
                   commands, warned>>

\* Auto-deleveraging, liquidation, a hand on the exchange's screen.
Reduced(k) ==
    /\ reduced < MaxReduced /\ k <= vPerp
    /\ reduced' = reduced + 1 /\ vPerp' = vPerp - k
    /\ UNCHANGED <<vSpot, ord, risk, row, saved, memory, task, lock, sw, op, commands, warned>>

RefreshRisk ==
    /\ risk' = [perp |-> vPerp, later |-> TRUE]
    /\ UNCHANGED <<vPerp, vSpot, ord, reduced, row, saved, memory, task, lock, sw, op,
                   commands, warned>>

\* The sweep has read the row and not yet compared it with the venues.
RowInHand == sw.pc \in {"stop", "perp", "disarm", "sold", "buyback", "balance", "guard"}
RowMayMove == RowInHand => "row_moves" \in StopFaults

TaskBuys(k) ==
    /\ task.kind = "exit"
    /\ k <= Min({dbPerp - task.floor, vPerp})
    /\ RowMayMove
    /\ vPerp' = vPerp - k /\ dbPerp' = dbPerp - k
    /\ UNCHANGED <<vSpot, ord, reduced, risk, state, exitReq, floorReq, dbSpot, saved,
                   memory, task, lock, sw, op, commands, warned>>

TaskSells(k) ==
    /\ task.kind \in {"exit", "selldown"}
    /\ k <= Min({dbSpot - task.floor, FreeSpot})
    /\ RowMayMove
    /\ vSpot' = vSpot - k /\ dbSpot' = dbSpot - k
    /\ UNCHANGED <<vPerp, ord, reduced, risk, state, exitReq, floorReq, dbPerp, saved,
                   memory, task, lock, sw, op, commands, warned>>

\* _complete_exit: a partial close is OPEN again, a full one CLOSED when flat.
Finish(f) ==
    IF f > 0 /\ (dbPerp > 0 \/ dbSpot > 0)
    THEN state' = "OPEN" /\ exitReq' = FALSE /\ floorReq' = 0 /\ UNCHANGED warned
    ELSE IF dbPerp <= 0 /\ dbSpot <= 0
    THEN state' = "CLOSED" /\ UNCHANGED <<exitReq, floorReq, warned>>
    ELSE warned' = TRUE /\ UNCHANGED <<state, exitReq, floorReq>>

\* An exit or sell-down that is done, or at its deadline.
TaskDone == dbSpot <= task.floor /\ (task.kind = "exit" => dbPerp <= task.floor)
TaskEnds ==
    /\ task.kind \in {"exit", "selldown"}
    /\ TaskDone \/ "deadline" \in StopFaults
    /\ Finish(task.floor)
    /\ task' = NoTask
    /\ UNCHANGED <<world, dbPerp, dbSpot, saved, memory, lock, sw, op, commands>>

\* An add has filled one contract and its hedge.  A look of the guard at a position
\* with a run ends the window; an add that is over before the next one does not.
AddEnds ==
    /\ task.kind = "add" /\ RowMayMove
    /\ hedgeBreak \/ sw.pc = "which" => "add_unseen" \in StopFaults
    /\ vPerp' = vPerp + 1 /\ vSpot' = vSpot + 1
    /\ dbPerp' = dbPerp + 1 /\ dbSpot' = dbSpot + 1
    /\ task' = NoTask
    /\ UNCHANGED <<ord, reduced, risk, state, exitReq, floorReq, saved, memory, lock, sw, op,
                   commands, warned>>

-------------------------------------------------------------------------------
\* _safety_loop and _check_spot_stop_fill.

SweepBegins ==
    /\ sw.pc = "idle"
    /\ state \in {"OPEN", "EXITING"}
    /\ Sweep([Asleep EXCEPT !.pc = IF grace = NoGrace THEN "stop" ELSE "grace",
                            !.perp = dbPerp, !.spot = dbSpot, !.open = (state = "OPEN"),
                            !.m = grace.m, !.booked = grace.booked, !.venue = grace.floor])
    /\ UNCHANGED <<world, row, saved, memory, task, lock, op, commands, warned>>

\* A stop of ours fired: from the poll that finds it filled to the buy-back, from
\* the guard's bookings to the sell-down, and in the grace window.
Fired ==
    \/ sw.pc \in {"perp", "disarm", "sold", "buyback", "which", "twin", "free", "selldown",
                  "grace", "lapse"}
    \/ grace # NoGrace
CutIn == "stops_cut_in" \in StopFaults

MinePolls == sw.open /\ sw.perp > 0 /\ ~spotClose /\ known.m # 0

\* Nothing to poll, or not due, or the lookup failed; or the buy-back works.
NoPoll ==
    /\ sw.pc = "stop"
    /\ IF sw.open /\ sw.perp > 0 /\ spotClose
       THEN Sweep([sw EXCEPT !.pc = "guard", !.own = TRUE])
       ELSE Goes("balance")
    /\ UNCHANGED <<world, row, saved, memory, task, lock, op, commands, warned>>

PollSpotStop ==
    /\ sw.pc = "stop" /\ MinePolls
    /\ ord[known.m].st = "filled" /\ renew.pc # "none" => CutIn
    /\ IF ord[known.m].st = "filled"
       THEN Sweep([sw EXCEPT !.pc = "perp", !.a = known.a, !.m = known.m])
       ELSE Goes("balance")
    /\ UNCHANGED <<world, row, saved, memory, task, lock, op, commands, warned>>

\* The perp stop is still armed and has not fired: cancel it first.
PollPerpStop ==
    /\ sw.pc = "perp"
    /\ Goes(IF sw.a = 0 THEN "sold" ELSE IF Executed(sw.a) > 0 THEN "balance"
            ELSE IF Live(sw.a) THEN "disarm" ELSE "sold")
    /\ UNCHANGED <<world, row, saved, memory, task, lock, op, commands, warned>>

\* A cancel that fails may leave a second buy-back: try again at the next poll.
Disarm ==
    /\ sw.pc = "disarm"
    /\ \/ Live(sw.a) /\ ord' = [ord EXCEPT ![sw.a].st = "dead"] /\ Goes("sold")
       \/ (~Live(sw.a) \/ "cancel_fails" \in StopFaults) /\ Goes("balance") /\ UNCHANGED ord
    /\ UNCHANGED <<vPerp, vSpot, reduced, risk, row, saved, memory, task, lock, op,
                   commands, warned>>

\* The sale is booked, up to what the row still had of it.
BookSpotStop ==
    /\ sw.pc = "sold"
    /\ dbSpot' = dbSpot - Min({Executed(sw.m), sw.spot})
    /\ Goes(IF Min({sw.perp, Executed(sw.m)}) > 0 THEN "buyback" ELSE "balance")
    /\ UNCHANGED <<world, state, exitReq, floorReq, dbPerp, saved, memory, task, lock, op,
                   commands, warned>>

BuyBack ==
    /\ sw.pc = "buyback"
    /\ \/ /\ Placed < MaxStops
          /\ ord' = Placing("perp", Min({sw.perp, Executed(sw.m)}))
          /\ known' = [known EXCEPT !.a = Placed + 1, !.m = 0]
          /\ saved' = [a |-> Placed + 1, m |-> 0]
          /\ spotClose' = TRUE /\ UNCHANGED warned
       \/ /\ \/ "refused" \in StopFaults /\ UNCHANGED ord
             \/ /\ "lost_reply" \in StopFaults /\ Placed < MaxStops
                /\ ord' = Placing("perp", Min({sw.perp, Executed(sw.m)}))
          /\ warned' = TRUE /\ UNCHANGED <<known, saved, spotClose>>
    /\ Sweep([sw EXCEPT !.pc = "guard", !.own = TRUE])
    /\ UNCHANGED <<vPerp, vSpot, reduced, risk, row, hedgeBreak, spotDeficit, grace, task,
                   lock, op, commands>>

-------------------------------------------------------------------------------
\* _check_spot_integrity: a deficit of two checks in a row is booked as sold.

NoBalance ==
    /\ sw.pc = "balance"
    /\ Goes(IF sw.open THEN "guard" ELSE "idle")
    /\ UNCHANGED <<world, row, saved, memory, task, lock, op, commands, warned>>

CheckBalance ==
    LET deficit == sw.spot - vSpot IN
    /\ sw.pc = "balance" /\ sw.spot > 0
    /\ deficit > 0 /\ spotDeficit => Executed(known.m) = 0 \/ "check_first" \in StopFaults
    /\ spotDeficit' = (deficit > 0 /\ ~spotDeficit)
    /\ dbSpot' = dbSpot - (IF deficit > 0 /\ spotDeficit THEN deficit ELSE 0)
    /\ warned' = (warned \/ (deficit > 0 /\ spotDeficit))
    /\ Goes(IF sw.open THEN "guard" ELSE "idle")
    /\ UNCHANGED <<world, state, exitReq, floorReq, dbPerp, saved, known, hedgeBreak,
                   spotClose, grace, task, lock, op, commands>>

-------------------------------------------------------------------------------
\* _check_hedge_integrity.

Deficit == sw.perp - risk.perp
Guarded == sw.open /\ sw.perp > 0 /\ (sw.spot > 0 \/ spotClose)
PastGuard == Sweep([Asleep EXCEPT !.pc = IF sw.own \/ ~sw.open THEN "idle" ELSE "ensure"])

\* Not the guard's case, a run is at work, or the legs match.
GuardPasses ==
    /\ sw.pc = "guard"
    /\ ~Guarded \/ task.kind # "none" \/ Deficit <= 0
    /\ hedgeBreak' = (hedgeBreak /\ ~Guarded)
    /\ PastGuard
    /\ UNCHANGED <<world, row, saved, known, spotDeficit, spotClose, grace, task, lock, op,
                   commands, warned>>

DeficitSeen == sw.pc = "guard" /\ Guarded /\ task.kind = "none" /\ Deficit > 0

\* First sight: the window begins.
GuardStarts ==
    /\ DeficitSeen /\ ~hedgeBreak
    /\ hedgeBreak' = TRUE /\ risk' = [risk EXCEPT !.later = FALSE]
    /\ Rest
    /\ UNCHANGED <<vPerp, vSpot, ord, reduced, row, saved, known, spotDeficit, spotClose,
                   grace, task, lock, op, commands, warned>>

GuardWaits ==
    /\ DeficitSeen /\ hedgeBreak
    /\ Rest
    /\ UNCHANGED <<world, row, saved, memory, task, lock, op, commands, warned>>

\* Deviation: the first sight is confirmation enough.
ConfirmedAtOnce == DeficitSeen

\* The window is longer than the refresh period of the snapshot.
Confirmed == DeficitSeen /\ hedgeBreak /\ (risk.later \/ "risk_stalls" \in StopFaults)

\* The ids of our stops; a spot LIMIT whose id is lost is found by its prefix.
Found == {o \in LiveOn("spot") : ord[o].exec = 0 \/ "refound" \in StopFaults}
GuardActs ==
    /\ Confirmed
    /\ renew.pc # "none" => CutIn
    /\ hedgeBreak' = FALSE
    /\ \E m \in IF known.m = 0 /\ Found # {} THEN Found ELSE {known.m} :
          Sweep([sw EXCEPT !.pc = "which", !.a = known.a, !.m = m, !.venue = risk.perp])
    /\ UNCHANGED <<world, row, saved, known, spotDeficit, spotClose, grace, task, lock, op,
                   commands, warned>>

\* Deviation: a stop that has filled in part is waited for, resting or not.
BookPerpWaits ==
    /\ sw.pc = "which"
    /\ IF Executed(sw.a) > 0
       THEN hedgeBreak' = TRUE /\ Rest /\ UNCHANGED dbPerp
       ELSE dbPerp' = dbPerp - (sw.perp - sw.venue) /\ Goes("twin") /\ UNCHANGED hedgeBreak
    /\ UNCHANGED <<world, state, exitReq, floorReq, dbSpot, saved, known, spotDeficit,
                   spotClose, grace, task, lock, op, commands, warned>>

\* A stop of ours that is still filling is waited for; anything else is booked.
BookPerp ==
    /\ sw.pc = "which"
    /\ IF Executed(sw.a) > 0 /\ Live(sw.a)
       THEN hedgeBreak' = TRUE /\ Rest /\ UNCHANGED dbPerp
       ELSE dbPerp' = dbPerp - (sw.perp - sw.venue) /\ Goes("twin") /\ UNCHANGED hedgeBreak
    /\ UNCHANGED <<world, state, exitReq, floorReq, dbSpot, saved, known, spotDeficit,
                   spotClose, grace, task, lock, op, commands, warned>>

\* What the spot LIMIT sold is booked; then its rest is left to it for a while,
\* or sold by a run of our own, or there is none.
BookTwin ==
    /\ sw.pc = "twin"
    /\ dbSpot' = dbSpot - Executed(sw.m)
    /\ exitReq' = TRUE /\ floorReq' = sw.venue
    /\ known' = NoStops /\ saved' = NoStops /\ spotClose' = FALSE
    /\ IF dbSpot' <= sw.venue THEN Goes("finish") /\ UNCHANGED <<state, grace>>
       ELSE IF Live(sw.m)
       THEN /\ grace' = [m |-> sw.m, booked |-> Executed(sw.m), floor |-> sw.venue]
            /\ state' = "EXITING" /\ Rest
       ELSE Goes("free") /\ UNCHANGED <<state, grace>>
    /\ UNCHANGED <<world, dbPerp, hedgeBreak, spotDeficit, task, lock, op, commands, warned>>

GuardFinishes ==
    /\ sw.pc = "finish"
    /\ Finish(sw.venue)
    /\ Rest
    /\ UNCHANGED <<world, dbPerp, dbSpot, saved, memory, task, lock, op, commands>>

\* _cancel_stops_for, then the alert that names the sell-down.
FreeTheSpot ==
    /\ sw.pc = "free" /\ lock = "none" /\ renew.pc # "wait"
    /\ ord' \in {AllCancelled} \cup (IF "cancel_fails" \in StopFaults THEN {ord} ELSE {})
    /\ known' = NoStops /\ saved' = NoStops /\ grace' = NoGrace
    /\ warned' = TRUE
    /\ Goes("selldown")
    /\ UNCHANGED <<vPerp, vSpot, reduced, risk, row, hedgeBreak, spotDeficit, spotClose,
                   task, lock, op, commands>>

StartSellDown ==
    /\ sw.pc = "selldown"
    /\ task' = [kind |-> "selldown", floor |-> sw.venue]
    /\ state' = "EXITING"
    /\ Rest
    /\ UNCHANGED <<world, exitReq, floorReq, dbPerp, dbSpot, saved, memory, lock, op,
                   commands, warned>>

-------------------------------------------------------------------------------
\* _check_stop_grace.

GraceLookupFails ==
    /\ sw.pc = "grace"
    /\ Rest
    /\ UNCHANGED <<world, row, saved, memory, task, lock, op, commands, warned>>

\* Deviation: what was booked is not remembered.
GraceForgets(over) ==
    /\ sw.pc = "grace"
    /\ dbSpot' = dbSpot - (Executed(sw.m) - sw.booked)
    /\ IF dbSpot' <= sw.venue THEN grace' = NoGrace /\ Goes("finish")
       ELSE IF ~over /\ Live(sw.m) THEN UNCHANGED grace /\ Rest
       ELSE grace' = NoGrace /\ Goes(IF Live(sw.m) THEN "lapse" ELSE "selldown")
    /\ UNCHANGED <<world, state, exitReq, floorReq, dbPerp, saved, known, hedgeBreak,
                   spotDeficit, spotClose, task, lock, op, commands, warned>>

GraceLooks(over) ==
    /\ sw.pc = "grace"
    /\ dbSpot' = dbSpot - (Executed(sw.m) - sw.booked)
    /\ IF dbSpot' <= sw.venue THEN grace' = NoGrace /\ Goes("finish")
       ELSE IF ~over /\ Live(sw.m)
       THEN /\ grace' = IF grace = NoGrace THEN NoGrace ELSE [grace EXCEPT !.booked = Executed(sw.m)]
            /\ Rest
       ELSE grace' = NoGrace /\ Goes(IF Live(sw.m) THEN "lapse" ELSE "selldown")
    /\ UNCHANGED <<world, state, exitReq, floorReq, dbPerp, saved, known, hedgeBreak,
                   spotDeficit, spotClose, task, lock, op, commands, warned>>

\* The window is over: the rest is cancelled, unless the cancel fails.
GraceLapses ==
    /\ sw.pc = "lapse"
    /\ \/ Live(sw.m) /\ ord' = [ord EXCEPT ![sw.m].st = "dead"]
       \/ (~Live(sw.m) \/ "cancel_fails" \in StopFaults) /\ UNCHANGED ord
    /\ Goes("selldown")
    /\ UNCHANGED <<vPerp, vSpot, reduced, risk, row, saved, memory, task, lock, op,
                   commands, warned>>

-------------------------------------------------------------------------------
\* _ensure_stops and _place_stops.

StopsWanted ==
    /\ state = "OPEN" /\ dbPerp > 0 /\ dbSpot > 0
    /\ ~exitReq /\ task.kind = "none" /\ grace = NoGrace /\ ~hedgeBreak

NoStopsNow ==
    /\ sw.pc = "ensure"
    /\ Rest
    /\ UNCHANGED <<world, row, saved, memory, task, lock, op, commands, warned>>

\* Under the lock the row is read again; size or liquidation price have changed.
EnsureStops ==
    /\ sw.pc = "ensure" /\ lock = "none"
    /\ StopsWanted
    /\ Placed + 3 <= MaxStops      \* a bound; one order is kept for the buy-back
    /\ lock' = "sweep"
    /\ Sweep([sw EXCEPT !.pc = "clear", !.perp = dbPerp, !.spot = dbSpot])
    /\ UNCHANGED <<world, row, saved, memory, task, op, commands, warned>>

\* Deviation: what rests already is left there.
StackStops ==
    /\ sw.pc = "clear"
    /\ Goes("armperp")
    /\ UNCHANGED <<world, row, saved, memory, task, lock, op, commands, warned>>

ClearStops ==
    /\ sw.pc = "clear"
    /\ ord' \in {AllCancelled} \cup (IF "cancel_fails" \in StopFaults THEN {ord} ELSE {})
    /\ Goes("armperp")
    /\ UNCHANGED <<vPerp, vSpot, reduced, risk, row, saved, memory, task, lock, op,
                   commands, warned>>

\* A STOP, a STOP_MARKET in its place, or a buy-back LIMIT past the trigger.
ArmPerp ==
    /\ sw.pc = "armperp"
    /\ \/ ord' = Placing("perp", sw.perp) /\ Sweep([sw EXCEPT !.pc = "armspot", !.a = Placed + 1])
       \/ UNCHANGED ord /\ Sweep([sw EXCEPT !.pc = "armspot", !.a = 0])
    /\ UNCHANGED <<vPerp, vSpot, reduced, risk, row, saved, memory, task, lock, op,
                   commands, warned>>

ArmSpot ==
    /\ sw.pc = "armspot"
    /\ \E ok \in {FALSE} \cup {sw.spot <= FreeSpot} :
          /\ ord' = IF ok THEN Placing("spot", sw.spot) ELSE ord
          /\ known' = [a |-> sw.a, m |-> IF ok THEN Placed + 1 ELSE 0]
    /\ saved' = known'
    /\ lock' = "none"
    /\ Rest
    /\ UNCHANGED <<vPerp, vSpot, reduced, risk, row, hedgeBreak, spotDeficit, spotClose,
                   grace, task, op, commands, warned>>

-------------------------------------------------------------------------------
\* Commands, the loop's own closes (which are written like /exit), restarts.

\* The request is written first; then the stops are cancelled under the lock.
AskClose(f) ==
    /\ op = "none" /\ ops < MaxOps
    /\ state \in {"OPEN", "EXITING"} /\ f < dbPerp
    /\ ops' = ops + 1
    /\ exitReq' = TRUE /\ floorReq' = f
    /\ op' = "stops"
    /\ UNCHANGED <<world, state, dbPerp, dbSpot, saved, memory, task, lock, sw, renew,
                   renewals, restarts, warned>>

\* Deviation: the stop lock is not waited for.
CancelUnlocked ==
    /\ op = "stops"
    /\ lock' = "op" /\ op' = "cancelled"
    /\ grace' = NoGrace
    /\ ord' = AllCancelled
    /\ UNCHANGED <<vPerp, vSpot, reduced, risk, row, saved, known, hedgeBreak,
                   spotDeficit, spotClose, task, sw, commands, warned>>

CancelStops ==
    /\ op = "stops" /\ lock = "none" /\ renew.pc # "wait"
    /\ lock' = "op" /\ op' = "cancelled"
    /\ grace' = NoGrace
    /\ ord' \in {AllCancelled} \cup (IF "cancel_fails" \in StopFaults THEN {ord} ELSE {})
    /\ UNCHANGED <<vPerp, vSpot, reduced, risk, row, saved, known, hedgeBreak,
                   spotDeficit, spotClose, task, sw, commands, warned>>

StartClose ==
    /\ op = "cancelled"
    /\ known' = NoStops /\ saved' = NoStops
    /\ lock' = "none" /\ op' = "none"
    /\ task' = [kind |-> "exit", floor |-> floorReq]
    /\ state' = "EXITING"
    /\ UNCHANGED <<world, exitReq, floorReq, dbPerp, dbSpot, hedgeBreak, spotDeficit,
                   spotClose, grace, sw, commands, warned>>

\* /cancel of an exit.
StandDown ==
    /\ op = "none" /\ ops < MaxOps
    /\ state = "EXITING" \/ (state = "OPEN" /\ exitReq)
    /\ ops' = ops + 1
    /\ task' = NoTask
    /\ state' = "OPEN" /\ exitReq' = FALSE /\ floorReq' = 0
    /\ UNCHANGED <<world, dbPerp, dbSpot, saved, memory, lock, sw, op, renew, renewals,
                   restarts, warned>>

\* /enter on a held position, whatever the sweep is at.
AskAdd ==
    /\ op = "none" /\ ops < MaxOps
    /\ state = "OPEN" /\ task.kind = "none" /\ ~exitReq
    /\ ops' = ops + 1
    /\ task' = [kind |-> "add", floor |-> 0]
    /\ UNCHANGED <<world, row, saved, memory, lock, sw, op, renew, renewals, restarts, warned>>

\* /stops on a position without an exit request.  The row is read before the lock is
\* waited for, whose queue is first come, first served, and not again; a task, a
\* deficit, a stop that fired and its grace window are not looked at.
AskStops ==
    /\ renew = NoRenew /\ renewals < MaxRenewals
    /\ state = "OPEN" /\ ~exitReq /\ dbPerp > 0 /\ dbSpot > 0
    /\ Fired \/ op # "none" \/ task.kind \in {"exit", "selldown"} => CutIn
    /\ renewals' = renewals + 1
    /\ renew' = [NoRenew EXCEPT !.pc = "wait", !.perp = dbPerp, !.spot = dbSpot]
    /\ UNCHANGED <<world, row, saved, memory, task, lock, sw, op, ops, restarts, warned>>

RenewClears ==
    /\ renew.pc = "wait" /\ lock = "none"
    /\ lock' = "renew" /\ renew' = [renew EXCEPT !.pc = "perp"]
    /\ ord' \in {AllCancelled} \cup (IF "cancel_fails" \in StopFaults THEN {ord} ELSE {})
    /\ UNCHANGED <<vPerp, vSpot, reduced, risk, row, saved, memory, task, sw, op, ops, renewals,
                   restarts, warned>>

RenewPerp ==
    /\ renew.pc = "perp"
    /\ \/ /\ Placed < MaxStops
          /\ ord' = Placing("perp", renew.perp)
          /\ renew' = [renew EXCEPT !.pc = "spot", !.a = Placed + 1]
       \/ renew' = [renew EXCEPT !.pc = "spot"] /\ UNCHANGED ord
    /\ UNCHANGED <<vPerp, vSpot, reduced, risk, row, saved, memory, task, lock, sw, op, ops,
                   renewals, restarts, warned>>

RenewSpot ==
    /\ renew.pc = "spot"
    /\ \E ok \in {FALSE} \cup {Placed < MaxStops /\ renew.spot <= FreeSpot} :
          /\ ord' = IF ok THEN Placing("spot", renew.spot) ELSE ord
          /\ known' = [a |-> renew.a, m |-> IF ok THEN Placed + 1 ELSE 0]
    /\ saved' = known'
    /\ lock' = "none" /\ renew' = NoRenew
    /\ UNCHANGED <<vPerp, vSpot, reduced, risk, row, hedgeBreak, spotDeficit, spotClose,
                   grace, task, sw, op, ops, renewals, restarts, warned>>

\* The engine dies and starts: what stop_orders has is known again, a buy-back
\* in flight is recognised, and a position that was EXITING goes on as /exit does.
Restart ==
    /\ restarts < MaxRestarts
    /\ sw.pc \in {"armspot", "buyback"} \/ renew.pc = "spot" => "dies_between" \in StopFaults
    /\ restarts' = restarts + 1
    /\ known' = saved
    /\ spotClose' = (saved.a # 0 /\ saved.m = 0 /\ dbSpot <= 0 /\ dbPerp > 0)
    /\ hedgeBreak' = FALSE /\ spotDeficit' = FALSE /\ grace' = NoGrace
    /\ risk' = [perp |-> vPerp, later |-> FALSE]
    /\ task' = NoTask /\ lock' = "none" /\ Rest /\ renew' = NoRenew
    /\ op' = IF state = "EXITING" THEN "stops" ELSE "none"
    /\ UNCHANGED <<vPerp, vSpot, ord, reduced, row, saved, ops, renewals, warned>>

-------------------------------------------------------------------------------
VenueMoves ==
    \/ \E o \in Id, k \in 1..(Held + MaxOps) : OrderFills(o, k)
    \/ \E k \in 1..Held : Reduced(k)
VenueTidies == \E o \in Id : OrderLapses(o)

TaskTrades == \E k \in 1..(Held + MaxOps) : TaskBuys(k) \/ TaskSells(k)
TaskWorks == TaskTrades \/ TaskEnds \/ AddEnds

SpotStopStep == NoPoll \/ PollSpotStop \/ PollPerpStop \/ Disarm \/ BookSpotStop \/ BuyBack
GuardStep ==
    \/ GuardPasses \/ GuardStarts \/ GuardWaits \/ GuardActs
    \/ BookPerp \/ BookTwin \/ GuardFinishes \/ FreeTheSpot \/ StartSellDown
GraceStep == (\E over \in BOOLEAN : GraceLooks(over)) \/ GraceLookupFails \/ GraceLapses
EnsureStep == NoStopsNow \/ EnsureStops \/ ClearStops \/ ArmPerp \/ ArmSpot
SweepStep ==
    SweepBegins \/ SpotStopStep \/ NoBalance \/ CheckBalance \/ GuardStep \/ GraceStep \/ EnsureStep

CommandGoesOn == CancelStops \/ StartClose
RenewGoesOn == RenewClears \/ RenewPerp \/ RenewSpot
Command == (\E f \in ExitFloors : AskClose(f)) \/ StandDown \/ AskAdd \/ AskStops

StopNext ==
    VenueMoves \/ VenueTidies \/ RefreshRisk \/ TaskWorks \/ SweepStep \/ CommandGoesOn
    \/ RenewGoesOn \/ Command \/ Restart

StopSpec == StopInit /\ [][StopNext]_stopVars

\* The loop sleeps and goes on; a window is over some time; a lookup that fails
\* does not fail for ever; a run works, and has its deadline; a perp stop that has
\* fired fills or lapses.
StopGoesOn == \E o \in Id : ord[o].leg = "perp" /\ ord[o].exec > 0 /\ OrderFills(o, 1)
StopFairSpec ==
    /\ StopSpec
    /\ WF_stopVars(RefreshRisk) /\ WF_stopVars(VenueTidies) /\ WF_stopVars(StopGoesOn)
    /\ WF_stopVars(SweepStep)
    /\ SF_stopVars(GuardActs)
    /\ SF_stopVars(GraceLooks(TRUE))
    /\ SF_stopVars(PollSpotStop)
    /\ SF_stopVars(CancelStops) /\ WF_stopVars(StartClose) /\ SF_stopVars(RenewGoesOn)
    /\ SF_stopVars(TaskTrades) /\ WF_stopVars(TaskEnds) /\ SF_stopVars(AddEnds)

-------------------------------------------------------------------------------
\* A sale is booked once, whoever sees it first: the poll of the spot stop, the
\* hedge guard, the grace window or the balance check (_check_spot_stop_fill,
\* _check_hedge_integrity, _check_stop_grace, _check_spot_integrity).  Rows that
\* hold less spot than the wallet would leave the rest unsold for ever.
SpotNotForgotten == dbSpot >= vSpot

\* So is a buy-back: the guard books a deficit only when a later snapshot of the
\* venue has confirmed it.  It does not ask whether an add came after that snapshot:
\* with "add_unseen" what the add bought is booked as gone.
PerpNotForgotten == dbPerp >= vPerp

\* "The spot sell LIMIT locks balance": while an exit or a sell-down works, no
\* sell LIMIT of the stops rests, whatever the sweep was doing when it was asked
\* for, and if /stops waits for the lock (_cancel_stops_for, _ensure_stops and
\* _cmd_stops under one).  With "stops_cut_in" it fails: /stops reads the row before
\* it waits, and arms after the close began.
ExitNotLocked == task.kind \in {"exit", "selldown"} => LiveOn("spot") = {}

\* "Re-running refreshes: prior /stops orders are cancelled first": two stops of one
\* leg would sell, or buy, twice the position.  However often the size changes, closes
\* and /stops come and the engine restarts, one rests at a time.  With "stops_cut_in"
\* it fails: the buy-back of a stop that fired rests beside the new STOP.
StopsDoNotStack == \A leg \in {"perp", "spot"} : Cardinality(LiveOn(leg)) <= 1

\* "Detect the perp leg being closed/reduced ON THE VENUE with no order of ours
\* (...) which leaves the spot leg naked - and rebalance": a short that is smaller
\* than its spot is met by the sale of the difference, or the operator is told.
NakedSpotIsMet == vSpot > vPerp ~> (vSpot <= vPerp \/ warned)
===============================================================================
