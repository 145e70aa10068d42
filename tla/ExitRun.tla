-------------------------------- MODULE ExitRun --------------------------------
(***************************************************************************)
(* The exit tasks of the executor (passive, aggressive, spot sell-down) on *)
(* one position, the registry that replaces one task by another, the       *)
(* callers that do so (operator commands, the safety loop), the two venues *)
(* and the rows of the position.                                           *)
(*                                                                         *)
(* Several coroutines can exist at once: tasks[i] is the i-th one spawned, *)
(* `latest` the one the registry knows.  A task is cancelled at whatever   *)
(* await it is at.  The spot sale of a passive exit is a coroutine of its  *)
(* own, shielded from that cancellation.                                   *)
(*                                                                         *)
(* Quantities are perp contracts, with a multiplier and a lot of 1.  What  *)
(* the code decides from prices and books (gated, the closeable depth, the *)
(* clip, a repricing) is a free choice within its limits.                  *)
(*                                                                         *)
(* A definition marked "Deviation" is a faulty variant of the one after it *)
(* that no specification uses.                                             *)
(***************************************************************************)
EXTENDS Integers, FiniteSetsExt

CONSTANTS
    Size,          \* contracts held, and hedged, at the start
    Modes,         \* the exit modes asked for: "passive", "now"
    Floors,        \* the partial-exit floors asked for (0 is a full close)
    MinHedge,      \* MIN_HEDGE_NOTIONAL_USD in contracts
    MinNotional,   \* the venues' minimum order in contracts: less is dust
    Attempts,      \* HEDGE_RETRY_ATTEMPTS
    Callers,       \* who starts and stops exits
    MaxRequests,   \* exits asked for in a behaviour
    MaxTasks,      \* tasks spawned in a behaviour
    MaxOrders,     \* maker orders placed in a behaviour
    MaxAdl,        \* times the venue closes contracts by itself
    ExitFaults     \* which of ExitFaultKinds may happen

ExitFaultKinds ==
    {"slow_stops",       \* cancelling the stops takes longer than a poll
     "stops_stay",       \* ... or fails
     "cut_request",      \* a task is cancelled while a request is on its way
     "place_ambiguous",  \* a place request times out, landed or not
     "sale_ambiguous",   \* the outcome of a spot sale is unknown
     "leg_ambiguous",    \* the outcome of an aggressive leg is unknown
     "poll_fails",       \* get_order raises
     "cancel_fails",     \* a cancel is refused or lost: the order still rests
     "adl_midway"}       \* the venue closes contracts while an exit runs

ASSUME ExitAssumption ==
    /\ Size \in Nat \ {0}
    /\ Modes \subseteq {"passive", "now"}
    /\ Floors \subseteq Nat
    /\ MinHedge \in Nat
    /\ MinNotional \in Nat \ {0}
    /\ Attempts \in Nat \ {0}
    /\ MaxRequests \in Nat /\ MaxTasks \in Nat /\ MaxOrders \in Nat /\ MaxAdl \in Nat
    /\ ExitFaults \subseteq ExitFaultKinds

VARIABLES
    \* The venues.
    ost, oqty, exec,  \* maker buy-backs: where they are, size, executed
    placed,           \* how many were ever sent
    vPerp, vSpot,     \* the short perp position and the spot held
    lock,             \* a protective spot LIMIT of ours rests and locks the balance
    adl,              \* times the venue closed contracts by itself
    \* The rows.
    state,            \* positions.state
    mode, floorReq,   \* exit_mode ("none" for NULL), exit_target_qty (0 for NULL)
    dbPerp, dbSpot,
    \* The process.
    tasks,            \* the coroutines
    latest,           \* Executor._tasks[position]
    spawned,          \* how many tasks were ever spawned
    caller,           \* what each caller is at
    requests,         \* exits asked for
    \* Observations.
    taker,            \* an aggressive exit has been started
    warned            \* the operator was told that the legs may differ

book == <<ost, oqty, exec, placed>>
venue == <<book, vPerp, vSpot, lock, adl>>
rows == <<state, mode, floorReq, dbPerp, dbSpot>>
process == <<tasks, latest, spawned, caller, requests>>
exitVars == <<venue, rows, process, taker, warned>>

Order == 1..MaxOrders
TaskId == 1..MaxTasks
NoSale == [at |-> "none", need |-> 0, tries |-> 0, fill |-> 0, refused |-> FALSE]
NoLeg == [at |-> "none", need |-> 0, fill |-> 0]
Unborn == [kind |-> "none", pc |-> "dead", floor |-> 0, oid |-> 0, seen |-> 0,
           toSell |-> 0, force |-> FALSE, ending |-> FALSE, dying |-> FALSE,
           released |-> FALSE, sale |-> NoSale, perpLeg |-> NoLeg, spotLeg |-> NoLeg]
Idle == [pc |-> "idle", op |-> "none", floor |-> 0, waits |-> 0]

SaleType == [at : {"none", "send", "sent", "done", "ambiguous"}, need : Int,
             tries : Nat, fill : Nat, refused : BOOLEAN]
LegType == [at : {"none", "sent", "done", "ambiguous"}, need : Int, fill : Nat]
TaskType ==
    [kind : {"none", "exit", "passive", "now", "selldown"},
     pc : {"dead", "start", "top", "placing", "cancel", "sell", "selling", "check",
           "wait", "sent", "complete", "accrue"},
     floor : Nat, oid : Order \cup {0}, seen : Nat, toSell : Int,
     force : BOOLEAN, ending : BOOLEAN, dying : BOOLEAN, released : BOOLEAN,
     sale : SaleType, perpLeg : LegType, spotLeg : LegType]
CallerType == [pc : {"idle", "stops", "cancel", "await"},
               op : {"none", "exit", "standdown", "selldown"}, floor : Nat,
               waits : TaskId \cup {0}]

\* The types of the venues' books, of the rows and of the coroutines' frames.
ExitTypeOK ==
    /\ ost \in [Order -> {"none", "sent", "open", "filled", "cancelled", "rejected"}]
    /\ oqty \in [Order -> Nat] /\ exec \in [Order -> Nat] /\ placed \in Nat
    /\ vPerp \in Int /\ vSpot \in Nat /\ lock \in BOOLEAN /\ adl \in Nat
    /\ state \in {"OPEN", "EXITING", "CLOSED"}
    /\ mode \in {"none", "passive", "now"} /\ floorReq \in Nat
    /\ dbPerp \in Int /\ dbSpot \in Int
    /\ tasks \in [TaskId -> TaskType] /\ latest \in TaskId \cup {0} /\ spawned \in Nat
    /\ caller \in [Callers -> CallerType] /\ requests \in Nat
    /\ taker \in BOOLEAN /\ warned \in BOOLEAN

ExitInit ==
    /\ ost = [o \in Order |-> "none"]
    /\ oqty = [o \in Order |-> 0]
    /\ exec = [o \in Order |-> 0]
    /\ placed = 0
    /\ vPerp = Size /\ vSpot = Size /\ lock = FALSE /\ adl = 0
    /\ state = "OPEN" /\ mode = "none" /\ floorReq = 0
    /\ dbPerp = Size /\ dbSpot = Size
    /\ tasks = [i \in TaskId |-> Unborn]
    /\ latest = 0 /\ spawned = 0
    /\ caller = [c \in Callers |-> Idle]
    /\ requests = 0
    /\ taker = FALSE /\ warned = FALSE

AtLeast0(n) == Max({0, n})
Alive(i) == tasks[i].pc # "dead"
HasTask == latest # 0 /\ Alive(latest)
Become(i, frame) == tasks' = [tasks EXCEPT ![i] = frame]
Goes(i, pc) == Become(i, [tasks[i] EXCEPT !.pc = pc])
\* A task ends.  A sale it was shielding goes on.
Ends(i) == Become(i, [Unborn EXCEPT !.sale = tasks[i].sale])

-------------------------------------------------------------------------------
\* The venues.

VenueAccept(o) ==
    /\ ost[o] = "sent"
    /\ ost' = [ost EXCEPT ![o] = "open"]
    /\ UNCHANGED <<oqty, exec, placed, vPerp, vSpot, lock, adl, rows, process, taker, warned>>

VenueReject(o) ==
    /\ ost[o] = "sent"
    /\ ost' = [ost EXCEPT ![o] = "rejected"]
    /\ UNCHANGED <<oqty, exec, placed, vPerp, vSpot, lock, adl, rows, process, taker, warned>>

\* A maker buy-back is not reduce-only: it fills whatever is left of the short.
VenueFill(o, k) ==
    /\ ost[o] = "open"
    /\ exec[o] + k <= oqty[o]
    /\ exec' = [exec EXCEPT ![o] = @ + k]
    /\ ost' = [ost EXCEPT ![o] = IF exec[o] + k = oqty[o] THEN "filled" ELSE @]
    /\ vPerp' = vPerp - k
    /\ UNCHANGED <<oqty, placed, vSpot, lock, adl, rows, process, taker, warned>>

\* Auto-deleveraging, a liquidation or a hand on the exchange's own screen.
VenueReduces(k) ==
    /\ adl < MaxAdl
    /\ k <= vPerp
    /\ HasTask => "adl_midway" \in ExitFaults
    /\ adl' = adl + 1
    /\ vPerp' = vPerp - k
    /\ UNCHANGED <<book, vSpot, lock, rows, process, taker, warned>>

VenueAnswers == \E o \in Order : VenueAccept(o) \/ VenueReject(o)
VenueStep ==
    \/ VenueAnswers
    \/ \E o \in Order, k \in 1..Size : VenueFill(o, k)
    \/ \E k \in 1..Size : VenueReduces(k)

-------------------------------------------------------------------------------
\* The end of an exit run: _complete_exit, _finalize_close.

Untradeable(q) == q < MinNotional

\* Deviation: a full close looks at the perp leg only.
CompleteOnPerp(i) ==
    /\ tasks[i].pc = "complete"
    /\ IF tasks[i].floor > 0
       THEN mode' = "none" /\ floorReq' = 0 /\ state' = "OPEN" /\ Ends(i)
       ELSE /\ UNCHANGED <<mode, floorReq, state>>
            /\ IF Untradeable(dbPerp) THEN Goes(i, "accrue") ELSE Ends(i)
    /\ UNCHANGED <<venue, dbPerp, dbSpot, latest, spawned, caller, requests, taker, warned>>

\* A partial close goes back to OPEN, and its message quotes both legs.  A full
\* close is CLOSED when both legs are dust, and incomplete otherwise.
Complete(i) ==
    /\ tasks[i].pc = "complete"
    /\ IF tasks[i].floor > 0 /\ (dbPerp > 0 \/ dbSpot > 0)
       THEN /\ mode' = "none" /\ floorReq' = 0 /\ state' = "OPEN"
            /\ warned' = (warned \/ dbPerp # dbSpot)
            /\ Ends(i)
       ELSE /\ UNCHANGED <<mode, floorReq, state>>
            /\ IF Untradeable(dbPerp) /\ Untradeable(dbSpot)
               THEN Goes(i, "accrue") /\ UNCHANGED warned
               ELSE Ends(i) /\ warned' = TRUE
    /\ UNCHANGED <<venue, dbPerp, dbSpot, latest, spawned, caller, requests, taker>>

\* The funding has been fetched: book the profit and close.
Accrued(i) ==
    /\ tasks[i].pc = "accrue"
    /\ state' = "CLOSED"
    /\ Ends(i)
    /\ UNCHANGED <<venue, mode, floorReq, dbPerp, dbSpot, latest, spawned, caller,
                   requests, taker, warned>>

-------------------------------------------------------------------------------
\* _hedge_spot selling: up to Attempts immediate-or-cancel orders.

SaleOf(q) == [NoSale EXCEPT !.at = IF q > 0 THEN "send" ELSE "done", !.need = q]
Selling(i) == tasks[i].sale.at
\* Nobody looks at the outcome of a sale whose task has ended.
SaleBecomes(i, s) ==
    Become(i, [tasks[i] EXCEPT !.sale = IF ~Alive(i) /\ s.at \in {"done", "ambiguous"}
                                        THEN NoSale ELSE s])

\* The sale after an attempt that leaves q to sell.
AfterAttempt(s, q, refused) ==
    [s EXCEPT !.at = IF q = 0 \/ s.tries + 1 = Attempts THEN "done" ELSE "send",
              !.need = q, !.tries = @ + 1, !.fill = 0, !.refused = refused]

\* The order reaches MEXC, which sells k of it at once.
SaleSends(i, k) ==
    /\ Selling(i) = "send"
    /\ ~lock /\ tasks[i].sale.need <= vSpot
    /\ k <= tasks[i].sale.need
    /\ vSpot' = vSpot - k
    /\ SaleBecomes(i, [tasks[i].sale EXCEPT !.at = "sent", !.fill = k])
    /\ UNCHANGED <<book, vPerp, lock, adl, rows, latest, spawned, caller, requests,
                   taker, warned>>

\* MEXC refuses it: the balance is locked or missing, or another reason.
SaleRefused(i) ==
    /\ Selling(i) = "send"
    /\ LET s == tasks[i].sale IN
       SaleBecomes(i, AfterAttempt(s, s.need, lock \/ s.need > vSpot))
    /\ UNCHANGED <<venue, rows, latest, spawned, caller, requests, taker, warned>>

SaleReplies(i) ==
    /\ Selling(i) = "sent"
    /\ LET s == tasks[i].sale IN
       /\ dbSpot' = dbSpot - s.fill
       /\ SaleBecomes(i, AfterAttempt(s, s.need - s.fill, s.refused /\ s.fill = 0))
    /\ UNCHANGED <<venue, state, mode, floorReq, dbPerp, latest, spawned, caller,
                   requests, taker, warned>>

SaleAmbiguous(i) ==
    /\ "sale_ambiguous" \in ExitFaults
    /\ Selling(i) = "sent"
    /\ SaleBecomes(i, [tasks[i].sale EXCEPT !.at = "ambiguous"])
    /\ UNCHANGED <<venue, rows, latest, spawned, caller, requests, taker, warned>>

SaleStep ==
    \E i \in TaskId :
        \/ \E k \in 0..Size : SaleSends(i, k)
        \/ SaleRefused(i) \/ SaleReplies(i) \/ SaleAmbiguous(i)

-------------------------------------------------------------------------------
\* _run_passive_exit.

AtTop(i, kind) == tasks[i].kind = kind /\ tasks[i].pc = "top"
Remaining(i) == AtLeast0(dbPerp - tasks[i].floor)
Newly(i) == exec[tasks[i].oid] - tasks[i].seen
\* absorb_fills: the frame once the order's executed quantity is booked.
Absorbed(i) == [tasks[i] EXCEPT !.seen = exec[tasks[i].oid], !.toSell = @ + Newly(i)]

Start(i) ==
    /\ tasks[i].pc = "start"
    /\ state' = "EXITING"
    /\ IF tasks[i].kind = "selldown" THEN Goes(i, "top") /\ UNCHANGED taker
       ELSE /\ Become(i, [tasks[i] EXCEPT !.pc = "top", !.floor = floorReq,
                                          !.kind = IF mode = "passive" THEN mode ELSE "now"])
            /\ taker' = (taker \/ mode # "passive")
    /\ UNCHANGED <<venue, mode, floorReq, dbPerp, dbSpot, latest, spawned, caller,
                   requests, warned>>

\* exit_mode is no longer passive: whoever changed it owns the completion, and
\* the task ends as it is, its order on the book.
ModeChanged(i) ==
    /\ AtTop(i, "passive")
    /\ mode # "passive"
    /\ Ends(i)
    /\ UNCHANGED <<venue, rows, latest, spawned, caller, requests, taker, warned>>

\* The request to cancel order o takes it down if it rests, or fails: an error of
\* it is logged and forgotten.
Cancels(o) ==
    \/ ost' = [p \in Order |-> IF p = o /\ ost[p] = "open" THEN "cancelled" ELSE ost[p]]
    \/ "cancel_fails" \in ExitFaults /\ UNCHANGED ost

\* The perp is down to the floor: drop the order, whatever its cancel answered, and
\* sell all the spot the perp no longer hedges.
EndPhase(i) ==
    /\ AtTop(i, "passive")
    /\ mode = "passive" /\ Remaining(i) = 0
    /\ LET f == tasks[i] IN
       /\ Cancels(f.oid)
       /\ Become(i, [f EXCEPT !.pc = "sell", !.oid = 0, !.force = TRUE, !.ending = TRUE,
                              !.toSell = Max({@, dbSpot - f.floor})])
    /\ UNCHANGED <<oqty, exec, placed, vPerp, vSpot, lock, adl, rows, latest, spawned,
                   caller, requests, taker, warned>>

\* Nothing rests and nothing is placed: gated, no depth at the target, no book.
RestNothing(i) ==
    /\ AtTop(i, "passive")
    /\ mode = "passive" /\ Remaining(i) > 0 /\ tasks[i].oid = 0
    /\ Goes(i, "sell")
    /\ UNCHANGED <<venue, rows, latest, spawned, caller, requests, taker, warned>>

Place(i, q) ==
    /\ AtTop(i, "passive")
    /\ mode = "passive" /\ tasks[i].oid = 0
    /\ q <= Remaining(i) /\ ~Untradeable(q)
    /\ placed < MaxOrders
    /\ placed' = placed + 1
    /\ ost' = [ost EXCEPT ![placed'] = "sent"]
    /\ oqty' = [oqty EXCEPT ![placed'] = q]
    /\ Become(i, [tasks[i] EXCEPT !.pc = "placing", !.oid = placed', !.seen = 0])
    /\ UNCHANGED <<exec, vPerp, vSpot, lock, adl, rows, latest, spawned, caller,
                   requests, taker, warned>>

\* The reply: accepted, or refused.  AmbiguousOrderError is an ExchangeError,
\* and the loop takes it for a refusal.
PlaceReplies(i) ==
    /\ tasks[i].pc = "placing"
    /\ LET o == tasks[i].oid IN
       \/ ost[o] \in {"open", "filled"} /\ Goes(i, "sell")
       \/ /\ ost[o] = "rejected" \/ "place_ambiguous" \in ExitFaults
          /\ Become(i, [tasks[i] EXCEPT !.pc = "sell", !.oid = 0])
    /\ UNCHANGED <<venue, rows, latest, spawned, caller, requests, taker, warned>>

\* One poll of the resting order, and the choice to take it down: gated, the
\* price moved, or the size drifted.
Poll(i, reprice) ==
    /\ AtTop(i, "passive")
    /\ mode = "passive" /\ Remaining(i) > 0 /\ tasks[i].oid # 0
    /\ dbPerp' = dbPerp - Newly(i)
    /\ IF ost[tasks[i].oid] = "open"
       THEN Become(i, [Absorbed(i) EXCEPT !.pc = IF reprice THEN "cancel" ELSE "sell"])
       ELSE Become(i, [Absorbed(i) EXCEPT !.pc = "sell", !.oid = 0])
    /\ UNCHANGED <<venue, state, mode, floorReq, dbSpot, latest, spawned, caller,
                   requests, taker, warned>>

\* get_order raises: nothing in the task catches it.
PollFails(i) ==
    /\ "poll_fails" \in ExitFaults
    /\ AtTop(i, "passive") /\ tasks[i].oid # 0
    /\ Ends(i)
    /\ UNCHANGED <<venue, rows, latest, spawned, caller, requests, taker, warned>>

\* Deviation: the fills of an order that was still open are not looked at again.
CancelOrderUnread(i) ==
    /\ tasks[i].pc = "cancel"
    /\ Cancels(tasks[i].oid)
    /\ Become(i, [tasks[i] EXCEPT !.oid = 0, !.pc = IF tasks[i].dying THEN "check" ELSE "sell"])
    /\ UNCHANGED <<oqty, exec, placed, vPerp, vSpot, lock, adl, rows, latest, spawned,
                   caller, requests, taker, warned>>

\* cancel_perp_order and the last look at the order's fills, for a repricing
\* or in the handler of CancelledError.  The id is dropped even if the look says
\* that the order still rests.
CancelOrder(i) ==
    /\ tasks[i].pc = "cancel"
    /\ Cancels(tasks[i].oid)
    /\ dbPerp' = dbPerp - Newly(i)
    /\ Become(i, [Absorbed(i) EXCEPT !.oid = 0, !.pc = IF tasks[i].dying THEN "check" ELSE "sell"])
    /\ UNCHANGED <<oqty, exec, placed, vPerp, vSpot, lock, adl, state, mode, floorReq,
                   dbSpot, latest, spawned, caller, requests, taker, warned>>

\* The last look raises: a run ends with it, the handler of CancelledError goes on
\* to the sale with the order's last fills not booked.
LastLookFails(i) ==
    /\ "poll_fails" \in ExitFaults
    /\ tasks[i].oid # 0
    /\ \/ tasks[i].pc = "cancel"
       \/ AtTop(i, "passive") /\ mode = "passive" /\ Remaining(i) = 0
    /\ Cancels(tasks[i].oid)
    /\ IF tasks[i].dying THEN Become(i, [tasks[i] EXCEPT !.oid = 0, !.pc = "check"]) ELSE Ends(i)
    /\ UNCHANGED <<oqty, exec, placed, vPerp, vSpot, lock, adl, rows, latest, spawned,
                   caller, requests, taker, warned>>

\* The frame when sell_pending returns with q left to sell.
SoldBut(i, q) ==
    LET f == [tasks[i] EXCEPT !.toSell = q, !.sale = NoSale] IN
    IF f.dying THEN Unborn
    ELSE [f EXCEPT !.pc = IF f.ending /\ q <= 0 THEN "complete" ELSE "top",
                   !.force = FALSE, !.ending = FALSE]

ToSell(i) == Min({tasks[i].toSell, dbSpot})
TooSmall(i) == ~tasks[i].force /\ tasks[i].toSell < MinHedge

\* Nothing to sell, too little of it yet, or dust that is dropped.
SkipSale(i) ==
    /\ tasks[i].pc = "sell"
    /\ IF tasks[i].toSell <= 0 \/ TooSmall(i) THEN Become(i, SoldBut(i, tasks[i].toSell))
       ELSE Untradeable(ToSell(i)) /\ Become(i, SoldBut(i, 0))
    /\ UNCHANGED <<venue, rows, latest, spawned, caller, requests, taker, warned>>

BeginSale(i) ==
    /\ tasks[i].pc = "sell"
    /\ tasks[i].toSell > 0 /\ ~TooSmall(i) /\ ~Untradeable(ToSell(i))
    /\ Become(i, [tasks[i] EXCEPT !.pc = "selling", !.sale = SaleOf(ToSell(i))])
    /\ UNCHANGED <<venue, rows, latest, spawned, caller, requests, taker, warned>>

\* Deviation: a shortfall is left to the next sale even when there is none.
SaleOverSilently(i) ==
    /\ tasks[i].pc = "selling" /\ tasks[i].kind = "passive"
    /\ Selling(i) \in {"done", "ambiguous"}
    /\ Become(i, SoldBut(i, IF Selling(i) = "done" THEN tasks[i].sale.need ELSE 0))
    /\ UNCHANGED <<venue, rows, latest, spawned, caller, requests, taker, warned>>

\* The sale is over.  A first refusal for want of balance frees the locks of
\* our own stops; any other shortfall, and an unknown outcome, is reported.
SaleOver(i) ==
    /\ tasks[i].pc = "selling" /\ tasks[i].kind = "passive"
    /\ LET s == tasks[i].sale
           release == s.at = "done" /\ s.need > 0 /\ s.refused /\ ~tasks[i].released
       IN
       /\ s.at \in {"done", "ambiguous"}
       /\ lock' = (lock /\ ~release)
       /\ LET f == SoldBut(i, IF s.at = "done" THEN s.need ELSE 0) IN
          Become(i, IF release /\ f # Unborn THEN [f EXCEPT !.released = TRUE] ELSE f)
       /\ warned' = (warned \/ s.at = "ambiguous" \/ (s.need > 0 /\ ~(release /\ lock)))
    /\ UNCHANGED <<book, vPerp, vSpot, adl, rows, latest, spawned, caller, requests, taker>>

\* Deviation: the handler sells what the run still had in hand, not what the
\* rows say is unhedged.
UnhedgedInHand(i) == [tasks[i] EXCEPT !.pc = "sell", !.force = TRUE, !.sale = NoSale]

\* The handler of CancelledError: what the rows say is unhedged is to be sold.
Unhedged(i) ==
    [tasks[i] EXCEPT !.pc = "sell", !.force = TRUE, !.sale = NoSale,
                     !.toSell = AtLeast0(dbSpot - dbPerp)]

\* Its order is down; a sale in flight is waited for.
CheckSale(i) ==
    /\ tasks[i].pc = "check"
    /\ IF Selling(i) \in {"send", "sent"} THEN Goes(i, "wait") ELSE Become(i, Unhedged(i))
    /\ UNCHANGED <<venue, rows, latest, spawned, caller, requests, taker, warned>>

\* Deviation: only a sale that went through wakes the one that waits for it.
SaleAwaitedDone(i) ==
    /\ tasks[i].pc = "wait"
    /\ Selling(i) = "done" /\ Become(i, Unhedged(i))
    /\ UNCHANGED <<venue, rows, latest, spawned, caller, requests, taker, warned>>

SaleAwaited(i) ==
    /\ tasks[i].pc = "wait"
    /\ \/ Selling(i) = "done" /\ Become(i, Unhedged(i)) /\ UNCHANGED warned
       \/ Selling(i) = "ambiguous" /\ Become(i, Unborn) /\ warned' = TRUE
    /\ UNCHANGED <<venue, rows, latest, spawned, caller, requests, taker>>

-------------------------------------------------------------------------------
\* _run_aggressive_exit and _run_spot_selldown.

SpotLeft(i) == AtLeast0(dbSpot - tasks[i].floor)

Finished(i) ==
    /\ \/ AtTop(i, "now") /\ Remaining(i) = 0
       \/ AtTop(i, "selldown")
    /\ SpotLeft(i) = 0
    /\ Goes(i, "complete")
    /\ UNCHANGED <<venue, rows, latest, spawned, caller, requests, taker, warned>>

\* Deviation: a sell-down waits for its spot to go, however long that takes.
TimesOutNow(i) ==
    /\ AtTop(i, "now")
    /\ Goes(i, "complete")
    /\ UNCHANGED <<venue, rows, latest, spawned, caller, requests, taker, warned>>

\* The exit timeout has passed.
TimesOut(i) ==
    /\ AtTop(i, "now") \/ AtTop(i, "selldown")
    /\ Goes(i, "complete")
    /\ UNCHANGED <<venue, rows, latest, spawned, caller, requests, taker, warned>>

LegOf(q, on) == IF q > 0 /\ on THEN [at |-> "sent", need |-> q, fill |-> 0]
                ELSE [at |-> "done", need |-> 0, fill |-> 0]

\* Both legs at once, each if there is a book to price it with.
SendLegs(i, legs) ==
    /\ AtTop(i, "now")
    /\ \/ "perp" \in legs /\ Remaining(i) > 0
       \/ "spot" \in legs /\ SpotLeft(i) > 0
    /\ Become(i, [tasks[i] EXCEPT !.pc = "sent",
                                  !.perpLeg = LegOf(Remaining(i), "perp" \in legs),
                                  !.spotLeg = LegOf(SpotLeft(i), "spot" \in legs)])
    /\ UNCHANGED <<venue, rows, latest, spawned, caller, requests, taker, warned>>

\* A reduce-only buy fills k of the short; k = 0 if it is refused.
PerpLeg(i, k) ==
    /\ tasks[i].perpLeg.at = "sent"
    /\ k <= Min({tasks[i].perpLeg.need, AtLeast0(vPerp)})
    /\ vPerp' = vPerp - k
    /\ Become(i, [tasks[i] EXCEPT !.perpLeg.at = "done", !.perpLeg.fill = k])
    /\ UNCHANGED <<book, vSpot, lock, adl, rows, latest, spawned, caller, requests,
                   taker, warned>>

SpotLeg(i, k) ==
    /\ tasks[i].spotLeg.at = "sent"
    /\ k <= tasks[i].spotLeg.need
    /\ k > 0 => ~lock /\ tasks[i].spotLeg.need <= vSpot
    /\ vSpot' = vSpot - k
    /\ Become(i, [tasks[i] EXCEPT !.spotLeg.at = "done", !.spotLeg.fill = k])
    /\ UNCHANGED <<book, vPerp, lock, adl, rows, latest, spawned, caller, requests,
                   taker, warned>>

LegAmbiguous(i) ==
    /\ "leg_ambiguous" \in ExitFaults
    /\ tasks[i].pc = "sent"
    /\ \/ /\ tasks[i].perpLeg.at = "done" /\ tasks[i].perpLeg.need > 0
          /\ Become(i, [tasks[i] EXCEPT !.perpLeg.at = "ambiguous"])
       \/ /\ tasks[i].spotLeg.at = "done" /\ tasks[i].spotLeg.need > 0
          /\ Become(i, [tasks[i] EXCEPT !.spotLeg.at = "ambiguous"])
    /\ UNCHANGED <<venue, rows, latest, spawned, caller, requests, taker, warned>>

\* The replies are recorded in order, perp first, up to one that is ambiguous.
Gather(i) ==
    /\ tasks[i].pc = "sent"
    /\ LET p == tasks[i].perpLeg
           s == tasks[i].spotLeg
           unknown == "ambiguous" \in {p.at, s.at}
       IN
       /\ p.at # "sent" /\ s.at # "sent"
       /\ dbPerp' = IF p.at = "done" THEN dbPerp - p.fill ELSE dbPerp
       /\ dbSpot' = IF unknown THEN dbSpot ELSE dbSpot - s.fill
       /\ Become(i, [tasks[i] EXCEPT !.pc = IF unknown THEN "complete" ELSE "top",
                                     !.perpLeg = NoLeg, !.spotLeg = NoLeg])
       /\ warned' = (warned \/ unknown)
    /\ UNCHANGED <<venue, state, mode, floorReq, latest, spawned, caller, requests, taker>>

\* A tranche, or the whole rest when it is near the minimum notional.
Tranche(i, q) ==
    /\ AtTop(i, "selldown")
    /\ q <= SpotLeft(i)
    /\ Become(i, [tasks[i] EXCEPT !.pc = "selling", !.sale = SaleOf(q)])
    /\ UNCHANGED <<venue, rows, latest, spawned, caller, requests, taker, warned>>

TrancheOver(i) ==
    /\ tasks[i].pc = "selling" /\ tasks[i].kind = "selldown"
    /\ \/ /\ Selling(i) = "done"
          /\ Become(i, [tasks[i] EXCEPT !.pc = "top", !.sale = NoSale])
          /\ UNCHANGED warned
       \/ Selling(i) = "ambiguous" /\ Become(i, Unborn) /\ warned' = TRUE
    /\ UNCHANGED <<venue, rows, latest, spawned, caller, requests, taker>>

-------------------------------------------------------------------------------
\* The registry: _cancel_task, _spawn and those who call them.

\* A passive exit whose order, sale or cleanup is not over has work to do before
\* it ends; any other task just ends.
NeedsCleanup(i) == tasks[i].kind = "passive" /\ tasks[i].pc \in {"top", "placing", "cancel", "selling"}

\* Deviation: the handler starts with the sale, the order it knows still rests.
CancelledOrderKept(i) ==
    IF ~NeedsCleanup(i) THEN Unborn
    ELSE IF tasks[i].dying THEN [Unborn EXCEPT !.sale = tasks[i].sale]
    ELSE [tasks[i] EXCEPT !.dying = TRUE, !.oid = 0, !.pc = "check"]

\* The task that CancelledError is thrown into.  The id of an order that is
\* being placed is not known yet; a second cancellation cuts the cleanup short.
Cancelled(i) ==
    LET f == tasks[i]
        known == IF f.pc = "placing" THEN 0 ELSE f.oid
    IN
    IF ~NeedsCleanup(i) THEN Unborn
    ELSE IF f.dying THEN [Unborn EXCEPT !.sale = f.sale]
    ELSE [f EXCEPT !.dying = TRUE, !.oid = known,
                   !.pc = IF known # 0 THEN "cancel" ELSE "check"]

\* A request of the task is on its way, outside the shield of a passive sale.
RequestOut(i) ==
    \/ tasks[i].pc \in {"placing", "sent"}
    \/ Selling(i) = "sent" /\ (tasks[i].kind = "selldown" \/ tasks[i].pc = "wait")

\* Places that are not awaits.
NoAwait == {"sell", "check", "complete"}

CallerGoes(c, pc, op, floor, waits) ==
    caller' = [caller EXCEPT ![c] = [pc |-> pc, op |-> op, floor |-> floor, waits |-> waits]]

\* /exit: the request is written before the stops are cancelled.
AskExit(c, m, f) ==
    /\ caller[c].pc = "idle"
    /\ state \in {"OPEN", "EXITING"}
    /\ requests < MaxRequests /\ spawned < MaxTasks
    /\ f < dbPerp
    /\ requests' = requests + 1
    /\ mode' = m /\ floorReq' = f
    /\ CallerGoes(c, "stops", "exit", 0, 0)
    /\ UNCHANGED <<venue, state, dbPerp, dbSpot, tasks, latest, spawned, taker, warned>>

StopsCancelled(c) ==
    /\ caller[c].pc = "stops"
    /\ lock' \in (IF "stops_stay" \in ExitFaults THEN {FALSE, lock} ELSE {FALSE})
    /\ CallerGoes(c, "cancel", caller[c].op, caller[c].floor, 0)
    /\ UNCHANGED <<book, vPerp, vSpot, adl, rows, tasks, latest, spawned, requests,
                   taker, warned>>

\* _cancel_exit, for /cancel or near liquidation.
AskStandDown(c) ==
    /\ caller[c].pc = "idle"
    /\ state = "EXITING" \/ (state = "OPEN" /\ mode # "none")
    /\ requests < MaxRequests
    /\ requests' = requests + 1
    /\ CallerGoes(c, "cancel", "standdown", 0, 0)
    /\ UNCHANGED <<venue, rows, tasks, latest, spawned, taker, warned>>

Tolerance == 1

\* The hedge guard: the venue holds less perp than the rows say.
GuardRebalance(c) ==
    LET floor == IF vPerp > Tolerance THEN vPerp ELSE 0 IN
    /\ caller[c].pc = "idle"
    /\ ~HasTask /\ state = "OPEN" /\ spawned < MaxTasks
    /\ vPerp >= 0 /\ dbPerp - vPerp > Tolerance /\ dbSpot > floor
    /\ dbPerp' = vPerp
    /\ mode' = "now" /\ floorReq' = floor
    /\ CallerGoes(c, "stops", "selldown", floor, 0)
    /\ UNCHANGED <<venue, state, dbSpot, tasks, latest, spawned, requests, taker, warned>>

\* _cancel_task finds a task that runs: cancel it and wait for its end.
CancelTask(c) ==
    /\ caller[c].pc = "cancel"
    /\ HasTask /\ tasks[latest].pc \notin NoAwait
    /\ RequestOut(latest) => "cut_request" \in ExitFaults
    /\ Become(latest, Cancelled(latest))
    /\ CallerGoes(c, "await", caller[c].op, caller[c].floor, latest)
    /\ UNCHANGED <<venue, rows, latest, spawned, requests, taker, warned>>

\* Deviation: the replacement does not wait for the cleanup of the old task.
ProceedAtOnce(c) == caller[c].pc = "await" \/ (caller[c].pc = "cancel" /\ ~HasTask)

\* There is none, or it has ended.
MayProceed(c) ==
    \/ caller[c].pc = "cancel" /\ ~HasTask
    \/ caller[c].pc = "await" /\ ~Alive(caller[c].waits)

Spawn(c) ==
    /\ MayProceed(c)
    /\ caller[c].op # "standdown"
    /\ spawned < MaxTasks
    /\ spawned' = spawned + 1
    /\ latest' = spawned'
    /\ Become(spawned', [Unborn EXCEPT !.kind = caller[c].op, !.pc = "start",
                                       !.floor = caller[c].floor])
    /\ CallerGoes(c, "idle", "none", 0, 0)
    /\ UNCHANGED <<venue, rows, requests, taker, warned>>

StoodDown(c) ==
    /\ MayProceed(c)
    /\ caller[c].op = "standdown"
    /\ mode' = "none" /\ floorReq' = 0 /\ state' = "OPEN"
    /\ CallerGoes(c, "idle", "none", 0, 0)
    /\ UNCHANGED <<venue, dbPerp, dbSpot, tasks, latest, spawned, requests, taker, warned>>

\* _ensure_stops arms an open position that nothing works on.
ArmStops ==
    /\ state = "OPEN" /\ mode = "none" /\ ~HasTask
    /\ dbPerp > 0 /\ dbSpot > 0
    /\ ~lock
    /\ lock' = TRUE
    /\ UNCHANGED <<book, vPerp, vSpot, adl, rows, process, taker, warned>>

-------------------------------------------------------------------------------
\* A caller that has cancelled the stops goes on to cancel the task without an
\* await; before that its wait for the venue may be shorter than a poll.  Unless
\* requests are cut off, a cancellation lands after the reply that is due.
EventLoopFree ==
    \A c \in Callers : /\ caller[c].pc # "cancel"
                       /\ caller[c].pc = "stops" => "slow_stops" \in ExitFaults

PassiveStep(i) ==
    \/ ModeChanged(i) \/ EndPhase(i) \/ RestNothing(i)
    \/ \E q \in 1..Size : Place(i, q)
    \/ PlaceReplies(i) \/ PollFails(i)
    \/ \E reprice \in BOOLEAN : Poll(i, reprice)
    \/ CancelOrder(i) \/ LastLookFails(i)
    \/ SkipSale(i) \/ BeginSale(i) \/ SaleOver(i)
    \/ CheckSale(i) \/ SaleAwaited(i)

TakerStep(i) ==
    \/ Finished(i)
    \/ \E legs \in SUBSET {"perp", "spot"} : SendLegs(i, legs)
    \/ \E k \in 0..Size : PerpLeg(i, k) \/ SpotLeg(i, k)
    \/ LegAmbiguous(i) \/ Gather(i)
    \/ \E q \in 1..Size : Tranche(i, q)
    \/ TrancheOver(i)

TaskStep(i) ==
    /\ EventLoopFree \/ tasks[i].pc \in NoAwait \/ RequestOut(i)
    /\ \/ Start(i) \/ PassiveStep(i) \/ TakerStep(i) \/ Complete(i) \/ Accrued(i)

Deadline(i) == EventLoopFree /\ TimesOut(i)

CallerGoesOn(c) == StopsCancelled(c) \/ CancelTask(c) \/ Spawn(c) \/ StoodDown(c)

CallerStep(c) ==
    \/ \E m \in Modes, f \in Floors : AskExit(c, m, f)
    \/ AskStandDown(c)
    \/ GuardRebalance(c)
    \/ CallerGoesOn(c)

ExitNext ==
    \/ VenueStep
    \/ SaleStep
    \/ \E i \in TaskId : TaskStep(i) \/ Deadline(i)
    \/ \E c \in Callers : CallerStep(c)
    \/ ArmStops

ExitSpec == ExitInit /\ [][ExitNext]_exitVars

\* The event loop runs every coroutine that is ready, every request is answered
\* or times out, and the exit timeout is read in every turn of its loop.
ExitFairness ==
    /\ WF_exitVars(VenueAnswers)
    /\ WF_exitVars(SaleStep)
    /\ \A i \in TaskId : WF_exitVars(TaskStep(i)) /\ SF_exitVars(Deadline(i))
    /\ \A c \in Callers : WF_exitVars(CallerGoesOn(c))

ExitFairSpec == ExitSpec /\ ExitFairness

-------------------------------------------------------------------------------
\* No coroutine, sale or caller is at work on the position.
AtRest ==
    /\ \A i \in TaskId : ~Alive(i) /\ Selling(i) = "none"
    /\ \A c \in Callers : caller[c].pc = "idle"

OrderLive(o) == ost[o] \in {"sent", "open"}

\* "cancel it and AWAIT its cleanup before returning, so a replacement can't run
\* concurrently with the old task's CancelledError handler ... that race could
\* double-sell spot" (_cancel_task): at most one task works on the position.
OneTask == \A i, j \in TaskId : Alive(i) /\ Alive(j) => i = j

\* A passive exit or a sell-down sells only spot whose perp is gone: until a
\* taker close is started, the spot held covers the perp short, whatever is
\* refused, retried, cancelled in mid-sale or taken over by another run.  The
\* hedge guard takes a rest of the perp within its tolerance for none at all.
SpotCoversPerp == ~taker => vSpot >= vPerp \/ (adl > 0 /\ vPerp <= Tolerance)

\* A maker buy-back outlives neither its task nor the cleanup of its task.  It does
\* when its cancel fails ("cancel_fails"), is never sent or is for an id not known.
NoOrderOutlivesExit ==
    \A o \in Order : OrderLive(o) => \E i \in TaskId : Alive(i) /\ tasks[i].oid = o

\* When nothing works on the position its rows say what the venues hold, but for
\* the perp the venue closed by itself.  (Every cancel took its order down.)
RowsMatchAtRest ==
    AtRest => dbSpot = vSpot /\ (adl = 0 => dbPerp = vPerp)

\* A position is closed in the rows only when both of its legs are gone at the
\* venues, and nothing that could open one again still rests.  (A maker buy-back
\* is not reduce-only: after a reduction by the venue it may open a long.)
ClosedMeansFlat ==
    state = "CLOSED" /\ adl = 0 =>
        /\ vPerp \in 0..(MinNotional - 1)
        /\ vSpot < MinNotional
        /\ \A o \in Order : ~OrderLive(o)

\* However a passive exit or a sell-down is refused, cancelled, stood down or
\* replaced: spot that its bought-back perp no longer hedges, and that can be
\* traded, is not left without a word.
NakedSpotIsReported ==
    AtRest /\ ~taker /\ adl = 0 => vSpot - vPerp < MinNotional \/ warned

\* Seen from the account, requests, runs, their cleanups and replacements are the life
\* of two legs that LegsDown describes: nothing trades when nobody is at work, no run
\* ends with naked spot in silence, and CLOSED is flat and final.
Legs ==
    INSTANCE LegsDown WITH
        Dust <- MinNotional, Tolerance <- Tolerance,
        perp <- vPerp, spot <- vSpot, working <- ~AtRest, reduced <- adl > 0,
        told <- warned, closed <- state = "CLOSED"
ImplementsLegsDown == Legs!Spec

\* The same after a taker close.
TakerNakedIsReported ==
    AtRest /\ adl = 0 => (vSpot - vPerp < MinNotional /\ vPerp - vSpot < MinNotional) \/ warned

\* Whoever cancels a task gets to go on: its cleanup ends, sales and all.
CancelSettles == \A c \in Callers : caller[c].pc # "idle" ~> caller[c].pc = "idle"

\* A taker close and a sell-down end, at the latest at their timeout.
TakerEnds == \A i \in TaskId : tasks[i].kind \in {"now", "selldown"} ~> ~Alive(i)
===============================================================================
