------------------------------- MODULE EntryRun -------------------------------
(***************************************************************************)
(* One entry (or add) run of the executor, executor.py _run_entry, between *)
(* the two venues and the position's rows in the database: a maker order   *)
(* sells the perp leg, every fill the run sees is hedged by an             *)
(* immediate-or-cancel spot buy, and a fill that cannot be hedged is       *)
(* bought back.  The venues act between any two awaits of the run.         *)
(*                                                                         *)
(* Quantities are perp contracts (a multiplier of 1: one contract is one   *)
(* base unit), prices are left out: what the code decides from prices and  *)
(* books (edge_ok, the hedgeable cap, a repricing, a collapsed basis, the  *)
(* salvage) is a free choice within the limits the code puts on it.        *)
(* LiveTrader is modelled, PaperTrader is not.                             *)
(*                                                                         *)
(* A definition marked "Deviation" is a faulty variant of the one after it *)
(* that no specification uses.                                             *)
(***************************************************************************)
EXTENDS Integers

CONSTANTS
    Target,      \* contracts one run sets out to sell (total_qty)
    Pre,         \* contracts already held and hedged when an add starts
    MinHedge,    \* MIN_HEDGE_NOTIONAL_USD in contracts: less is dust
    SpotStep,    \* the MEXC lot, in contracts
    Attempts,    \* HEDGE_RETRY_ATTEMPTS
    MaxOrders,   \* maker orders placed in a behaviour
    MaxRuns,     \* runs started in a behaviour
    Faults       \* which of FaultKinds may happen

FaultKinds ==
    {"place_ambiguous",    \* a place request times out, landed or not
     "cancel_fails",       \* a cancel request has no effect
     "poll_fails",         \* get_order raises
     "spot_ambiguous",     \* a spot order's outcome is unknown
     "unwind_ambiguous"}   \* a buy-back's outcome is unknown

ASSUME EntryAssumption ==
    /\ Target \in Nat \ {0}
    /\ Pre \in Nat
    /\ MinHedge \in Nat
    /\ SpotStep \in Nat \ {0}
    /\ Attempts \in Nat \ {0}
    /\ MaxOrders \in Nat
    /\ MaxRuns \in Nat
    /\ Faults \subseteq FaultKinds

VARIABLES
    \* Aster and MEXC.
    ost,       \* ost[o]: where maker order o is
    oqty,      \* its quantity
    exec,      \* its executed quantity
    placed,    \* how many maker orders were ever sent
    vPerp,     \* the short perp position on Aster
    vSpot,     \* the spot held on MEXC
    \* The database.
    state,     \* positions.state
    dbPerp,    \* positions.perp_qty
    dbSpot,    \* positions.spot_qty
    booked,    \* booked[o]: recorded_qty_for_order
    intent,    \* intent[o]: the status of the place intent of o
    \* The process.
    t,         \* the coroutine: where it is and its local variables
    stop,      \* /cancel was asked for, or the entry deadline has passed
    runs,      \* runs started
    room,      \* what these set out to sell and their orders have not (history)
    warned,    \* the operator was told that the legs may differ
    report     \* the run's last message to the operator

venue == <<ost, oqty, exec, placed, vPerp, vSpot>>
db == <<state, dbPerp, dbSpot, booked, intent>>
vars == <<venue, db, t, stop, runs, room, warned, report>>

Order == 1..MaxOrders
OrderStates == {"none", "sent", "open", "filled", "cancelled", "rejected"}
PositionStates == {"PENDING_ENTRY", "ENTERING", "OPEN", "CANCELLED"}
IntentStates == {"none", "pending", "done", "failed", "ambiguous", "reconciled"}
Reports == {"none", "open", "added", "nothing", "reverted", "incomplete", "cancelled"}
Places == {"idle", "top", "placing", "cancel", "cancelled", "hedge",
           "buy", "bought", "unwind", "unwound", "finish"}

\* No task: the values a new run starts from.
Idle ==
    [pc |-> "idle", remaining |-> 0, unhedged |-> 0, oid |-> 0, seen |-> 0,
     force |-> FALSE, aborted |-> FALSE, isAdd |-> FALSE, prePerp |-> 0,
     tries |-> 0, need |-> 0, naked |-> 0, fill |-> 0]

Task ==
    [pc : Places, remaining : Int, unhedged : Int, oid : Order \cup {0}, seen : Nat,
     force : BOOLEAN, aborted : BOOLEAN, isAdd : BOOLEAN, prePerp : Int,
     tries : Nat, need : Int, naked : Int, fill : Nat]

\* The types of the venues' books, of the rows and of the coroutine's frame.
EntryTypeOK ==
    /\ ost \in [Order -> OrderStates]
    /\ oqty \in [Order -> Nat]
    /\ exec \in [Order -> Nat]
    /\ placed \in Nat
    /\ vPerp \in Int
    /\ vSpot \in Nat
    /\ state \in PositionStates
    /\ dbPerp \in Int
    /\ dbSpot \in Nat
    /\ booked \in [Order -> Int]
    /\ intent \in [Order -> IntentStates]
    /\ t \in Task
    /\ stop \in BOOLEAN
    /\ runs \in Nat
    /\ room \in Int
    /\ warned \in BOOLEAN
    /\ report \in Reports

\* A new position, or a hedged open one that an add is about to work on.
EntryInit ==
    /\ ost = [o \in Order |-> "none"]
    /\ oqty = [o \in Order |-> 0]
    /\ exec = [o \in Order |-> 0]
    /\ placed = 0
    /\ \/ state = "PENDING_ENTRY" /\ vPerp = 0
       \/ state = "OPEN" /\ vPerp = Pre
    /\ vSpot = vPerp
    /\ dbPerp = vPerp
    /\ dbSpot = vPerp
    /\ booked = [o \in Order |-> 0]
    /\ intent = [o \in Order |-> "none"]
    /\ t = Idle
    /\ stop = FALSE
    /\ runs = 0
    /\ room = 0
    /\ warned = FALSE
    /\ report = "none"

-------------------------------------------------------------------------------
\* Aster's matching engine, for the maker orders.

VenueAccept(o) ==
    /\ ost[o] = "sent"
    /\ ost' = [ost EXCEPT ![o] = "open"]
    /\ UNCHANGED <<oqty, exec, placed, vPerp, vSpot, db, t, stop, runs, room, warned,
                   report>>

\* A post-only order that would cross, or a request that never arrives.
VenueReject(o) ==
    /\ ost[o] = "sent"
    /\ ost' = [ost EXCEPT ![o] = "rejected"]
    /\ UNCHANGED <<oqty, exec, placed, vPerp, vSpot, db, t, stop, runs, room, warned,
                   report>>

VenueFill(o, k) ==
    /\ ost[o] = "open"
    /\ exec[o] + k <= oqty[o]
    /\ exec' = [exec EXCEPT ![o] = @ + k]
    /\ ost' = [ost EXCEPT ![o] = IF exec[o] + k = oqty[o] THEN "filled" ELSE @]
    /\ vPerp' = vPerp + k
    /\ room' = room - k
    /\ UNCHANGED <<oqty, placed, vSpot, db, t, stop, runs, warned, report>>

VenueAnswers == \E o \in Order : VenueAccept(o) \/ VenueReject(o)

VenueStep ==
    \E o \in Order : \/ VenueAccept(o)
                     \/ VenueReject(o)
                     \/ \E k \in 1..Target : VenueFill(o, k)

-------------------------------------------------------------------------------
\* The start of a run, and what asks it to stop.

StartRun ==
    /\ t.pc = "idle"
    /\ state \in {"PENDING_ENTRY", "OPEN"}
    /\ runs < MaxRuns
    /\ runs' = runs + 1
    /\ room' = room + Target
    /\ state' = "ENTERING"
    /\ t' = [Idle EXCEPT !.pc = "top", !.remaining = Target,
                         !.isAdd = (state = "OPEN"), !.prePerp = dbPerp]
    /\ stop' = FALSE
    /\ report' = "none"
    /\ UNCHANGED <<venue, dbPerp, dbSpot, booked, intent, warned>>

\* No quotes, or a notional below one lot: the run ends where it began.
StartWithoutQuotes ==
    /\ t.pc = "idle"
    /\ state \in {"PENDING_ENTRY", "OPEN"}
    /\ runs < MaxRuns
    /\ runs' = runs + 1
    /\ state' = IF dbPerp > 0 \/ dbSpot > 0 THEN "OPEN" ELSE "CANCELLED"
    /\ UNCHANGED <<venue, dbPerp, dbSpot, booked, intent, t, stop, room, warned, report>>

\* request_cancel, or the monotonic clock passing the deadline.
AskToStop ==
    /\ t.pc # "idle"
    /\ ~stop
    /\ stop' = TRUE
    /\ UNCHANGED <<venue, db, t, runs, room, warned, report>>

-------------------------------------------------------------------------------
\* The working loop.

\* Deviation: only the fills and the basis end the loop.
WorkingPastDeadline == ~t.aborted /\ t.remaining > 0

Working == ~stop /\ ~t.aborted /\ t.remaining > 0

\* absorb_fills: book what the order executed since it was last looked at.
NewlySeen == exec[t.oid] - t.seen

\* Deviation: the fill is booked and hedged but not taken off what remains.
AbsorbedButStillWanted == [t EXCEPT !.seen = exec[t.oid], !.unhedged = @ + NewlySeen]

Absorbed == [t EXCEPT !.seen = exec[t.oid], !.remaining = @ - NewlySeen,
                      !.unhedged = @ + NewlySeen]

BookFill ==
    /\ booked' = [booked EXCEPT ![t.oid] = @ + NewlySeen]
    /\ dbPerp' = dbPerp + NewlySeen

\* Cancelled, timed out, filled or aborted: take the order down, then hedge
\* whatever is left however small.
LeaveLoop ==
    /\ t.pc = "top"
    /\ ~Working
    /\ t' = [t EXCEPT !.pc = IF t.oid # 0 THEN "cancel" ELSE "hedge", !.force = TRUE]
    /\ UNCHANGED <<venue, db, stop, runs, room, warned, report>>

\* No order rests and none is placed: the edge is too small, or the cap is.
RestNothing ==
    /\ t.pc = "top"
    /\ Working
    /\ t.oid = 0
    /\ t' = [t EXCEPT !.pc = "hedge"]
    /\ UNCHANGED <<venue, db, stop, runs, room, warned, report>>

\* place_perp_maker up to the await: the intent row, then the request.
Place(q) ==
    /\ t.pc = "top"
    /\ Working
    /\ t.oid = 0
    /\ placed < MaxOrders
    /\ q <= t.remaining
    /\ placed' = placed + 1
    /\ oqty' = [oqty EXCEPT ![placed'] = q]
    /\ ost' = [ost EXCEPT ![placed'] = "sent"]
    /\ intent' = [intent EXCEPT ![placed'] = "pending"]
    /\ t' = [t EXCEPT !.pc = "placing"]
    /\ UNCHANGED <<exec, vPerp, vSpot, state, dbPerp, dbSpot, booked,
                   stop, runs, room, warned, report>>

PlaceReplies(status, oid) ==
    /\ intent' = [intent EXCEPT ![placed] = status]
    /\ t' = [t EXCEPT !.pc = "hedge", !.oid = oid, !.seen = IF oid # 0 THEN 0 ELSE @]
    /\ UNCHANGED <<venue, state, dbPerp, dbSpot, booked, stop, runs, room, warned, report>>

PlaceConfirmed ==
    /\ t.pc = "placing"
    /\ ost[placed] \in {"open", "filled"}
    /\ PlaceReplies("done", placed)

PlaceRejected ==
    /\ t.pc = "placing"
    /\ ost[placed] = "rejected"
    /\ PlaceReplies("failed", 0)

\* AmbiguousOrderError is an ExchangeError, and the loop takes it for a
\* rejection: it goes on with no order of its own.
PlaceAmbiguous ==
    /\ t.pc = "placing"
    /\ "place_ambiguous" \in Faults
    /\ PlaceReplies("ambiguous", 0)

\* One poll of the resting order, and the choice to take it down when the
\* price moved, the edge went or the cap drifted.
Poll(reprice) ==
    /\ t.pc = "top"
    /\ Working
    /\ t.oid # 0
    /\ BookFill
    /\ IF ost[t.oid] = "open"
       THEN t' = [Absorbed EXCEPT !.pc = IF reprice THEN "cancel" ELSE "hedge"]
       ELSE t' = [Absorbed EXCEPT !.pc = "hedge", !.oid = 0]
    /\ UNCHANGED <<venue, state, dbSpot, intent, stop, runs, room, warned, report>>

\* cancel_perp_order, first await.  An order that is already terminal makes
\* the request fail, and any failure is swallowed.
CancelOrder ==
    /\ t.pc = "cancel"
    /\ \/ ost' = [ost EXCEPT ![t.oid] = IF @ = "open" THEN "cancelled" ELSE @]
       \/ "cancel_fails" \in Faults /\ UNCHANGED ost
    /\ t' = [t EXCEPT !.pc = "cancelled"]
    /\ UNCHANGED <<oqty, exec, placed, vPerp, vSpot, db, stop, runs, room, warned, report>>

\* Deviation: the order is forgotten without a last look at its fills.
ForgetCancelled ==
    /\ t.pc = "cancelled"
    /\ t' = [t EXCEPT !.pc = "hedge", !.oid = 0]
    /\ UNCHANGED <<venue, db, stop, runs, room, warned, report>>

\* cancel_perp_order, second await: get_order, whatever the order's state.
ReadCancelled ==
    /\ t.pc = "cancelled"
    /\ BookFill
    /\ t' = [Absorbed EXCEPT !.pc = "hedge", !.oid = 0]
    /\ UNCHANGED <<venue, state, dbSpot, intent, stop, runs, room, warned, report>>

\* get_order raises: nothing in the run catches it, and the task ends.
TaskDies ==
    /\ "poll_fails" \in Faults
    /\ \/ t.pc = "top" /\ Working /\ t.oid # 0
       \/ t.pc = "cancelled"
    /\ t' = Idle
    /\ UNCHANGED <<venue, db, stop, runs, room, warned, report>>

-------------------------------------------------------------------------------
\* hedge_unhedged: the spot leg.

RoundToLot(q) == (q \div SpotStep) * SpotStep

\* Where the run goes when the hedge is over.
AfterHedge == IF t.force THEN "finish" ELSE "top"

NothingToHedge ==
    /\ t.pc = "hedge"
    /\ t.unhedged <= 0 \/ (~t.force /\ t.unhedged < MinHedge)
    /\ t' = [t EXCEPT !.pc = AfterHedge]
    /\ UNCHANGED <<venue, db, stop, runs, room, warned, report>>

ToHedge == t.pc = "hedge" /\ t.unhedged > 0 /\ (t.force \/ t.unhedged >= MinHedge)

\* The task at the head of _hedge_spot for q contracts.
Hedging(q) ==
    IF RoundToLot(q) > 0
    THEN [t EXCEPT !.pc = "buy", !.need = RoundToLot(q), !.tries = 0, !.naked = 0,
                   !.unhedged = q]
    ELSE [t EXCEPT !.pc = AfterHedge, !.unhedged = 0, !.naked = 0]

\* The basis at hedge time is above the hedge minimum.
HedgeAll ==
    /\ ToHedge
    /\ t' = Hedging(t.unhedged)
    /\ UNCHANGED <<venue, db, stop, runs, room, warned, report>>

\* It is below: hedge the part the ladder supports, buy the rest back first.
HedgePart(salvage) ==
    /\ ToHedge
    /\ salvage <= t.unhedged
    /\ salvage > 0 => salvage >= MinHedge
    /\ IF salvage = t.unhedged
       THEN t' = Hedging(salvage)
       ELSE t' = [t EXCEPT !.pc = "unwind", !.naked = t.unhedged - salvage,
                           !.unhedged = salvage,
                           !.aborted = IF salvage = 0 THEN TRUE ELSE @]
    /\ UNCHANGED <<venue, db, stop, runs, room, warned, report>>

\* An attempt of _hedge_spot reaches MEXC, which fills k of it at once.
BuySpot(k) ==
    /\ t.pc = "buy"
    /\ k <= t.need
    /\ k % SpotStep = 0
    /\ vSpot' = vSpot + k
    /\ t' = [t EXCEPT !.pc = "bought", !.fill = k]
    /\ UNCHANGED <<ost, oqty, exec, placed, vPerp, db, stop, runs, room, warned, report>>

\* The end of an attempt that leaves q unfilled: done, again, or a shortfall
\* that is bought back on the perp side.
AfterAttempt(q) ==
    IF q = 0 THEN [t EXCEPT !.pc = AfterHedge, !.unhedged = 0, !.need = 0, !.fill = 0]
    ELSE IF t.tries + 1 < Attempts
    THEN [t EXCEPT !.pc = "buy", !.need = q, !.tries = @ + 1, !.fill = 0]
    ELSE [t EXCEPT !.pc = "unwind", !.naked = q, !.unhedged = 0, !.need = 0, !.fill = 0]

\* The reply: record the fill.
SpotBought ==
    /\ t.pc = "bought"
    /\ dbSpot' = dbSpot + t.fill
    /\ t' = AfterAttempt(t.need - t.fill)
    /\ UNCHANGED <<venue, state, dbPerp, booked, intent, stop, runs, room, warned, report>>

\* MEXC rejects the order, or there is no book to price it with.
SpotRejected ==
    /\ t.pc = "buy"
    /\ t' = AfterAttempt(t.need)
    /\ UNCHANGED <<venue, db, stop, runs, room, warned, report>>

\* Deviation: an unknown outcome is taken for an empty fill.
SpotAmbiguousRetried ==
    /\ "spot_ambiguous" \in Faults
    /\ t.pc = "bought"
    /\ t' = AfterAttempt(t.need)
    /\ UNCHANGED <<venue, db, stop, runs, room, warned, report>>

\* Neither retried nor unwound: the operator is told and the run goes on.
SpotAmbiguous ==
    /\ "spot_ambiguous" \in Faults
    /\ t.pc = "bought"
    /\ t' = [t EXCEPT !.pc = AfterHedge, !.unhedged = 0, !.need = 0, !.fill = 0]
    /\ warned' = TRUE
    /\ UNCHANGED <<venue, db, stop, runs, room, report>>

-------------------------------------------------------------------------------
\* _unwind_perp: buy a naked fill back, until it is done or too late.

\* Whatever the buy-back was for, the salvage is still to be hedged.
Unwound == IF t.unhedged > 0 THEN Hedging(t.unhedged)
           ELSE [t EXCEPT !.pc = AfterHedge, !.naked = 0, !.fill = 0]

\* A reduce-only immediate-or-cancel order buys k.
BuyBack(k) ==
    /\ t.pc = "unwind"
    /\ k <= t.naked
    /\ k <= vPerp
    /\ vPerp' = vPerp - k
    /\ t' = [t EXCEPT !.pc = "unwound", !.fill = k]
    /\ UNCHANGED <<ost, oqty, exec, placed, vSpot, db, stop, runs, room, warned, report>>

BoughtBack ==
    /\ t.pc = "unwound"
    /\ dbPerp' = dbPerp - t.fill
    /\ IF t.fill = t.naked
       THEN t' = [Unwound EXCEPT !.fill = 0]
       ELSE t' = [t EXCEPT !.pc = "unwind", !.naked = @ - t.fill, !.fill = 0]
    /\ UNCHANGED <<venue, state, dbSpot, booked, intent, stop, runs, room, warned, report>>

\* Every ExchangeError is retried, the ambiguous one included.
BuyBackAmbiguous ==
    /\ "unwind_ambiguous" \in Faults
    /\ t.pc = "unwound"
    /\ t' = [t EXCEPT !.pc = "unwind", !.fill = 0]
    /\ UNCHANGED <<venue, db, stop, runs, room, warned, report>>

\* Deviation: running out of time is not reported.
UnwindSilently ==
    /\ t.pc = "unwind"
    /\ t' = Unwound
    /\ UNCHANGED <<venue, db, stop, runs, room, warned, report>>

UnwindTimesOut ==
    /\ t.pc = "unwind"
    /\ warned' = TRUE
    /\ t' = Unwound
    /\ UNCHANGED <<venue, db, stop, runs, room, report>>

-------------------------------------------------------------------------------
\* The end of the run: the position's state and the message.

EndWith(s, r) ==
    /\ state' = s
    /\ report' = r
    /\ t' = Idle
    /\ UNCHANGED <<venue, dbPerp, dbSpot, booked, intent, stop, runs, room>>

LegGap == dbPerp - dbSpot
AddAborted == t.isAdd /\ t.aborted
\* A buy-back that did not complete leaves more than a lot unhedged.
AddIncomplete == AddAborted /\ LegGap > SpotStep
\* The contracts that stuck are at most one step (of one contract).
AddReverted == AddAborted /\ ~AddIncomplete /\ dbPerp - t.prePerp <= 1

EndAdd ==
    /\ t.pc = "finish"
    /\ \/ AddIncomplete /\ EndWith("OPEN", "incomplete") /\ warned' = TRUE
       \/ AddReverted /\ EndWith("OPEN", "reverted") /\ UNCHANGED warned

EndRun ==
    /\ t.pc = "finish"
    /\ ~AddIncomplete /\ ~AddReverted
    /\ UNCHANGED warned
    /\ IF dbSpot > 0 \/ dbPerp > 0
       THEN EndWith("OPEN", IF ~t.isAdd THEN "open" ELSE
                            IF dbPerp > t.prePerp THEN "added" ELSE "nothing")
       ELSE EndWith("CANCELLED", "cancelled")

-------------------------------------------------------------------------------
LoopStep ==
    \/ LeaveLoop
    \/ RestNothing
    \/ \E q \in 1..Target : Place(q)
    \/ \E reprice \in BOOLEAN : Poll(reprice)
    \/ CancelOrder
    \/ ReadCancelled

HedgeStep ==
    \/ NothingToHedge
    \/ HedgeAll
    \/ \E salvage \in 0..Target : HedgePart(salvage)
    \/ \E k \in 0..Target : BuySpot(k)
    \/ SpotBought
    \/ SpotRejected
    \/ \E k \in 0..Target : BuyBack(k)
    \/ BoughtBack

PlaceReply == PlaceConfirmed \/ PlaceRejected \/ PlaceAmbiguous

TaskStep ==
    LoopStep \/ PlaceReply \/ HedgeStep \/ UnwindTimesOut \/ EndAdd \/ EndRun

FaultStep == TaskDies \/ SpotAmbiguous \/ BuyBackAmbiguous

EngineStep == StartRun \/ StartWithoutQuotes \/ AskToStop \/ TaskStep \/ FaultStep

EntryNext == VenueStep \/ EngineStep

EntrySpec == EntryInit /\ [][EntryNext]_vars

\* The event loop schedules the coroutine and every request is answered or
\* times out; the entry deadline and the deadline of a buy-back pass, and are
\* looked at in every turn of their loops.  The venue owes no fill.
EntryFairness ==
    /\ WF_vars(TaskStep)
    /\ WF_vars(AskToStop)
    /\ WF_vars(VenueAnswers)
    /\ SF_vars(UnwindTimesOut)

EntryFairSpec == EntrySpec /\ EntryFairness

-------------------------------------------------------------------------------
\* The run is over and has left the position in a state of rest.
Settled == t.pc = "idle" /\ runs > 0 /\ state # "ENTERING"

OrderLive(o) == ost[o] \in {"sent", "open"}

\* No fill of a maker order is booked twice, by the polls, the cancellation of
\* a repricing, the last cancellation of the run or (EntryRecovery) the two
\* passes of a restart: the contracts recorded under an order never exceed
\* what it executed.
NoDoubleBooking == \A o \in Order : booked[o] <= exec[o]

\* The spot leg follows the perp leg: whatever fills, collapses, falls short
\* or is bought back, the account never holds more spot than perp short, so a
\* hedge is never sent twice and a buy-back never eats an earlier hedge.
SpotNeverLeads == vSpot <= vPerp

\* The maker orders of a run, replaced after partial fills and cancellations
\* that race with fills, never sell more than the runs set out to.
NeverOversold == room >= 0

\* When a run is over the rows say what the venues hold, and no order of the
\* run is left on the book.
RowsMatchVenues ==
    Settled => /\ dbPerp = vPerp
               /\ dbSpot = vSpot
               /\ \A o \in Order : ~OrderLive(o)

\* "Every fill increment is immediately hedged ... If the hedge cannot fill,
\* the naked perp fill is unwound with an IOC reduce-only buy-back and the
\* operator is alerted." (executor.py): a run does not leave legs that differ
\* by a MEXC lot or more without saying so.
LegsMatch == vPerp - vSpot \in 0..(SpotStep - 1)
LegsMatchOrWarned == Settled => LegsMatch \/ warned

\* The same for a run that ended in an exception and left the position in
\* ENTERING: no perp may stay naked behind it without a word.
DeadRunLeavesNothingNaked ==
    t.pc = "idle" /\ state = "ENTERING" => LegsMatch \/ warned

\* cancel_perp_order: "Already filled/cancelled is fine; final status comes
\* from get_order".  Once the run has forgotten its order and ended, none of
\* its orders can still fill.
NoOrderOutlivesRun == Settled => \A o \in Order : ost[o] # "open"

\* A run is over in the end: no fault, book or reply keeps it waiting.
RunEnds == t.pc # "idle" ~> t.pc = "idle"

\* "add NOT taken ... Position unchanged": the message of a reverted add is
\* true of the position.
RevertedMeansUnchanged ==
    [][report' = "reverted" /\ report # "reverted" => dbPerp = t.prePerp]_vars
===============================================================================
