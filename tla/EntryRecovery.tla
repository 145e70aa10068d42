----------------------------- MODULE EntryRecovery -----------------------------
(***************************************************************************)
(* Crashes of the engine during an entry run (EntryRun), and the start-up  *)
(* reconciliation of recovery.py that puts the rows right: it sweeps the   *)
(* resting maker orders, looks the unresolved intents up at the venue,     *)
(* corrects the position's state and compares the perp leg with the        *)
(* venue.  The venues go on while the engine is down and while it          *)
(* reconciles, and it can crash again at any point of it.                  *)
(*                                                                         *)
(* The position is the only one on its symbol.  A place request that is on *)
(* its way when the engine crashes is decided by the venue before the      *)
(* engine is back.  Intents of immediate-or-cancel orders carry no client  *)
(* id and are only marked failed, so they are left out.                    *)
(***************************************************************************)
EXTENDS EntryRun

CONSTANTS
    MaxCrashes,      \* engine crashes in a behaviour
    RecoveryFaults   \* which of RecoveryFaultKinds may happen

RecoveryFaultKinds ==
    {"listing_fails",    \* open_orders raises
     "sweep_fails",      \* a cancel request of the sweep has no effect
     "lookup_fails",     \* get_order_by_client_id raises
     "risk_fails"}       \* position_risk raises

ASSUME RecoveryAssumption ==
    /\ MaxCrashes \in Nat
    /\ RecoveryFaults \subseteq RecoveryFaultKinds

VARIABLES
    phase,       \* "up", "down", or how far reconcile has come
    snap,        \* the position as positions.active() read it
    listed,      \* resting orders of the sweep not yet cancelled
    unresolved,  \* unresolved intents not yet reconciled
    found,       \* what the lookup of the intent at hand returned
    mismatch,    \* the last comparison with the venue reported a mismatch
    crashes

recovering == <<phase, snap, listed, unresolved, found>>
allVars == <<vars, recovering, mismatch, crashes>>

Phases == {"up", "down", "sweep", "intents", "resolve", "fixup", "compare"}
NoSnap == [state |-> "none", perp |-> 0, spot |-> 0]
NoOrder == [oid |-> 0, open |-> FALSE, exec |-> 0]
Snap == [state : PositionStates \cup {"none"}, perp : Int, spot : Nat]
Found == [oid : Order \cup {0}, open : BOOLEAN, exec : Nat]

\* The types of EntryRun and of what reconcile keeps.
RecoveryTypeOK ==
    /\ EntryTypeOK
    /\ phase \in Phases
    /\ snap \in Snap
    /\ listed \subseteq Order
    /\ unresolved \subseteq Order
    /\ found \in Found
    /\ mismatch \in BOOLEAN
    /\ crashes \in Nat

RecoveryInit ==
    /\ EntryInit
    /\ phase = "up"
    /\ snap = NoSnap
    /\ listed = {}
    /\ unresolved = {}
    /\ found = NoOrder
    /\ mismatch = FALSE
    /\ crashes = 0

-------------------------------------------------------------------------------
\* The process dies, in a run or in the middle of reconcile: what it held in
\* memory is gone.
Crash ==
    /\ phase # "down"
    /\ crashes < MaxCrashes
    /\ crashes' = crashes + 1
    /\ phase' = "down"
    /\ snap' = NoSnap
    /\ listed' = {}
    /\ unresolved' = {}
    /\ found' = NoOrder
    /\ t' = Idle
    /\ stop' = FALSE
    /\ UNCHANGED <<venue, db, runs, room, warned, report, mismatch>>

Active == state # "CANCELLED"
InDoubt(o) == intent[o] \in {"pending", "ambiguous"}

\* Deviation: the orders of a position in mid-entry are not listed.
BeginWithOpenOnly ==
    /\ phase = "down"
    /\ \A o \in Order : ost[o] # "sent"
    /\ phase' = "sweep"
    /\ snap' = [state |-> state, perp |-> dbPerp, spot |-> dbSpot]
    /\ unresolved' = {o \in Order : InDoubt(o)}
    /\ listed' = {o \in Order : state = "OPEN" /\ ost[o] = "open"}
    /\ UNCHANGED <<vars, found, mismatch, crashes>>

\* reconcile reads the active positions, the unresolved intents and, for the
\* symbols of the active positions, the resting orders.
BeginReconcile ==
    /\ phase = "down"
    /\ \A o \in Order : ost[o] # "sent"
    /\ phase' = "sweep"
    /\ snap' = [state |-> state, perp |-> dbPerp, spot |-> dbSpot]
    /\ unresolved' = {o \in Order : InDoubt(o)}
    /\ \/ listed' = {o \in Order : Active /\ ost[o] = "open"}
       \/ "listing_fails" \in RecoveryFaults /\ listed' = {}
    /\ UNCHANGED <<vars, found, mismatch, crashes>>

\* Deviation: the whole executed quantity is booked, not what is missing.
BookWholeFill(o, executed) ==
    /\ booked' = [booked EXCEPT ![o] = @ + executed]
    /\ dbPerp' = dbPerp + executed
    /\ warned' = TRUE

\* _book_late_fill, when the order executed something: what is not yet booked
\* under the order's id is, and the operator told; if nothing is missing the
\* rows stay.
BookLateFill(o, executed) ==
    LET delta == executed - booked[o] IN
    IF delta > 0
    THEN /\ booked' = [booked EXCEPT ![o] = @ + delta]
         /\ dbPerp' = dbPerp + delta
         /\ warned' = TRUE
    ELSE UNCHANGED <<booked, dbPerp, warned>>

\* One order of the sweep: cancel it and book what it had executed.  If it is
\* no longer open, or the request fails, nothing is booked.
SweepOrder(o) ==
    /\ phase = "sweep"
    /\ o \in listed
    /\ listed' = listed \ {o}
    /\ \/ /\ ost[o] = "open"
          /\ ost' = [ost EXCEPT ![o] = "cancelled"]
          /\ BookLateFill(o, exec[o])
       \/ /\ ost[o] # "open" \/ "sweep_fails" \in RecoveryFaults
          /\ UNCHANGED <<ost, booked, dbPerp, warned>>
    /\ UNCHANGED <<oqty, exec, placed, vPerp, vSpot, state, dbSpot, intent, t, stop,
                   runs, room, report, phase, snap, unresolved, found, mismatch, crashes>>

EndSweep ==
    /\ phase = "sweep"
    /\ listed = {}
    /\ phase' = "intents"
    /\ UNCHANGED <<vars, snap, listed, unresolved, found, mismatch, crashes>>

\* _reconcile_intent of the oldest one left: look the order up by client id.
LookupIntent(o) ==
    /\ phase = "intents"
    /\ o \in unresolved
    /\ \A p \in unresolved : o <= p
    /\ unresolved' = unresolved \ {o}
    /\ \/ /\ ost[o] # "rejected"
          /\ found' = [oid |-> o, open |-> ost[o] = "open", exec |-> exec[o]]
          /\ phase' = "resolve"
          /\ UNCHANGED intent
       \/ /\ ost[o] = "rejected" \/ "lookup_fails" \in RecoveryFaults
          /\ intent' = [intent EXCEPT ![o] = "failed"]
          /\ UNCHANGED <<found, phase>>
    /\ UNCHANGED <<venue, state, dbPerp, dbSpot, booked, t, stop, runs, room, warned,
                   report, snap, listed, mismatch, crashes>>

\* Cancel it if the lookup saw it open, book what the lookup saw it execute,
\* or say that there was nothing to attribute.
ResolveIntent ==
    /\ phase = "resolve"
    /\ \/ ost' = [ost EXCEPT ![found.oid] =
                     IF found.open /\ @ = "open" THEN "cancelled" ELSE @]
       \/ "sweep_fails" \in RecoveryFaults /\ UNCHANGED ost
    /\ IF found.exec > booked[found.oid]
       THEN BookLateFill(found.oid, found.exec)
       ELSE /\ warned' = IF found.exec > 0 THEN TRUE ELSE warned
            /\ UNCHANGED <<booked, dbPerp>>
    /\ intent' = [intent EXCEPT ![found.oid] = "reconciled"]
    /\ found' = NoOrder
    /\ phase' = "intents"
    /\ UNCHANGED <<oqty, exec, placed, vPerp, vSpot, state, dbSpot, t, stop, runs, room,
                   report, snap, listed, unresolved, mismatch, crashes>>

EndIntents ==
    /\ phase = "intents"
    /\ unresolved = {}
    /\ phase' = "fixup"
    /\ UNCHANGED <<vars, snap, listed, unresolved, found, mismatch, crashes>>

\* Deviation: a position found in mid-entry keeps its state.
KeepState ==
    /\ phase = "fixup"
    /\ phase' = "compare"
    /\ UNCHANGED <<vars, snap, listed, unresolved, found, mismatch, crashes>>

\* The state fix-ups, from the position as it was read at the beginning.
FixUp ==
    /\ phase = "fixup"
    /\ phase' = "compare"
    /\ IF snap.state \notin {"PENDING_ENTRY", "ENTERING"}
       THEN UNCHANGED <<state, warned>>
       ELSE IF snap.perp > 0 \/ snap.spot > 0
       THEN state' = "OPEN" /\ warned' = TRUE
       ELSE state' = "CANCELLED" /\ UNCHANGED warned
    /\ UNCHANGED <<venue, dbPerp, dbSpot, booked, intent, t, stop, runs, room, report,
                   snap, listed, unresolved, found, mismatch, crashes>>

\* The perp contracts of the active positions, as read again at the end.
ActivePerp == IF Active THEN dbPerp ELSE 0

\* Deviation: only positions the rows call active are compared.
CompareActiveOnly ==
    /\ phase = "compare"
    /\ phase' = "up"
    /\ mismatch' = (Active /\ dbPerp # vPerp)
    /\ warned' = IF mismatch' THEN TRUE ELSE warned
    /\ UNCHANGED <<venue, db, t, stop, runs, room, report, snap, listed, unresolved, found,
                   crashes>>

\* _compare_with_venues, the end of reconcile: the engine's loops start.
Compare ==
    /\ phase = "compare"
    /\ phase' = "up"
    /\ \/ mismatch' = (ActivePerp # vPerp)
       \/ "risk_fails" \in RecoveryFaults /\ mismatch' = FALSE
    /\ warned' = IF mismatch' THEN TRUE ELSE warned
    /\ UNCHANGED <<venue, db, t, stop, runs, room, report, snap, listed, unresolved, found,
                   crashes>>

-------------------------------------------------------------------------------
ReconcileStep ==
    \/ BeginReconcile
    \/ \E o \in Order : SweepOrder(o) \/ LookupIntent(o)
    \/ EndSweep
    \/ ResolveIntent
    \/ EndIntents
    \/ FixUp
    \/ Compare

restartVars == <<recovering, mismatch, crashes>>

\* A step of the run is one of an engine that is up; the venues need no engine.
WhileUp(A) == phase = "up" /\ A /\ UNCHANGED restartVars

RecoveryNext ==
    \/ WhileUp(EngineStep)
    \/ VenueStep /\ UNCHANGED restartVars
    \/ ReconcileStep
    \/ Crash

RecoverySpec == RecoveryInit /\ [][RecoveryNext]_allVars

\* As EntryFairness while the engine is up; systemd restarts it when it failed
\* (Restart=on-failure), and reconcile runs to its end.
RecoveryFairSpec ==
    /\ RecoverySpec
    /\ WF_allVars(WhileUp(TaskStep))
    /\ WF_allVars(WhileUp(AskToStop))
    /\ WF_allVars(VenueAnswers /\ UNCHANGED restartVars)
    /\ SF_allVars(WhileUp(UnwindTimesOut))
    /\ WF_allVars(ReconcileStep)

-------------------------------------------------------------------------------
\* "so an order that DID land after a crash is found and cancelled/surfaced
\* rather than becoming a silent orphan" (recovery.py): when reconcile has
\* been through the sweep and the intents, no order of ours can still fill,
\* whichever step of whichever run the crash cut short.
NothingRestsAfterSweep ==
    phase \in {"fixup", "compare"} => \A o \in Order : ~OrderLive(o)

\* A crash at any point, filled orders, lost replies and a second crash in the
\* middle of reconcile included, does not leave legs that differ without a
\* word to the operator once the engine is up again.
NakedLegIsReported == phase = "up" => LegsMatchOrWarned

\* Seen from the account, runs, crashes and restarts are the life of two legs
\* that TwoLegs describes: no fill comes when nobody is at work, no run sells
\* more than it was started for, and none is over with unequal legs in silence.
Legs ==
    INSTANCE TwoLegs WITH
        Size <- Target, perp <- vPerp, spot <- vSpot, told <- warned,
        working <- state = "ENTERING" \/ phase # "up"
ImplementsTwoLegs == Legs!Spec

\* Whatever is running when the engine dies, the position does not stay in
\* mid-entry for ever.
EntrySettles == state = "ENTERING" ~> state # "ENTERING"

\* "ENTERING with exposure -> OPEN" and "ENTERING without exposure ->
\* CANCELLED" (recovery.py): a cancelled position holds nothing by the rows.
CancelledHoldsNothing == state = "CANCELLED" => dbPerp = 0 /\ dbSpot = 0

\* "It may have filled - wholly or partly - in the gap" (_book_late_fill):
\* what the maker orders executed is in the rows when reconcile is done.
LateFillsAreBooked ==
    phase = "compare" => \A o \in Order : booked[o] = exec[o]

\* "Compare DB exposure to venue state (Aster positionRisk, MEXC balances) and
\* alert on mismatch" (recovery.py), for the second of the two.
SpotMismatchIsReported ==
    [][phase = "compare" /\ phase' = "up" => dbSpot = vSpot \/ mismatch']_allVars
===============================================================================
