---------------------------------- MODULE Desk ----------------------------------
(***************************************************************************)
(* Who may act on a position: the operator's commands, the safety loop     *)
(* (liquidation guard, convergence and adverse closes, the one-shot exit   *)
(* of /auto and what hands it back) and the score alerts that enter by     *)
(* themselves.  Commands run one at a time, the loop's sweep is another    *)
(* coroutine, and both share the three steps of a close: write the request,*)
(* cancel the stops, start the task once the old one is gone.              *)
(* Prices are choices: a level is crossed or not, a window is over or not. *)
(* The inside of a task is in EntryRun and ExitRun, the stops in StopGuard.*)
(* A symbol has one slot: "CLOSED" is no active position in it.            *)
(***************************************************************************)
EXTENDS Integers, FiniteSets

CONSTANTS
    Symbol,       \* symbols traded
    Kinds,        \* trade kinds in use: "carry", "convergence", "spike"
    ExitModes,    \* modes /exit is given
    MaxPerDay,    \* AUTO_ENTER_MAX_PER_DAY
    MaxOpenAuto,  \* AUTO_ENTER_MAX_OPEN
    MaxOps,       \* commands in a behaviour
    MaxRestarts,  \* restarts of the engine in a behaviour
    DeskFaults    \* which of DeskFaultKinds may happen

DeskFaultKinds ==
    {"stale_row",      \* a position changes between the read of its row by the
                       \* sweep and what the sweep does about it
     "two_closes",     \* two callers wait for the same cancelled task
     "cancel_races",   \* a close goes on while somebody else is cancelling an
                       \* exit of the position, or removing it
     "done_first",     \* an exit is complete while the one that replaces it is
                       \* still cancelling stops
     "marks_late",     \* /exit arrives between an automatic exit and its mark
     "add_races",      \* /enter adds to an OPEN position with a task, or an exit, that begins
     "adopt_races",    \* a position appears while /adopt asks the venues
     "passive_again"}  \* /exit passive on a position that has been closing by convergence

ASSUME DeskAssumption ==
    /\ Kinds \subseteq {"carry", "convergence", "spike"} /\ ExitModes \subseteq {"now", "passive"}
    /\ MaxPerDay \in Nat /\ MaxOpenAuto \in Nat /\ MaxOps \in Nat /\ MaxRestarts \in Nat
    /\ DeskFaults \subseteq DeskFaultKinds

VARIABLES
    pos,          \* the positions' rows
    pending,      \* auto_arm_pending: entries to arm when they are done
    recent,       \* symbols with an action in the persisted log within the cooldown
    today,        \* actions in the persisted log within 24 hours
    tasks,        \* coroutines of the executor; reg: the registry knows it
    autoPassive,  \* _auto_passive: exits the convergence rule manages
    liqProtect,   \* _liq_protect: stood down once for this excursion
    at,           \* where the command and the sweep are
    owner,        \* who asked for the exit a row requests
    shots,        \* automatic exits since the position was last armed
    starts,       \* automatic entries and adds since the symbol last cooled down
    dayStarts,    \* ... in the last 24 hours, all symbols
    twice,        \* a second position was created in a symbol that has one
    ops, restarts \* counters

deskRow == <<pos, pending, recent, today>>
deskMemory == <<autoPassive, liqProtect>>
deskGhosts == <<owner, shots, starts, dayStarts, twice>>
deskVars == <<deskRow, tasks, deskMemory, at, deskGhosts, ops, restarts>>

Caller == {"op", "sw"}
NoPosition == [state |-> "CLOSED", mode |-> "none", exitAuto |-> FALSE, armed |-> FALSE,
               byAuto |-> FALSE, kind |-> "carry"]
NoRow == [state |-> "CLOSED", mode |-> "none", exitAuto |-> FALSE]
AtRest == [pc |-> "idle", s |-> CHOOSE s \in Symbol : TRUE, goal |-> "none", why |-> "none",
           row |-> NoRow]

DeskInit ==
    /\ pos = [s \in Symbol |-> NoPosition]
    /\ pending = {} /\ recent = {} /\ today = 0 /\ tasks = {}
    /\ autoPassive = {} /\ liqProtect = {}
    /\ at = [c \in Caller |-> AtRest]
    /\ owner = [s \in Symbol |-> "none"] /\ shots = [s \in Symbol |-> 0]
    /\ starts = [s \in Symbol |-> 0] /\ dayStarts = 0 /\ twice = FALSE
    /\ ops = 0 /\ restarts = 0

Active(s) == pos[s].state # "CLOSED"
HasTask(s) == \E t \in tasks : t.s = s /\ t.reg
May(f) == f \in DeskFaults
\* The sweep has read the row of s and not yet decided what to do about it.
RowInHand(s) == at["sw"].s = s /\ at["sw"].pc \in {"liquidation", "decide"}
RowMayMove(s) == RowInHand(s) => May("stale_row")
Goes(c, pc) == at' = [at EXCEPT ![c].pc = pc]
\* The row is kept only by a stand-down the sweep comes back from.
Frame(c, s, pc, goal, why) ==
    at' = [at EXCEPT ![c] = [pc |-> pc, s |-> s, goal |-> goal, why |-> why,
                             row |-> IF why = "liq" THEN @.row ELSE NoRow]]
Leaves(pc) == Frame("sw", at["sw"].s, pc, "none", "none")

-------------------------------------------------------------------------------
\* The task registry.

Spawned(s, kind) ==
    {IF t.s = s THEN [t EXCEPT !.reg = FALSE] ELSE t : t \in tasks}
        \cup {[s |-> s, kind |-> kind, phase |-> "spawned", reg |-> TRUE]}

\* _cancel_task: a task that has not run never will, another gets CancelledError.
Cancelled(s) ==
    {IF t.s = s /\ t.reg THEN [t EXCEPT !.phase = "dying"] ELSE t :
         t \in {u \in tasks : u.s # s \/ ~u.reg \/ u.phase # "spawned"}}
MayCancel(c, s) == (\E d \in Caller \ {c} : at[d].pc = "wait" /\ at[d].s = s) => May("two_closes")

TaskDies(t) ==
    /\ t.phase = "dying" /\ tasks' = tasks \ {t}
    /\ UNCHANGED <<deskRow, deskMemory, at, deskGhosts, ops, restarts>>

TaskRuns(t) ==
    /\ t.phase = "spawned" /\ RowMayMove(t.s)
    /\ tasks' = (tasks \ {t}) \cup {[t EXCEPT !.phase = "working"]}
    /\ pos' = [pos EXCEPT ![t.s].state = IF t.kind = "exit" THEN "EXITING" ELSE "ENTERING"]
    /\ UNCHANGED <<pending, recent, today, deskMemory, at, deskGhosts, ops, restarts>>

\* A new entry may end with no fill; an add ends with the position it began with.
EntryEnds(t, state) ==
    /\ t.phase = "working" /\ t.kind # "exit" /\ RowMayMove(t.s)
    /\ state = "CLOSED" => t.kind = "entry"
    /\ tasks' = tasks \ {t}
    /\ pos' = [pos EXCEPT ![t.s].state = state]
    /\ UNCHANGED <<pending, recent, today, deskMemory, at, deskGhosts, ops, restarts>>

\* _complete_exit: closed, open with a part of it left, or incomplete and still EXITING.
ExitEnds(t, state) ==
    /\ t.phase = "working" /\ t.kind = "exit" /\ RowMayMove(t.s)
    /\ (state # "EXITING" /\ \E c \in Caller : at[c].s = t.s /\ at[c].pc = "stops") => May("done_first")
    /\ tasks' = tasks \ {t}
    /\ pos' = [pos EXCEPT ![t.s].state = state, ![t.s].mode = IF state = "OPEN" THEN "none" ELSE @]
    /\ owner' = [owner EXCEPT ![t.s] = IF state = "EXITING" THEN @ ELSE "none"]
    /\ UNCHANGED <<pending, recent, today, deskMemory, at, shots, starts, dayStarts, twice,
                   ops, restarts>>

-------------------------------------------------------------------------------
\* What the operator and the loop have in common.

\* The request is written before the stops are cancelled: an effect on rows only.
Requested(s, mode) == [pos EXCEPT ![s].mode = mode]
OwnedBy(s, who) == [owner EXCEPT ![s] = who]

\* start_exit cancels the task there is, or spawns at once.
StopsCancelled(c) ==
    LET s == at[c].s IN
    /\ at[c].pc = "stops" /\ HasTask(s) /\ MayCancel(c, s)
    /\ tasks' = Cancelled(s) /\ Goes(c, "wait")
    /\ UNCHANGED <<deskRow, deskMemory, deskGhosts, ops, restarts>>

\* Nobody (else) is in the middle of _cancel_exit, or of /remove.
Alone(c, s) ==
    (\E d \in Caller \ {c} : /\ at[d].s = s /\ at[d].goal \in {"open", "closed"}
                            /\ at[d].pc \in {"wait", "orders"}) => May("cancel_races")

\* _cancel_exit and /remove begin with the task.
Halts(c, s, goal, why) ==
    /\ MayCancel(c, s) /\ Alone(c, s)
    /\ (\E d \in Caller \ {c} : at[d].s = s /\ at[d].pc \in {"stops", "wait"}) => May("cancel_races")
    /\ tasks' = Cancelled(s)
    /\ Frame(c, s, "wait", goal, why)

\* Deviation: the old task is cancelled and not waited for.
TaskGoneUnwaited(c) == at[c].pc = "wait"
\* The await of _cancel_task returns.
TaskGone(c) == at[c].pc = "wait" /\ ~\E t \in tasks : t.s = at[c].s /\ t.phase = "dying"

\* The command is answered; the sweep goes on with the position, or to the next.
Returns(c, pc) == CASE c = "op"                  -> at' = [at EXCEPT !["op"] = AtRest]
                    [] c = "sw" /\ pc = "decide" -> Goes(c, pc)
                    [] OTHER                     -> Leaves(pc)

\* start_exit, its second half.  An automatic exit is marked as it returns.
StartExit(c) ==
    LET s == at[c].s IN
    /\ TaskGone(c) \/ (at[c].pc = "stops" /\ ~HasTask(s))
    /\ at[c].goal = "exit"
    /\ Alone(c, s) /\ MayCancel(c, s)
    /\ tasks' = Spawned(s, "exit")
    /\ pos' = [pos EXCEPT ![s].exitAuto = @ \/ at[c].why = "auto"]
    /\ Returns(c, IF at[c].why = "loop" THEN "opportunity" ELSE "end")
    /\ UNCHANGED <<pending, recent, today, deskMemory, deskGhosts, ops, restarts>>

Rearms(c) == at[c].why = "standdown"

\* _cancel_exit, after its await; an automatic exit that stood down arms again.
BackToOpen(c) ==
    LET s == at[c].s IN
    /\ TaskGone(c) /\ at[c].goal = "open" /\ RowMayMove(s)
    /\ pos' = [pos EXCEPT ![s].mode = "none", ![s].exitAuto = FALSE, ![s].state = "OPEN",
                          ![s].armed = @ \/ Rearms(c)]
    /\ owner' = OwnedBy(s, "none")
    /\ shots' = [shots EXCEPT ![s] = IF Rearms(c) THEN 0 ELSE @]
    /\ Returns(c, IF at[c].why = "liq" THEN "decide" ELSE "end")
    /\ UNCHANGED <<pending, recent, today, tasks, deskMemory, starts, dayStarts, twice,
                   ops, restarts>>

-------------------------------------------------------------------------------
\* Commands.

Command == at["op"].pc = "idle" /\ ops < MaxOps /\ ops' = ops + 1

\* Deviation: a manual exit does not take an automatic one over.
TakenOverStillMarked(s, mode, flatten) == Requested(s, mode)
TakenOver(s, mode, flatten) == [Requested(s, mode) EXCEPT ![s].exitAuto = @ /\ flatten]

\* /exit, and /flatten for a position that is OPEN: it leaves exit_auto alone.
ExitCommand(s, mode, flatten) ==
    /\ Command /\ RowMayMove(s)
    /\ pos[s].state \in (IF flatten THEN {"OPEN"} ELSE {"OPEN", "EXITING"})
    /\ flatten => mode = "now"
    /\ Alone("op", s)
    /\ (at["sw"].s = s /\ at["sw"].why = "auto" /\ at["sw"].pc # "end") => May("marks_late")
    /\ (mode = "passive" /\ s \in autoPassive) => May("passive_again")
    /\ pos' = TakenOver(s, mode, flatten)
    /\ owner' = OwnedBy(s, "operator")
    /\ Frame("op", s, "stops", "exit", "operator")
    /\ UNCHANGED <<pending, recent, today, tasks, deskMemory, shots, starts, dayStarts, twice,
                   restarts>>

\* /exit cancel, and /cancel of a position that is EXITING.
ExitCancel(s) ==
    /\ Command
    /\ pos[s].state = "EXITING" \/ (Active(s) /\ pos[s].mode # "none")
    /\ Halts("op", s, "open", "operator")
    /\ UNCHANGED <<deskRow, deskMemory, deskGhosts, restarts>>

\* /auto: only an OPEN position with no exit working is armed.
AutoCommand(s, on) ==
    /\ Command /\ Active(s)
    /\ IF on THEN pos[s].state = "OPEN" /\ pos[s].mode = "none" ELSE pos[s].armed
    /\ pos' = [pos EXCEPT ![s].armed = on]
    /\ shots' = [shots EXCEPT ![s] = IF on THEN 0 ELSE @]
    /\ UNCHANGED <<pending, recent, today, tasks, deskMemory, at, owner, starts, dayStarts,
                   twice, restarts>>

\* PositionManager.create: a new row, of an id nothing remembers.
Created(s, kind, byAuto, state) ==
    /\ pos' = [pos EXCEPT ![s] = [NoPosition EXCEPT !.state = state, !.kind = kind, !.byAuto = byAuto]]
    /\ twice' = (twice \/ Active(s))
    /\ shots' = [shots EXCEPT ![s] = 0] /\ owner' = OwnedBy(s, "none")
    /\ autoPassive' = autoPassive \ {s} /\ liqProtect' = liqProtect \ {s}

EnterCommand(s, kind) ==
    /\ Command /\ RowMayMove(s)
    /\ \/ /\ ~Active(s)
          /\ Created(s, kind, FALSE, "ENTERING")
          /\ tasks' = Spawned(s, "entry") /\ pending' = pending \ {s}
       \/ /\ pos[s].state = "OPEN" /\ Alone("market", s) /\ (HasTask(s) \/ pos[s].mode # "none" => May("add_races"))
          /\ tasks' = Spawned(s, "add")
          /\ UNCHANGED <<pos, twice, shots, owner, deskMemory, pending>>
    /\ UNCHANGED <<recent, today, at, starts, dayStarts, restarts>>

\* /remove: the task first, then what is remembered, then orders, then the row.
RemoveCommand(s) ==
    /\ Command /\ RowMayMove(s) /\ Active(s)
    /\ Halts("op", s, "closed", "operator")
    /\ UNCHANGED <<deskRow, deskMemory, deskGhosts, restarts>>

RemoveForgets ==
    /\ TaskGone("op") /\ at["op"].goal = "closed"
    /\ autoPassive' = autoPassive \ {at["op"].s}
    /\ Goes("op", "orders")
    /\ UNCHANGED <<deskRow, tasks, liqProtect, deskGhosts, ops, restarts>>

RemoveCloses ==
    LET s == at["op"].s IN
    /\ at["op"].pc = "orders" /\ RowMayMove(s)
    /\ pos' = [pos EXCEPT ![s] = NoPosition]
    /\ owner' = OwnedBy(s, "none")
    /\ Returns("op", "end")
    /\ UNCHANGED <<pending, recent, today, tasks, deskMemory, shots, starts, dayStarts, twice,
                   ops, restarts>>

\* /adopt asks both venues between the check and the new row.
AdoptCommand(s) ==
    /\ Command /\ ~Active(s) /\ Frame("op", s, "adopt", "none", "operator")
    /\ UNCHANGED <<deskRow, tasks, deskMemory, deskGhosts, restarts>>

AdoptCreates ==
    LET s == at["op"].s IN
    /\ at["op"].pc = "adopt"
    /\ Active(s) => May("adopt_races")
    /\ Created(s, "carry", FALSE, "OPEN") /\ pending' = pending \ {s}
    /\ Returns("op", "end")
    /\ UNCHANGED <<recent, today, tasks, starts, dayStarts, ops, restarts>>

-------------------------------------------------------------------------------
\* The market loop: score alerts that enter, and the arming of what they entered.

OpenAuto == Cardinality({s \in Symbol : Active(s) /\ pos[s].byAuto})
WithinCaps(s) == today < MaxPerDay /\ s \notin recent

\* _record_auto_action: before anything starts.
Recorded(s) == recent' = recent \cup {s} /\ today' = today + 1
Counted(s) == starts' = [starts EXCEPT ![s] = @ + 1] /\ dayStarts' = dayStarts + 1

AutoEnter(s, kind) ==
    /\ ~Active(s) /\ OpenAuto < MaxOpenAuto /\ WithinCaps(s) /\ Recorded(s) /\ Counted(s)
    /\ Created(s, kind, TRUE, "ENTERING")
    /\ pending' = pending \cup {s}
    /\ tasks' = Spawned(s, "entry")
    /\ UNCHANGED <<at, ops, restarts>>

\* Deviation: the log is for entries, as an add makes no row.
AutoAddUnlogged(s) ==
    /\ pos[s].state = "OPEN" /\ ~HasTask(s) /\ pos[s].mode = "none"
    /\ RowMayMove(s) /\ Alone("market", s)
    /\ WithinCaps(s) /\ Counted(s) /\ UNCHANGED <<recent, today>>
    /\ tasks' = Spawned(s, "add")
    /\ UNCHANGED <<pos, pending, deskMemory, at, owner, shots, twice, ops, restarts>>
AutoAdd(s) ==
    /\ pos[s].state = "OPEN" /\ ~HasTask(s) /\ pos[s].mode = "none"
    /\ RowMayMove(s) /\ Alone("market", s)
    /\ WithinCaps(s) /\ Recorded(s) /\ Counted(s)
    /\ tasks' = Spawned(s, "add")
    /\ UNCHANGED <<pos, pending, deskMemory, at, owner, shots, twice, ops, restarts>>

\* The cooldown is over; an action is a day old.
CoolsDown(s) ==
    /\ s \in recent /\ recent' = recent \ {s} /\ starts' = [starts EXCEPT ![s] = 0]
    /\ UNCHANGED <<pos, pending, today, tasks, deskMemory, at, owner, shots, dayStarts, twice,
                   ops, restarts>>
DayPasses ==
    /\ today > Cardinality(recent) /\ today' = today - 1 /\ dayStarts' = dayStarts - 1
    /\ UNCHANGED <<pos, pending, recent, tasks, deskMemory, at, owner, shots, starts, twice,
                   ops, restarts>>

\* _arm_pending_auto: dropped when never opened, kept while still entering.
ArmPending(s) ==
    /\ s \in pending /\ RowMayMove(s)
    /\ Active(s) => pos[s].state = "OPEN" /\ ~HasTask(s) /\ pos[s].mode = "none"
    /\ pending' = pending \ {s}
    /\ pos' = [pos EXCEPT ![s].armed = @ \/ Active(s)]
    /\ shots' = [shots EXCEPT ![s] = 0]
    /\ UNCHANGED <<recent, today, tasks, deskMemory, at, owner, starts, dayStarts, twice,
                   ops, restarts>>

-------------------------------------------------------------------------------
\* The sweep of the safety loop.

\* The sets of ids are pruned of what is no longer active.
SweepTakes(s) ==
    /\ at["sw"].pc = "idle" /\ Active(s)
    /\ at' = [at EXCEPT !["sw"] = [AtRest EXCEPT !.pc = "liquidation", !.s = s, 
                                        !.row = [x \in DOMAIN NoRow |-> pos[s][x]]]]
    /\ autoPassive' = {p \in autoPassive : Active(p)}
    /\ liqProtect' = {p \in liqProtect : Active(p)}
    /\ UNCHANGED <<deskRow, tasks, deskGhosts, ops, restarts>>

\* _check_liquidation and _stand_down_for_liq: a waiting order is cancelled, once
\* per excursion; a taker close is left to finish.
CheckLiquidation(near) ==
    LET s == at["sw"].s  row == at["sw"].row
        waiting == near /\ s \notin liqProtect /\ HasTask(s)
                   /\ ~(row.state = "EXITING" /\ row.mode = "now")
    IN
    /\ at["sw"].pc = "liquidation"
    /\ liqProtect' = CASE ~near   -> liqProtect \ {s}
                       [] waiting -> liqProtect \cup {s}
                       [] OTHER   -> liqProtect
    /\ autoPassive' = IF waiting THEN autoPassive \ {s} ELSE autoPassive
    /\ IF waiting /\ row.state = "EXITING" THEN Halts("sw", s, "open", "liq")
                                           ELSE Goes("sw", "decide") /\ UNCHANGED tasks
    /\ UNCHANGED <<deskRow, deskGhosts, ops, restarts>>

Deciding(state) == at["sw"].pc = "decide" /\ at["sw"].row.state = state
Managed == at["sw"].s \in autoPassive
ByItself == ~Managed /\ at["sw"].row.exitAuto

\* A close by the loop.
LoopCloses(mode, why) ==
    LET s == at["sw"].s IN
    /\ Alone("sw", s)
    /\ pos' = Requested(s, mode) /\ owner' = OwnedBy(s, "loop")
    /\ Frame("sw", s, "stops", "exit", why)
    /\ UNCHANGED <<pending, recent, today, tasks, liqProtect, shots, starts, dayStarts, twice,
                   ops, restarts>>

\* _check_safety: the adverse stop and the maximum holding time cross both books;
\* convergence rests a maker close that the loop goes on to manage; a spike that
\* has not reverted in time rests one at any basis.
SafetyCloses(mode, managed) ==
    LET s == at["sw"].s  kind == pos[s].kind IN
    /\ Deciding("OPEN")
    /\ managed => mode = "passive" /\ s \notin liqProtect
    /\ mode = "passive" => kind # "carry" /\ (managed \/ kind = "spike")
    /\ LoopCloses(mode, "loop")
    /\ autoPassive' = IF managed THEN autoPassive \cup {s} ELSE autoPassive

\* _check_auto_passive: escalate, or hand back when the basis recovers.
Escalates ==
    /\ Deciding("EXITING") /\ Managed /\ at["sw"].row.mode = "passive"
    /\ LoopCloses("now", "escalate")
    /\ autoPassive' = autoPassive \ {at["sw"].s}

Recovers ==
    /\ Deciding("EXITING") /\ (Managed \/ ByItself)
    /\ at["sw"].row.mode = "passive"
    /\ autoPassive' = autoPassive \ {at["sw"].s}
    /\ Halts("sw", at["sw"].s, "open", IF Managed THEN "recovered" ELSE "standdown")
    /\ UNCHANGED <<deskRow, liqProtect, deskGhosts, ops, restarts>>

\* Somebody switched the mode: the exit is no longer the loop's.
Releases ==
    LET s == at["sw"].s IN
    /\ Deciding("EXITING") /\ (Managed \/ ByItself)
    /\ at["sw"].row.mode # "passive"
    /\ autoPassive' = autoPassive \ {s}
    /\ pos' = [pos EXCEPT ![s].exitAuto = @ /\ Managed]
    /\ Leaves("end")
    /\ UNCHANGED <<pending, recent, today, tasks, liqProtect, deskGhosts, ops, restarts>>

NothingToDo ==
    /\ at["sw"].pc = "decide"
    /\ Leaves(IF Deciding("OPEN") THEN "opportunity" ELSE "end")
    /\ UNCHANGED <<deskRow, tasks, deskMemory, deskGhosts, ops, restarts>>

\* Deviation: it disarms when the exit is done.
DisarmedLater(s) == [Requested(s, "passive") EXCEPT ![s].exitAuto = FALSE]
Disarmed(s) == [Requested(s, "passive") EXCEPT ![s].exitAuto = FALSE, ![s].armed = FALSE]

\* _check_exit_opportunity reads the row again; armed, it goes through /exit.
AutoExit ==
    LET s == at["sw"].s IN
    /\ at["sw"].pc = "opportunity" /\ pos[s].state = "OPEN" /\ pos[s].mode = "none" /\ pos[s].armed
    /\ Alone("sw", s)
    /\ pos' = Disarmed(s) /\ owner' = OwnedBy(s, "auto")
    /\ shots' = [shots EXCEPT ![s] = @ + 1]
    /\ Frame("sw", s, "stops", "exit", "auto")
    /\ UNCHANGED <<pending, recent, today, tasks, deskMemory, starts, dayStarts, twice, ops, restarts>>

SweepLeaves ==
    /\ at["sw"].pc \in {"opportunity", "end"}
    /\ at' = [at EXCEPT !["sw"] = AtRest]
    /\ UNCHANGED <<deskRow, tasks, deskMemory, deskGhosts, ops, restarts>>

-------------------------------------------------------------------------------
\* The engine dies and comes back: entries are reconciled, exits resumed.
DeskRestart(opened) ==
    /\ restarts < MaxRestarts /\ restarts' = restarts + 1
    /\ opened \subseteq {s \in Symbol : pos[s].state = "ENTERING"}
    /\ pos' = [s \in Symbol |-> IF pos[s].state = "ENTERING"
                   THEN [pos[s] EXCEPT !.state = IF s \in opened THEN "OPEN" ELSE "CLOSED"]
                   ELSE pos[s]]
    /\ tasks' = {[s |-> s, kind |-> "exit", phase |-> "spawned", reg |-> TRUE] :
                     s \in {p \in Symbol : pos[p].state = "EXITING"}}
    /\ autoPassive' = {} /\ liqProtect' = {}
    /\ at' = [c \in Caller |-> AtRest]
    /\ UNCHANGED <<pending, recent, today, deskGhosts, ops>>

CommandNext ==
    \/ \E s \in Symbol, mode \in ExitModes, flatten \in BOOLEAN : ExitCommand(s, mode, flatten)
    \/ \E s \in Symbol : ExitCancel(s) \/ RemoveCommand(s) \/ AdoptCommand(s)
    \/ \E s \in Symbol, on \in BOOLEAN : AutoCommand(s, on)
    \/ \E s \in Symbol, kind \in Kinds : EnterCommand(s, kind)
    \/ RemoveForgets \/ RemoveCloses \/ AdoptCreates

MarketNext ==
    \/ \E s \in Symbol, kind \in Kinds : AutoEnter(s, kind)
    \/ \E s \in Symbol : AutoAdd(s) \/ CoolsDown(s) \/ ArmPending(s)
    \/ DayPasses

SweepNext ==
    \/ \E s \in Symbol : SweepTakes(s)
    \/ \E near \in BOOLEAN : CheckLiquidation(near)
    \/ \E mode \in {"now", "passive"}, managed \in BOOLEAN : SafetyCloses(mode, managed)
    \/ Escalates \/ Recovers \/ Releases \/ NothingToDo \/ AutoExit \/ SweepLeaves

TaskNext ==
    \/ \E t \in tasks : TaskRuns(t) \/ TaskDies(t)
    \/ \E t \in tasks, state \in {"OPEN", "CLOSED"} : EntryEnds(t, state)
    \/ \E t \in tasks, state \in {"OPEN", "CLOSED", "EXITING"} : ExitEnds(t, state)

DeskNext ==
    \/ CommandNext \/ MarketNext \/ SweepNext \/ TaskNext
    \/ \E c \in Caller : StopsCancelled(c) \/ StartExit(c) \/ BackToOpen(c)
    \/ \E opened \in SUBSET Symbol : DeskRestart(opened)

DeskSpec == DeskInit /\ [][DeskNext]_deskVars

-------------------------------------------------------------------------------
\* What must hold.

\* The automation stays within its budget whatever adds, restarts and /adopt do
\* in between: one position in a symbol, one automatic action in a symbol per
\* cooldown, no more than the cap in a day.
ExposureIsBounded ==
    /\ ~twice
    /\ \A s \in Symbol : starts[s] <= 1
    /\ dayStarts <= MaxPerDay

\* An armed position has not fired since it was armed: "however the exit then
\* goes, it can never re-fire on its own".
FiresOnce == \A s \in Symbol : shots[s] <= (IF pos[s].armed THEN 0 ELSE 1)

\* No task trades a position whose state says nobody does: the state goes back to
\* OPEN, and a removed position is CLOSED, only when the old task is gone.
OnlyWorkingStatesTrade ==
    \A t \in tasks : t.phase \in {"working", "dying"} =>
        pos[t.s].state = IF t.kind = "exit" THEN "EXITING" ELSE "ENTERING"

\* A passive exit the operator asked for is not escalated and not stood down by
\* the loop, short of a liquidation.
OperatorExitStands ==
    [][\A s \in Symbol :
        /\ pos[s].state = "EXITING" /\ pos[s].mode = "passive" /\ owner[s] = "operator"
        /\ at'["sw"] # at["sw"] /\ at["sw"].why # "liq" /\ restarts' = restarts
        => pos'[s].mode = "passive" /\ owner'[s] = "operator"]_deskVars
================================================================================
