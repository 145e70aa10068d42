------------------------------- MODULE DeskProofs -------------------------------
(***************************************************************************)
(* Proofs about who may act on a position, for any number of symbols, of   *)
(* commands, of automatic actions and of restarts: the one shot of an      *)
(* armed exit (FiresOnce), the budget of the automation                    *)
(* (ExposureIsBounded), that a task trades only a position whose state says*)
(* so (OnlyWorkingStatesTrade), and that the loop keeps off an exit the    *)
(* operator asked for (OperatorExitStands).                                *)
(***************************************************************************)
EXTENDS Desk, FiniteSetTheorems, TLAPS

PositionType ==
    [state : {"CLOSED", "OPEN", "ENTERING", "EXITING"}, mode : {"none", "now", "passive"},
     exitAuto : BOOLEAN, armed : BOOLEAN, byAuto : BOOLEAN,
     kind : {"carry", "convergence", "spike"}]
TaskType ==
    [s : Symbol, kind : {"entry", "add", "exit"}, phase : {"spawned", "working", "dying"},
     reg : BOOLEAN]
RowType ==
    [state : {"CLOSED", "OPEN", "ENTERING", "EXITING"}, mode : {"none", "now", "passive"},
     exitAuto : BOOLEAN]
CallType ==
    [pc : {"idle", "stops", "wait", "orders", "adopt", "liquidation", "decide", "opportunity", "end"},
     s : Symbol \cup {AtRest.s}, goal : {"none", "exit", "open", "closed"},
     why : {"none", "operator", "loop", "auto", "escalate", "recovered", "standdown", "liq"},
     row : RowType]

RowsTyped ==
    /\ pos \in [Symbol -> PositionType]
    /\ owner \in [Symbol -> {"none", "operator", "loop", "auto"}]
    /\ shots \in [Symbol -> Nat]
TasksTyped == tasks \subseteq TaskType
CallsTyped ==
    /\ at \in [Caller -> CallType]
    /\ \A c \in Caller : at[c].pc # "idle" => at[c].s \in Symbol
BudgetTyped ==
    /\ starts \in [Symbol -> Nat] /\ dayStarts \in Int /\ today \in Nat /\ twice \in BOOLEAN
    /\ recent \subseteq Symbol /\ IsFiniteSet(recent) /\ autoPassive \subseteq Symbol

DeskTypeOK == RowsTyped /\ TasksTyped /\ CallsTyped /\ BudgetTyped

-------------------------------------------------------------------------------
\* The records the actions build.

LEMMA AtRestType ==
    /\ AtRest \in CallType /\ AtRest.pc = "idle" /\ AtRest.goal = "none" /\ AtRest.why = "none"
    /\ NoRow \in RowType /\ NoPosition \in PositionType
<1>1. NoRow \in RowType
  BY DEF NoRow, RowType
<1>2. NoPosition \in PositionType
  BY DEF NoPosition, PositionType
<1>3. AtRest.s \in Symbol \cup {AtRest.s}
  OBVIOUS
<1>4. AtRest = [pc |-> "idle", s |-> AtRest.s, goal |-> "none", why |-> "none", row |-> NoRow]
  BY DEF AtRest
<1> QED
  BY <1>1, <1>2, <1>3, <1>4 DEF CallType

\* The row the sweep reads.
LEMMA RowRead ==
    ASSUME DeskTypeOK, NEW s \in Symbol, NEW r, r = [x \in DOMAIN NoRow |-> pos[s][x]]
    PROVE  /\ r \in RowType
           /\ r.state = pos[s].state /\ r.mode = pos[s].mode /\ r.exitAuto = pos[s].exitAuto
<1>1. DOMAIN NoRow = {"state", "mode", "exitAuto"}
  BY DEF NoRow
<1>2. pos[s] \in PositionType
  BY DEF DeskTypeOK, RowsTyped, TasksTyped, CallsTyped
<1>3. r = [state |-> pos[s].state, mode |-> pos[s].mode, exitAuto |-> pos[s].exitAuto]
  BY <1>1
<1> QED
  BY <1>2, <1>3 DEF PositionType, RowType

\* Where a caller is after a step that frames it.
LEMMA FrameType ==
    ASSUME DeskTypeOK, NEW c \in Caller, NEW s \in Symbol, NEW pc, NEW goal, NEW why,
           pc \in {"idle", "stops", "wait", "orders", "adopt", "liquidation", "decide",
                   "opportunity", "end"},
           goal \in {"none", "exit", "open", "closed"},
           why \in {"none", "operator", "loop", "auto", "escalate", "recovered", "standdown", "liq"},
           Frame(c, s, pc, goal, why)
    PROVE  /\ at' \in [Caller -> CallType]
           /\ \A d \in Caller : at'[d].pc # "idle" => at'[d].s \in Symbol
           /\ at'[c].pc = pc /\ at'[c].s = s /\ at'[c].goal = goal /\ at'[c].why = why
           /\ \A d \in Caller \ {c} : at'[d] = at[d]
           /\ at'[c].row = IF why = "liq" THEN at[c].row ELSE NoRow
<1> DEFINE f == [pc |-> pc, s |-> s, goal |-> goal, why |-> why,
                 row |-> IF why = "liq" THEN at[c].row ELSE NoRow]
<1>1. at' = [at EXCEPT ![c] = f]
  BY DEF Frame
<1>2. at[c].row \in RowType
  BY DEF DeskTypeOK, CallsTyped, CallType
<1>3. f \in CallType
  BY <1>2, AtRestType DEF CallType
<1>4. f.pc = pc /\ f.s = s /\ f.goal = goal /\ f.why = why
      /\ f.row = IF why = "liq" THEN at[c].row ELSE NoRow
  OBVIOUS
<1> HIDE DEF f
<1>5. at \in [Caller -> CallType] /\ \A d \in Caller : at[d].pc # "idle" => at[d].s \in Symbol
  BY DEF DeskTypeOK, RowsTyped, TasksTyped, CallsTyped
<1> QED
  BY <1>1, <1>3, <1>4, <1>5

LEMMA GoesType ==
    ASSUME DeskTypeOK, NEW c \in Caller, NEW pc, at[c].pc # "idle",
           pc \in {"idle", "stops", "wait", "orders", "adopt", "liquidation", "decide",
                   "opportunity", "end"},
           Goes(c, pc)
    PROVE  /\ at' \in [Caller -> CallType]
           /\ \A d \in Caller : at'[d].pc # "idle" => at'[d].s \in Symbol
           /\ at'[c].pc = pc /\ at'[c].s = at[c].s /\ at'[c].goal = at[c].goal
           /\ at'[c].why = at[c].why /\ at'[c].row = at[c].row
           /\ \A d \in Caller \ {c} : at'[d] = at[d]
<1> DEFINE f == [at[c] EXCEPT !.pc = pc]
<1>1. at' = [at EXCEPT ![c] = f]
  BY DEF Goes
<1>2. at[c] \in CallType
  BY DEF DeskTypeOK, RowsTyped, TasksTyped, CallsTyped
<1>3. f \in CallType /\ f.pc = pc /\ f.s = at[c].s /\ f.goal = at[c].goal /\ f.why = at[c].why
      /\ f.row = at[c].row
  BY <1>2 DEF CallType
<1> HIDE DEF f
<1>4. at \in [Caller -> CallType] /\ \A d \in Caller : at[d].pc # "idle" => at[d].s \in Symbol
  BY DEF DeskTypeOK, RowsTyped, TasksTyped, CallsTyped
<1> QED
  BY <1>1, <1>3, <1>4

\* A caller that rests again.
LEMMA RestType ==
    ASSUME DeskTypeOK, NEW c \in Caller, at' = [at EXCEPT ![c] = AtRest]
    PROVE  /\ at' \in [Caller -> CallType]
           /\ \A d \in Caller : at'[d].pc # "idle" => at'[d].s \in Symbol
           /\ at'[c] = AtRest
           /\ \A d \in Caller \ {c} : at'[d] = at[d]
  BY AtRestType DEF DeskTypeOK, CallsTyped

LEMMA CancelledTasks ==
    ASSUME DeskTypeOK, NEW s \in Symbol
    PROVE  /\ Cancelled(s) \subseteq TaskType
           /\ \A t \in Cancelled(s) :
                 \/ t \in tasks /\ (t.s # s \/ ~t.reg)
                 \/ /\ t.s = s /\ t.reg /\ t.phase = "dying"
                    /\ \E u \in tasks : /\ u.s = s /\ u.reg /\ u.phase # "spawned"
                                        /\ u.kind = t.kind /\ t = [u EXCEPT !.phase = "dying"]
<1>1. SUFFICES ASSUME NEW t \in Cancelled(s)
               PROVE  /\ t \in TaskType
                      /\ \/ t \in tasks /\ (t.s # s \/ ~t.reg)
                         \/ /\ t.s = s /\ t.reg /\ t.phase = "dying"
                            /\ \E u \in tasks : /\ u.s = s /\ u.reg /\ u.phase # "spawned"
                                                /\ u.kind = t.kind /\ t = [u EXCEPT !.phase = "dying"]
  OBVIOUS
<1>2. PICK u \in tasks : /\ u.s # s \/ ~u.reg \/ u.phase # "spawned"
                         /\ t = IF u.s = s /\ u.reg THEN [u EXCEPT !.phase = "dying"] ELSE u
  BY DEF Cancelled
<1>3. u \in TaskType
  BY DEF DeskTypeOK, RowsTyped, TasksTyped, CallsTyped
<1>4. CASE u.s = s /\ u.reg
  <2>1. t = [u EXCEPT !.phase = "dying"] /\ u.phase # "spawned"
    BY <1>2, <1>4
  <2>2. /\ t \in TaskType /\ t.phase = "dying" /\ t.s = u.s /\ t.kind = u.kind
        /\ t.reg = u.reg
    BY <1>3, <2>1 DEF TaskType
  <2> QED
    BY <1>4, <2>1, <2>2
<1>5. CASE ~(u.s = s /\ u.reg)
  BY <1>2, <1>3, <1>5
<1> QED
  BY <1>4, <1>5

LEMMA SpawnedTasks ==
    ASSUME DeskTypeOK, NEW s \in Symbol, NEW kind \in {"entry", "add", "exit"}
    PROVE  LET n == [s |-> s, kind |-> kind, phase |-> "spawned", reg |-> TRUE] IN
           /\ Spawned(s, kind) \subseteq TaskType
           /\ (\A t \in tasks : t.s # s) => Spawned(s, kind) = tasks \cup {n}
<1> DEFINE n == [s |-> s, kind |-> kind, phase |-> "spawned", reg |-> TRUE]
           old == {IF t.s = s THEN [t EXCEPT !.reg = FALSE] ELSE t : t \in tasks}
<1>1. n \in TaskType
  BY DEF TaskType
<1>2. old \subseteq TaskType
  <2>1. SUFFICES ASSUME NEW t \in tasks
                 PROVE  (IF t.s = s THEN [t EXCEPT !.reg = FALSE] ELSE t) \in TaskType
    OBVIOUS
  <2>2. t \in TaskType
    BY DEF DeskTypeOK, RowsTyped, TasksTyped, CallsTyped
  <2> QED
    BY <2>2 DEF TaskType
<1>3. (\A t \in tasks : t.s # s) => old = tasks
  OBVIOUS
<1>4. Spawned(s, kind) = old \cup {n}
  BY DEF Spawned
<1> HIDE DEF n, old
<1>5. /\ Spawned(s, kind) \subseteq TaskType
      /\ (\A t \in tasks : t.s # s) => Spawned(s, kind) = tasks \cup {n}
  BY <1>1, <1>2, <1>3, <1>4
<1> QED
  BY <1>5 DEF n

\* A new row, whoever makes it.
LEMMA CreatedType ==
    ASSUME DeskTypeOK, NEW s \in Symbol, NEW kind \in Kinds \cup {"carry"}, NEW byAuto \in BOOLEAN,
           NEW state \in {"OPEN", "ENTERING"}, Created(s, kind, byAuto, state)
    PROVE  /\ pos' \in [Symbol -> PositionType]
           /\ owner' \in [Symbol -> {"none", "operator", "loop", "auto"}]
           /\ shots' \in [Symbol -> Nat] /\ twice' \in BOOLEAN /\ autoPassive' \subseteq Symbol
           /\ pos'[s].state = state /\ pos'[s].mode = "none" /\ ~pos'[s].armed /\ ~pos'[s].exitAuto
           /\ \A p \in Symbol \ {s} : pos'[p] = pos[p]
           /\ shots'[s] = 0 /\ owner'[s] = "none"
           /\ \A p \in Symbol \ {s} : shots'[p] = shots[p] /\ owner'[p] = owner[p]
           /\ twice' = (twice \/ Active(s)) /\ autoPassive' = autoPassive \ {s}
<1> DEFINE n == [NoPosition EXCEPT !.state = state, !.kind = kind, !.byAuto = byAuto]
<1>1. kind \in {"carry", "convergence", "spike"}
  BY DeskAssumption
<1>2. /\ n \in PositionType /\ n.state = state /\ n.mode = "none" /\ ~n.armed /\ ~n.exitAuto
  BY <1>1 DEF PositionType, NoPosition
<1>3. /\ pos' = [pos EXCEPT ![s] = n] /\ shots' = [shots EXCEPT ![s] = 0]
      /\ owner' = [owner EXCEPT ![s] = "none"] /\ twice' = (twice \/ Active(s))
      /\ autoPassive' = autoPassive \ {s}
  BY DEF Created, OwnedBy
<1> HIDE DEF n
<1>4. twice' \in BOOLEAN
  BY <1>3
<1> QED
  BY <1>2, <1>3, <1>4 DEF DeskTypeOK, RowsTyped, BudgetTyped
-------------------------------------------------------------------------------
\* Types.

LEMMA TypesInit == DeskInit => DeskTypeOK
<1> SUFFICES ASSUME DeskInit PROVE DeskTypeOK
  OBVIOUS
<1>1. RowsTyped
  BY AtRestType DEF DeskInit, RowsTyped
<1>2. TasksTyped
  BY DEF DeskInit, TasksTyped
<1>3. CallsTyped
  <2>1. at = [c \in Caller |-> AtRest]
    BY DEF DeskInit
  <2> QED
    BY <2>1, AtRestType DEF CallsTyped
<1>4. BudgetTyped
  <2>1. recent = {} /\ twice = FALSE /\ autoPassive = {} /\ dayStarts = 0 /\ today = 0
        /\ starts = [s \in Symbol |-> 0]
    BY DEF DeskInit
  <2>2. IsFiniteSet(recent)
    BY <2>1, FS_EmptySet
  <2>3. twice \in BOOLEAN
    BY <2>1
  <2> QED
    BY <2>1, <2>2, <2>3 DEF BudgetTyped
<1> QED
  BY <1>1, <1>2, <1>3, <1>4 DEF DeskTypeOK

\* A row whose fields change stays one.
LEMMA RowWrite ==
    ASSUME DeskTypeOK, NEW s \in Symbol, NEW r \in PositionType, pos' = [pos EXCEPT ![s] = r]
    PROVE  pos' \in [Symbol -> PositionType]
  BY DEF DeskTypeOK, RowsTyped

LEMMA TasksTypes ==
    ASSUME DeskTypeOK, NEW t \in tasks,
           \/ TaskRuns(t) \/ TaskDies(t)
           \/ \E state \in {"OPEN", "CLOSED"} : EntryEnds(t, state)
           \/ \E state \in {"OPEN", "CLOSED", "EXITING"} : ExitEnds(t, state)
    PROVE  DeskTypeOK'
<1>1. t \in TaskType /\ t.s \in Symbol /\ pos[t.s] \in PositionType
  BY DEF DeskTypeOK, TasksTyped, RowsTyped, TaskType
<1>2. UNCHANGED <<at, starts, dayStarts, today, twice, recent, autoPassive, shots>>
  BY DEF TaskRuns, TaskDies, EntryEnds, ExitEnds, deskRow, deskMemory, deskGhosts
<1>3. BudgetTyped' /\ CallsTyped'
  BY <1>2 DEF DeskTypeOK, BudgetTyped, CallsTyped
<1>4. TasksTyped'
  <2>1. [t EXCEPT !.phase = "working"] \in TaskType
    BY <1>1 DEF TaskType
  <2> QED
    BY <2>1 DEF TaskRuns, TaskDies, EntryEnds, ExitEnds, DeskTypeOK, TasksTyped
<1>5. pos' \in [Symbol -> PositionType]
  <2>1. CASE TaskDies(t)
    BY <2>1 DEF TaskDies, deskRow, DeskTypeOK, RowsTyped
  <2>2. CASE TaskRuns(t) \/ \E state \in {"OPEN", "CLOSED"} : EntryEnds(t, state)
    <3>1. PICK st \in {"CLOSED", "OPEN", "ENTERING", "EXITING"} : pos' = [pos EXCEPT ![t.s].state = st]
      BY <2>2 DEF TaskRuns, EntryEnds
    <3>2. [pos[t.s] EXCEPT !.state = st] \in PositionType
      BY <1>1 DEF PositionType
    <3> QED
      BY <1>1, <3>1, <3>2, RowWrite
  <2>3. ASSUME NEW state \in {"OPEN", "CLOSED", "EXITING"}, ExitEnds(t, state)
        PROVE  pos' \in [Symbol -> PositionType]
    <3> DEFINE r == [pos[t.s] EXCEPT !.state = state,
                                     !.mode = IF state = "OPEN" THEN "none" ELSE pos[t.s].mode]
    <3>1. r \in PositionType
      BY <1>1 DEF PositionType
    <3>2. pos' = [pos EXCEPT ![t.s] = r]
      BY <2>3 DEF ExitEnds
    <3> QED
      BY <1>1, <3>1, <3>2, RowWrite
  <2> QED
    BY <2>1, <2>2, <2>3
<1>6. owner' \in [Symbol -> {"none", "operator", "loop", "auto"}]
  <2>1. UNCHANGED owner \/ \E x \in {owner[t.s], "none"} : owner' = [owner EXCEPT ![t.s] = x]
    BY DEF TaskRuns, TaskDies, EntryEnds, ExitEnds, deskGhosts
  <2> QED
    BY <1>1, <2>1 DEF DeskTypeOK, RowsTyped
<1> QED
  BY <1>2, <1>3, <1>4, <1>5, <1>6 DEF DeskTypeOK, RowsTyped

\* Where the caller goes when what it was at returns.
LEMMA ReturnsType ==
    ASSUME DeskTypeOK, NEW c \in Caller, at[c].pc # "idle", NEW pc \in {"opportunity", "end", "decide"},
           Returns(c, pc)
    PROVE  /\ CallsTyped'
           /\ at'[c].pc \in {"idle", pc}
           /\ at'[c].why \in {"none", at[c].why}
           /\ at'[c].pc = "decide" => /\ c = "sw" /\ at'[c].s = at[c].s /\ at'[c].row = at[c].row
           /\ \A d \in Caller \ {c} : at'[d] = at[d]
<1>1. at[c].s \in Symbol
  BY DEF DeskTypeOK, CallsTyped
<1>2. CASE c = "op"
  <2>1. at' = [at EXCEPT !["op"] = AtRest]
    BY <1>2 DEF Returns
  <2> QED
    BY <1>2, <2>1, RestType, AtRestType DEF CallsTyped
<1>3. CASE c # "op" /\ pc = "decide"
  <2>1. Goes(c, pc) /\ c = "sw"
    BY <1>3 DEF Returns, Caller
  <2> QED
    BY <1>3, <2>1, GoesType DEF CallsTyped
<1>4. CASE c # "op" /\ pc # "decide"
  <2>1. Frame("sw", at["sw"].s, pc, "none", "none") /\ c = "sw"
    BY <1>4 DEF Returns, Leaves, Caller
  <2> QED
    BY <1>1, <1>4, <2>1, FrameType DEF CallsTyped
<1> QED
  BY <1>2, <1>3, <1>4

LEMMA HaltsType ==
    ASSUME DeskTypeOK, NEW c \in Caller, NEW s \in Symbol, NEW goal \in {"open", "closed"},
           NEW why \in {"operator", "recovered", "standdown", "liq"}, Halts(c, s, goal, why)
    PROVE  /\ TasksTyped' /\ CallsTyped' /\ tasks' = Cancelled(s)
           /\ at'[c].pc = "wait" /\ at'[c].s = s /\ at'[c].goal = goal /\ at'[c].why = why
           /\ \A d \in Caller \ {c} : at'[d] = at[d]
<1>1. Frame(c, s, "wait", goal, why) /\ tasks' = Cancelled(s)
  BY DEF Halts
<1> QED
  BY <1>1, FrameType, CancelledTasks DEF TasksTyped, CallsTyped

LEMMA SharedTypes ==
    ASSUME DeskTypeOK, NEW c \in Caller, StopsCancelled(c) \/ StartExit(c) \/ BackToOpen(c)
    PROVE  DeskTypeOK'
<1> DEFINE s == at[c].s
<1>1. at[c].pc # "idle" /\ s \in Symbol /\ pos[s] \in PositionType
  BY DEF StopsCancelled, StartExit, BackToOpen, TaskGone, DeskTypeOK, CallsTyped, RowsTyped
<1>2. UNCHANGED <<starts, dayStarts, today, twice, recent, autoPassive>>
  BY DEF StopsCancelled, StartExit, BackToOpen, deskRow, deskMemory, deskGhosts
<1>3. BudgetTyped'
  BY <1>2 DEF DeskTypeOK, BudgetTyped
<1>4. CASE StopsCancelled(c)
  <2>1. UNCHANGED <<pos, owner, shots>> /\ tasks' = Cancelled(s) /\ Goes(c, "wait")
    BY <1>4 DEF StopsCancelled, deskRow, deskGhosts
  <2>2. CallsTyped' /\ TasksTyped'
    BY <1>1, <2>1, GoesType, CancelledTasks DEF CallsTyped, TasksTyped
  <2> QED
    BY <1>3, <2>1, <2>2 DEF DeskTypeOK, RowsTyped
<1>5. CASE StartExit(c)
  <2>1. UNCHANGED <<owner, shots>> /\ tasks' = Spawned(s, "exit")
        /\ Returns(c, IF at[c].why = "loop" THEN "opportunity" ELSE "end")
    BY <1>5 DEF StartExit, deskGhosts
  <2>2. CallsTyped' /\ TasksTyped'
    BY <1>1, <2>1, ReturnsType, SpawnedTasks DEF TasksTyped
  <2>3. pos' \in [Symbol -> PositionType]
    <3> DEFINE r == [pos[s] EXCEPT !.exitAuto = pos[s].exitAuto \/ at[c].why = "auto"]
    <3>1. r \in PositionType
      BY <1>1 DEF PositionType
    <3>2. pos' = [pos EXCEPT ![s] = r]
      BY <1>5 DEF StartExit
    <3> QED
      BY <1>1, <3>1, <3>2, RowWrite
  <2> QED
    BY <1>3, <2>1, <2>2, <2>3 DEF DeskTypeOK, RowsTyped
<1>6. CASE BackToOpen(c)
  <2>1. tasks' = tasks /\ Returns(c, IF at[c].why = "liq" THEN "decide" ELSE "end")
    BY <1>6 DEF BackToOpen
  <2>2. CallsTyped' /\ TasksTyped'
    BY <1>1, <2>1, ReturnsType DEF TasksTyped, DeskTypeOK
  <2>3. pos' \in [Symbol -> PositionType]
    <3> DEFINE r == [pos[s] EXCEPT !.mode = "none", !.exitAuto = FALSE, !.state = "OPEN",
                                   !.armed = pos[s].armed \/ Rearms(c)]
    <3>1. r \in PositionType
      BY <1>1 DEF PositionType, Rearms
    <3>2. pos' = [pos EXCEPT ![s] = r]
      BY <1>6 DEF BackToOpen
    <3> QED
      BY <1>1, <3>1, <3>2, RowWrite
  <2>4. owner' \in [Symbol -> {"none", "operator", "loop", "auto"}] /\ shots' \in [Symbol -> Nat]
    BY <1>1, <1>6 DEF BackToOpen, OwnedBy, DeskTypeOK, RowsTyped
  <2> QED
    BY <1>3, <2>2, <2>3, <2>4 DEF DeskTypeOK, RowsTyped
<1> QED
  BY <1>4, <1>5, <1>6

LEMMA CommandTypes ==
    ASSUME DeskTypeOK, NEW s \in Symbol,
           \/ \E mode \in ExitModes, flatten \in BOOLEAN : ExitCommand(s, mode, flatten)
           \/ ExitCancel(s) \/ RemoveCommand(s) \/ AdoptCommand(s)
           \/ \E on \in BOOLEAN : AutoCommand(s, on)
           \/ \E kind \in Kinds : EnterCommand(s, kind)
    PROVE  DeskTypeOK'
<1>1. pos[s] \in PositionType /\ "op" \in Caller
  BY DEF DeskTypeOK, RowsTyped, Caller
<1>2. CASE \E mode \in ExitModes, flatten \in BOOLEAN : ExitCommand(s, mode, flatten)
  <2>1. PICK mode \in ExitModes, flatten \in BOOLEAN : ExitCommand(s, mode, flatten)
    BY <1>2
  <2> DEFINE r == [pos[s] EXCEPT !.mode = mode, !.exitAuto = pos[s].exitAuto /\ flatten]
  <2>2. /\ UNCHANGED <<pending, recent, today, tasks, autoPassive, shots, starts, dayStarts, twice>>
        /\ Frame("op", s, "stops", "exit", "operator")
        /\ owner' = [owner EXCEPT ![s] = "operator"]
    BY <2>1 DEF ExitCommand, OwnedBy, deskMemory
  <2>3. pos' = [pos EXCEPT ![s] = r]
    BY <1>1, <2>1 DEF ExitCommand, TakenOver, Requested, DeskTypeOK, RowsTyped
  <2>4. r \in PositionType
    BY <1>1, DeskAssumption DEF PositionType
  <2>5. CallsTyped'
    BY <1>1, <2>2, FrameType DEF CallsTyped
  <2>6. RowsTyped'
    BY <2>2, <2>3, <2>4, RowWrite DEF DeskTypeOK, RowsTyped
  <2> QED
    BY <2>2, <2>5, <2>6 DEF DeskTypeOK, TasksTyped, BudgetTyped
<1>3. CASE ExitCancel(s) \/ RemoveCommand(s)
  <2>1. PICK goal \in {"open", "closed"} : Halts("op", s, goal, "operator")
    BY <1>3 DEF ExitCancel, RemoveCommand
  <2>2. UNCHANGED <<deskRow, deskMemory, deskGhosts>>
    BY <1>3 DEF ExitCancel, RemoveCommand
  <2> QED
    BY <1>1, <2>1, <2>2, HaltsType DEF deskRow, deskMemory, deskGhosts, DeskTypeOK, RowsTyped, BudgetTyped
<1>4. CASE AdoptCommand(s)
  <2>1. UNCHANGED <<deskRow, tasks, deskMemory, deskGhosts>>
        /\ Frame("op", s, "adopt", "none", "operator")
    BY <1>4 DEF AdoptCommand
  <2>2. CallsTyped'
    BY <1>1, <2>1, FrameType DEF CallsTyped
  <2> QED
    BY <2>1, <2>2 DEF deskRow, deskMemory, deskGhosts, DeskTypeOK, RowsTyped, TasksTyped, BudgetTyped
<1>5. CASE \E on \in BOOLEAN : AutoCommand(s, on)
  <2>1. PICK on \in BOOLEAN : AutoCommand(s, on)
    BY <1>5
  <2>2. /\ UNCHANGED <<pending, recent, today, tasks, autoPassive, at, owner, starts, dayStarts, twice>>
        /\ pos' = [pos EXCEPT ![s].armed = on]
        /\ shots' = [shots EXCEPT ![s] = IF on THEN 0 ELSE shots[s]]
    BY <2>1 DEF AutoCommand, deskMemory
  <2>3. [pos[s] EXCEPT !.armed = on] \in PositionType
    BY <1>1 DEF PositionType
  <2>4. RowsTyped'
    BY <2>2, <2>3, RowWrite DEF DeskTypeOK, RowsTyped
  <2> QED
    BY <2>2, <2>4 DEF DeskTypeOK, TasksTyped, CallsTyped, BudgetTyped
<1>6. CASE \E kind \in Kinds : EnterCommand(s, kind)
  <2>1. PICK kind \in Kinds : EnterCommand(s, kind)
    BY <1>6
  <2>2. UNCHANGED <<recent, today, at, starts, dayStarts>>
    BY <2>1 DEF EnterCommand
  <2>3. TasksTyped'
    <3>1. \E k \in {"entry", "add", "exit"} : tasks' = Spawned(s, k)
      BY <2>1 DEF EnterCommand
    <3> QED
      BY <3>1, SpawnedTasks DEF TasksTyped
  <2>4. RowsTyped' /\ twice' \in BOOLEAN /\ autoPassive' \subseteq Symbol
    <3>1. CASE Created(s, kind, FALSE, "ENTERING")
      BY <3>1, CreatedType DEF RowsTyped
    <3>2. CASE UNCHANGED <<pos, twice, shots, owner, deskMemory, pending>>
      BY <3>2 DEF deskMemory, DeskTypeOK, RowsTyped, BudgetTyped
    <3> QED
      BY <2>1, <3>1, <3>2 DEF EnterCommand
  <2> QED
    BY <2>2, <2>3, <2>4 DEF DeskTypeOK, CallsTyped, BudgetTyped
<1> QED
  BY <1>2, <1>3, <1>4, <1>5, <1>6

LEMMA CommandGoesOnTypes ==
    ASSUME DeskTypeOK, RemoveForgets \/ RemoveCloses \/ AdoptCreates
    PROVE  DeskTypeOK'
<1> DEFINE s == at["op"].s
<1>1. at["op"].pc # "idle" /\ s \in Symbol /\ "op" \in Caller
  BY DEF RemoveForgets, RemoveCloses, AdoptCreates, TaskGone, DeskTypeOK, CallsTyped, Caller
<1>2. CASE RemoveForgets
  <2>1. UNCHANGED <<deskRow, tasks, deskGhosts>> /\ autoPassive' \subseteq autoPassive
        /\ Goes("op", "orders")
    BY <1>2 DEF RemoveForgets
  <2>2. CallsTyped'
    BY <1>1, <2>1, GoesType DEF CallsTyped
  <2> QED
    BY <2>1, <2>2 DEF deskRow, deskGhosts, DeskTypeOK, RowsTyped, TasksTyped, BudgetTyped
<1>3. CASE RemoveCloses
  <2>1. /\ UNCHANGED <<recent, today, tasks, autoPassive, shots, starts, dayStarts, twice>>
        /\ Returns("op", "end")
        /\ pos' = [pos EXCEPT ![s] = NoPosition] /\ owner' = [owner EXCEPT ![s] = "none"]
    BY <1>3 DEF RemoveCloses, OwnedBy, deskMemory
  <2>2. CallsTyped'
    BY <1>1, <2>1, ReturnsType
  <2>3. RowsTyped'
    BY <1>1, <2>1, AtRestType, RowWrite DEF DeskTypeOK, RowsTyped
  <2> QED
    BY <2>1, <2>2, <2>3 DEF DeskTypeOK, TasksTyped, BudgetTyped
<1>4. CASE AdoptCreates
  <2>1. /\ UNCHANGED <<recent, today, tasks, starts, dayStarts>>
        /\ Returns("op", "end") /\ Created(s, "carry", FALSE, "OPEN")
    BY <1>4 DEF AdoptCreates
  <2>2. CallsTyped'
    BY <1>1, <2>1, ReturnsType
  <2>3. RowsTyped' /\ twice' \in BOOLEAN /\ autoPassive' \subseteq Symbol
    BY <1>1, <2>1, CreatedType DEF RowsTyped
  <2> QED
    BY <2>1, <2>2, <2>3 DEF DeskTypeOK, TasksTyped, BudgetTyped
<1> QED
  BY <1>2, <1>3, <1>4

LEMMA MarketTypes ==
    ASSUME DeskTypeOK, MarketNext
    PROVE  DeskTypeOK'
<1>1. ASSUME NEW s \in Symbol, NEW kind \in Kinds, AutoEnter(s, kind) PROVE DeskTypeOK'
  <2>1. /\ Created(s, kind, TRUE, "ENTERING") /\ tasks' = Spawned(s, "entry") /\ UNCHANGED at
        /\ Recorded(s) /\ Counted(s)
    BY <1>1 DEF AutoEnter
  <2>2. RowsTyped' /\ twice' \in BOOLEAN /\ autoPassive' \subseteq Symbol
    BY <2>1, CreatedType DEF RowsTyped
  <2>3. TasksTyped' /\ CallsTyped'
    BY <2>1, SpawnedTasks DEF TasksTyped, CallsTyped, DeskTypeOK
  <2>4. IsFiniteSet(recent')
    BY <2>1, FS_AddElement DEF Recorded, DeskTypeOK, BudgetTyped
  <2> QED
    BY <2>1, <2>2, <2>3, <2>4 DEF Recorded, Counted, DeskTypeOK, BudgetTyped
<1>2. ASSUME NEW s \in Symbol, AutoAdd(s) PROVE DeskTypeOK'
  <2>1. /\ UNCHANGED <<pos, autoPassive, at, owner, shots, twice>> /\ tasks' = Spawned(s, "add")
        /\ Recorded(s) /\ Counted(s)
    BY <1>2 DEF AutoAdd, deskMemory
  <2>2. TasksTyped' /\ CallsTyped' /\ RowsTyped'
    BY <2>1, SpawnedTasks DEF TasksTyped, CallsTyped, RowsTyped, DeskTypeOK
  <2>3. IsFiniteSet(recent')
    BY <2>1, FS_AddElement DEF Recorded, DeskTypeOK, BudgetTyped
  <2> QED
    BY <2>1, <2>2, <2>3 DEF Recorded, Counted, DeskTypeOK, BudgetTyped
<1>3. ASSUME NEW s \in Symbol, CoolsDown(s) PROVE DeskTypeOK'
  <2>1. /\ UNCHANGED <<pos, today, tasks, autoPassive, at, owner, shots, dayStarts, twice>>
        /\ recent' = recent \ {s} /\ starts' = [starts EXCEPT ![s] = 0]
    BY <1>3 DEF CoolsDown, deskMemory
  <2>2. IsFiniteSet(recent')
    BY <2>1, FS_RemoveElement DEF DeskTypeOK, BudgetTyped
  <2> QED
    BY <2>1, <2>2 DEF DeskTypeOK, RowsTyped, TasksTyped, CallsTyped, BudgetTyped
<1>4. ASSUME DayPasses PROVE DeskTypeOK'
  <2>1. /\ UNCHANGED <<pos, recent, tasks, autoPassive, at, owner, shots, starts, twice>>
        /\ today > Cardinality(recent) /\ today' = today - 1 /\ dayStarts' = dayStarts - 1
    BY <1>4 DEF DayPasses, deskMemory
  <2>2. Cardinality(recent) \in Nat
    BY FS_CardinalityType DEF DeskTypeOK, BudgetTyped
  <2> QED
    BY <2>1, <2>2 DEF DeskTypeOK, RowsTyped, TasksTyped, CallsTyped, BudgetTyped
<1>5. ASSUME NEW s \in Symbol, ArmPending(s) PROVE DeskTypeOK'
  <2> DEFINE r == [pos[s] EXCEPT !.armed = pos[s].armed \/ Active(s)]
  <2>1. /\ UNCHANGED <<recent, today, tasks, autoPassive, at, owner, starts, dayStarts, twice>>
        /\ pos' = [pos EXCEPT ![s] = r] /\ shots' = [shots EXCEPT ![s] = 0]
    BY <1>5 DEF ArmPending, deskMemory
  <2>2. r \in PositionType
    BY DEF PositionType, DeskTypeOK, RowsTyped, Active
  <2>3. RowsTyped'
    BY <2>1, <2>2, RowWrite DEF DeskTypeOK, RowsTyped
  <2> QED
    BY <2>1, <2>3 DEF DeskTypeOK, TasksTyped, CallsTyped, BudgetTyped
<1> QED
  BY <1>1, <1>2, <1>3, <1>4, <1>5 DEF MarketNext

\* A close by the loop leaves the row typed.
LEMMA LoopClosesType ==
    ASSUME DeskTypeOK, NEW mode \in {"now", "passive"}, NEW why \in {"loop", "escalate"},
           at["sw"].s \in Symbol, LoopCloses(mode, why)
    PROVE  LET s == at["sw"].s IN
           /\ RowsTyped' /\ TasksTyped' /\ CallsTyped'
           /\ pos'[s].mode = mode /\ pos'[s].state = pos[s].state /\ owner'[s] = "loop"
           /\ pos'[s].armed = pos[s].armed /\ pos'[s].exitAuto = pos[s].exitAuto
           /\ \A p \in Symbol \ {s} : pos'[p] = pos[p] /\ owner'[p] = owner[p]
           /\ at'["sw"].pc = "stops" /\ at'["sw"].s = s /\ at'["sw"].goal = "exit"
           /\ at'["sw"].why = why /\ at'["op"] = at["op"]
           /\ UNCHANGED <<pending, recent, today, tasks, shots, starts, dayStarts, twice>>
<1> DEFINE s == at["sw"].s
           r == [pos[s] EXCEPT !.mode = mode]
<1>1. pos[s] \in PositionType /\ "sw" \in Caller /\ "op" \in Caller \ {"sw"}
  BY DEF DeskTypeOK, RowsTyped, Caller
<1>2. /\ UNCHANGED <<pending, recent, today, tasks, shots, starts, dayStarts, twice>>
      /\ Frame("sw", s, "stops", "exit", why)
      /\ owner' = [owner EXCEPT ![s] = "loop"] /\ pos' = [pos EXCEPT ![s] = r]
  BY DEF LoopCloses, OwnedBy, Requested
<1>3. /\ r \in PositionType /\ r.mode = mode /\ r.state = pos[s].state
      /\ r.armed = pos[s].armed /\ r.exitAuto = pos[s].exitAuto
  BY <1>1 DEF PositionType
<1> HIDE DEF r
<1>4. RowsTyped'
  BY <1>2, <1>3, RowWrite DEF DeskTypeOK, RowsTyped
<1>5. CallsTyped' /\ at'["sw"].pc = "stops" /\ at'["sw"].s = s /\ at'["sw"].goal = "exit"
      /\ at'["sw"].why = why /\ at'["op"] = at["op"]
  BY <1>1, <1>2, FrameType DEF CallsTyped
<1>6. TasksTyped'
  BY <1>2 DEF DeskTypeOK, TasksTyped
<1> QED
  BY <1>2, <1>3, <1>4, <1>5, <1>6 DEF DeskTypeOK, RowsTyped

LEMMA SweepTypes ==
    ASSUME DeskTypeOK, SweepNext
    PROVE  DeskTypeOK'
<1>1. "sw" \in Caller
  BY DEF Caller
<1>2. at["sw"].pc # "idle" => at["sw"].s \in Symbol
  BY <1>1 DEF DeskTypeOK, CallsTyped
<1>3. ASSUME NEW s \in Symbol, SweepTakes(s) PROVE DeskTypeOK'
  <2> DEFINE r == [x \in DOMAIN NoRow |-> pos[s][x]]
             f == [AtRest EXCEPT !.pc = "liquidation", !.s = s, !.row = r]
  <2>1. UNCHANGED <<deskRow, tasks, deskGhosts>> /\ autoPassive' \subseteq autoPassive
        /\ at' = [at EXCEPT !["sw"] = f]
    BY <1>3 DEF SweepTakes
  <2>2. r \in RowType
    BY RowRead
  <2> HIDE DEF r
  <2>3. f \in CallType /\ f.s = s
    BY <2>2, AtRestType DEF CallType
  <2> HIDE DEF f
  <2>4. CallsTyped'
    BY <1>1, <2>1, <2>3 DEF DeskTypeOK, CallsTyped
  <2> QED
    BY <2>1, <2>4 DEF deskRow, deskGhosts, DeskTypeOK, RowsTyped, TasksTyped, BudgetTyped
<1>4. ASSUME NEW near \in BOOLEAN, CheckLiquidation(near) PROVE DeskTypeOK'
  <2>1. UNCHANGED <<deskRow, deskGhosts>> /\ autoPassive' \subseteq autoPassive
        /\ at["sw"].pc = "liquidation"
    BY <1>4 DEF CheckLiquidation
  <2>2. \/ Halts("sw", at["sw"].s, "open", "liq")
        \/ Goes("sw", "decide") /\ UNCHANGED tasks
    BY <1>4 DEF CheckLiquidation
  <2>3. CallsTyped' /\ TasksTyped'
    BY <1>1, <1>2, <2>1, <2>2, HaltsType, GoesType DEF CallsTyped, TasksTyped, DeskTypeOK
  <2> QED
    BY <2>1, <2>3 DEF deskRow, deskGhosts, DeskTypeOK, RowsTyped, BudgetTyped
<1>5. ASSUME NEW mode \in {"now", "passive"}, NEW managed \in BOOLEAN, SafetyCloses(mode, managed)
      PROVE  DeskTypeOK'
  <2>1. LoopCloses(mode, "loop") /\ at["sw"].s \in Symbol /\ autoPassive' \subseteq Symbol
    BY <1>2, <1>5 DEF SafetyCloses, Deciding, DeskTypeOK, BudgetTyped
  <2> QED
    BY <2>1, LoopClosesType DEF DeskTypeOK, BudgetTyped
<1>6. ASSUME Escalates PROVE DeskTypeOK'
  <2>1. LoopCloses("now", "escalate") /\ at["sw"].s \in Symbol /\ autoPassive' \subseteq Symbol
    BY <1>2, <1>6 DEF Escalates, Deciding, DeskTypeOK, BudgetTyped
  <2> QED
    BY <2>1, LoopClosesType DEF DeskTypeOK, BudgetTyped
<1>7. ASSUME Recovers PROVE DeskTypeOK'
  <2>1. \E why \in {"recovered", "standdown"} : Halts("sw", at["sw"].s, "open", why)
    BY <1>7 DEF Recovers
  <2>2. UNCHANGED <<deskRow, deskGhosts>> /\ autoPassive' \subseteq autoPassive
        /\ at["sw"].s \in Symbol
    BY <1>2, <1>7 DEF Recovers, Deciding
  <2>3. TasksTyped' /\ CallsTyped'
    BY <1>1, <2>1, <2>2, HaltsType
  <2> QED
    BY <2>2, <2>3 DEF deskRow, deskGhosts, DeskTypeOK, RowsTyped, BudgetTyped
<1>8. ASSUME Releases PROVE DeskTypeOK'
  <2> DEFINE s == at["sw"].s
             r == [pos[s] EXCEPT !.exitAuto = pos[s].exitAuto /\ Managed]
  <2>1. /\ UNCHANGED <<recent, today, tasks, deskGhosts>> /\ autoPassive' \subseteq autoPassive
        /\ s \in Symbol /\ Frame("sw", s, "end", "none", "none") /\ pos' = [pos EXCEPT ![s] = r]
    BY <1>2, <1>8 DEF Releases, Deciding, Leaves
  <2>0. pos[s] \in PositionType
    BY <2>1 DEF DeskTypeOK, RowsTyped
  <2> DEFINE b == pos[s].exitAuto /\ Managed
  <2>b. b \in BOOLEAN
    OBVIOUS
  <2>2. r \in PositionType
    <3> HIDE DEF b
    <3> QED
      BY <2>0, <2>b DEF PositionType
  <2>3. CallsTyped'
    BY <1>1, <2>1, FrameType DEF CallsTyped
  <2>4. RowsTyped'
    BY <2>1, <2>2, RowWrite DEF deskGhosts, DeskTypeOK, RowsTyped
  <2> QED
    BY <2>1, <2>3, <2>4 DEF deskGhosts, DeskTypeOK, TasksTyped, BudgetTyped
<1>9. ASSUME NothingToDo PROVE DeskTypeOK'
  <2>1. /\ UNCHANGED <<deskRow, tasks, deskMemory, deskGhosts>> /\ at["sw"].s \in Symbol
        /\ \E pc \in {"opportunity", "end"} : Frame("sw", at["sw"].s, pc, "none", "none")
    BY <1>2, <1>9 DEF NothingToDo, Leaves
  <2>2. CallsTyped'
    BY <1>1, <2>1, FrameType DEF CallsTyped
  <2> QED
    BY <2>1, <2>2 DEF deskRow, deskMemory, deskGhosts, DeskTypeOK, RowsTyped, TasksTyped, BudgetTyped
<1>10. ASSUME AutoExit PROVE DeskTypeOK'
  <2> DEFINE s == at["sw"].s
             r == [pos[s] EXCEPT !.mode = "passive", !.exitAuto = FALSE, !.armed = FALSE]
  <2>1. s \in Symbol
    BY <1>2, <1>10 DEF AutoExit
  <2>2. pos[s] \in PositionType
    BY <2>1 DEF DeskTypeOK, RowsTyped
  <2>3. r \in PositionType
    BY <2>2 DEF PositionType
  <2>4. pos' = [pos EXCEPT ![s] = r]
    BY <1>10, <2>1 DEF AutoExit, Disarmed, Requested, DeskTypeOK, RowsTyped
  <2>5. /\ UNCHANGED <<recent, today, tasks, autoPassive, starts, dayStarts, twice>>
        /\ Frame("sw", s, "stops", "exit", "auto")
        /\ owner' = [owner EXCEPT ![s] = "auto"] /\ shots' = [shots EXCEPT ![s] = shots[s] + 1]
    BY <1>10, <2>1 DEF AutoExit, OwnedBy, deskMemory
  <2>6. CallsTyped'
    BY <1>1, <2>1, <2>5, FrameType DEF CallsTyped
  <2>7. RowsTyped'
    BY <2>1, <2>3, <2>4, <2>5, RowWrite DEF DeskTypeOK, RowsTyped
  <2> QED
    BY <2>5, <2>6, <2>7 DEF DeskTypeOK, TasksTyped, BudgetTyped
<1>11. ASSUME SweepLeaves PROVE DeskTypeOK'
  <2>1. UNCHANGED <<deskRow, tasks, deskMemory, deskGhosts>> /\ at' = [at EXCEPT !["sw"] = AtRest]
    BY <1>11 DEF SweepLeaves
  <2>2. CallsTyped'
    BY <1>1, <2>1, RestType DEF CallsTyped
  <2> QED
    BY <2>1, <2>2 DEF deskRow, deskMemory, deskGhosts, DeskTypeOK, RowsTyped, TasksTyped, BudgetTyped
<1> QED
  BY <1>3, <1>4, <1>5, <1>6, <1>7, <1>8, <1>9, <1>10, <1>11 DEF SweepNext

\* A restart makes every caller idle, forgets what was in memory and resumes exits.
LEMMA RestartEffect ==
    ASSUME DeskTypeOK, NEW opened \in SUBSET Symbol, DeskRestart(opened)
    PROVE  /\ DeskTypeOK'
           /\ \A c \in Caller : at'[c] = AtRest
           /\ \A s \in Symbol : /\ pos'[s] = [pos[s] EXCEPT !.state = pos'[s].state]
                                /\ pos[s].state = "ENTERING" \/ pos'[s].state = pos[s].state
                                /\ pos'[s].state # "ENTERING"
           /\ \A t \in tasks' : t.reg /\ t.kind = "exit" /\ t.phase = "spawned"
                                /\ pos'[t.s].state = "EXITING"
           /\ \A t, u \in tasks' : t.s = u.s => t = u
<1>1. /\ at' = [c \in Caller |-> AtRest] /\ autoPassive' = {}
      /\ UNCHANGED <<recent, today, owner, shots, starts, dayStarts, twice>>
      /\ tasks' = {[s |-> s, kind |-> "exit", phase |-> "spawned", reg |-> TRUE] :
                       s \in {p \in Symbol : pos[p].state = "EXITING"}}
  BY DEF DeskRestart, deskGhosts
<1>2. CallsTyped' /\ \A c \in Caller : at'[c] = AtRest
  BY <1>1, AtRestType DEF CallsTyped
<1>3. ASSUME NEW s \in Symbol
      PROVE  /\ pos'[s] \in PositionType
             /\ pos'[s] = [pos[s] EXCEPT !.state = pos'[s].state]
             /\ pos[s].state = "ENTERING" \/ pos'[s].state = pos[s].state
             /\ pos'[s].state # "ENTERING"
  <2>1. pos[s] \in PositionType
    BY DEF DeskTypeOK, RowsTyped
  <2>2. CASE pos[s].state = "ENTERING"
    <3>1. \E st \in {"OPEN", "CLOSED"} : pos'[s] = [pos[s] EXCEPT !.state = st]
      BY <2>2 DEF DeskRestart
    <3> QED
      BY <2>1, <2>2, <3>1 DEF PositionType
  <2>3. CASE pos[s].state # "ENTERING"
    <3>1. pos'[s] = pos[s]
      BY <2>3 DEF DeskRestart
    <3> QED
      BY <2>1, <2>3, <3>1 DEF PositionType
  <2> QED
    BY <2>2, <2>3
<1>4. RowsTyped'
  <2>1. \E F : pos' = [s \in Symbol |-> F[s]]
    <3>1. pos' = [s \in Symbol |-> pos'[s]]
      BY DEF DeskRestart
    <3> QED
      BY <3>1
  <2> QED
    BY <1>1, <1>3, <2>1 DEF DeskTypeOK, RowsTyped
<1>5. ASSUME NEW t \in tasks'
      PROVE  /\ t \in TaskType /\ t.reg /\ t.kind = "exit" /\ t.phase = "spawned"
             /\ pos'[t.s].state = "EXITING"
  <2>1. PICK s \in Symbol : /\ pos[s].state = "EXITING"
                            /\ t = [s |-> s, kind |-> "exit", phase |-> "spawned", reg |-> TRUE]
    BY <1>1
  <2> QED
    BY <1>3, <2>1 DEF TaskType
<1>6. ASSUME NEW t \in tasks', NEW u \in tasks', t.s = u.s PROVE t = u
  <2>1. PICK p \in Symbol : t = [s |-> p, kind |-> "exit", phase |-> "spawned", reg |-> TRUE]
    BY <1>1
  <2>2. PICK q \in Symbol : u = [s |-> q, kind |-> "exit", phase |-> "spawned", reg |-> TRUE]
    BY <1>1
  <2> QED
    BY <1>6, <2>1, <2>2
<1>7. TasksTyped' /\ BudgetTyped'
  BY <1>1, <1>5 DEF DeskTypeOK, TasksTyped, BudgetTyped
<1> QED
  BY <1>2, <1>3, <1>4, <1>5, <1>6, <1>7 DEF DeskTypeOK

LEMMA TypesNext ==
    ASSUME DeskTypeOK, [DeskNext]_deskVars
    PROVE  DeskTypeOK'
<1>1. CASE CommandNext
  BY <1>1, CommandTypes, CommandGoesOnTypes DEF CommandNext
<1>2. CASE TaskNext
  BY <1>2, TasksTypes DEF TaskNext
<1>3. CASE UNCHANGED deskVars
  BY <1>3 DEF deskVars, deskRow, deskMemory, deskGhosts, DeskTypeOK, RowsTyped, TasksTyped,
              CallsTyped, BudgetTyped
<1> QED
  BY <1>1, <1>2, <1>3, MarketTypes, SweepTypes, SharedTypes, RestartEffect DEF DeskNext

\* The rows, the tasks and the callers keep their types.
THEOREM DeskTypes == DeskSpec => []DeskTypeOK
  BY TypesInit, TypesNext, PTL DEF DeskSpec

-------------------------------------------------------------------------------
\* What each action does to a row.

RowIs(s, state, mode, exitAuto, armed) ==
    /\ pos'[s].state = state /\ pos'[s].mode = mode
    /\ pos'[s].exitAuto = exitAuto /\ pos'[s].armed = armed
    /\ \A p \in Symbol \ {s} : pos'[p] = pos[p]

LEMMA TaskEffect ==
    ASSUME DeskTypeOK, NEW t \in tasks
    PROVE  LET s == t.s IN
           /\ s \in Symbol /\ t \in TaskType
           /\ TaskRuns(t) =>
                 RowIs(s, IF t.kind = "exit" THEN "EXITING" ELSE "ENTERING", pos[s].mode,
                       pos[s].exitAuto, pos[s].armed)
           /\ \A state \in {"OPEN", "CLOSED"} : EntryEnds(t, state) =>
                 RowIs(s, state, pos[s].mode, pos[s].exitAuto, pos[s].armed)
           /\ \A state \in {"OPEN", "CLOSED", "EXITING"} : ExitEnds(t, state) =>
                 RowIs(s, state, IF state = "OPEN" THEN "none" ELSE pos[s].mode,
                       pos[s].exitAuto, pos[s].armed)
<1> DEFINE s == t.s
<1>1. s \in Symbol /\ t \in TaskType /\ pos \in [Symbol -> PositionType] /\ pos[s] \in PositionType
  BY DEF DeskTypeOK, TasksTyped, RowsTyped, TaskType
<1>2. TaskRuns(t) =>
         RowIs(s, IF t.kind = "exit" THEN "EXITING" ELSE "ENTERING", pos[s].mode,
               pos[s].exitAuto, pos[s].armed)
  BY <1>1 DEF TaskRuns, RowIs, PositionType
<1>3. \A state \in {"OPEN", "CLOSED"} : EntryEnds(t, state) =>
         RowIs(s, state, pos[s].mode, pos[s].exitAuto, pos[s].armed)
  BY <1>1 DEF EntryEnds, RowIs, PositionType
<1>4. ASSUME NEW state \in {"OPEN", "CLOSED", "EXITING"}, ExitEnds(t, state)
      PROVE  RowIs(s, state, IF state = "OPEN" THEN "none" ELSE pos[s].mode,
                   pos[s].exitAuto, pos[s].armed)
  <2> DEFINE r == [pos[s] EXCEPT !.state = state,
                                 !.mode = IF state = "OPEN" THEN "none" ELSE pos[s].mode]
  <2>1. pos' = [pos EXCEPT ![s] = r]
    BY <1>4 DEF ExitEnds
  <2>2. r.state = state /\ r.mode = (IF state = "OPEN" THEN "none" ELSE pos[s].mode)
        /\ r.exitAuto = pos[s].exitAuto /\ r.armed = pos[s].armed
    BY <1>1 DEF PositionType
  <2> HIDE DEF r
  <2> QED
    BY <1>1, <2>1, <2>2 DEF RowIs
<1> QED
  BY <1>1, <1>2, <1>3, <1>4

LEMMA SharedEffect ==
    ASSUME DeskTypeOK, NEW c \in Caller, at[c].pc # "idle"
    PROVE  LET s == at[c].s IN
           /\ s \in Symbol
           /\ StartExit(c) =>
                 RowIs(s, pos[s].state, pos[s].mode, pos[s].exitAuto \/ at[c].why = "auto",
                       pos[s].armed)
           /\ BackToOpen(c) =>
                 RowIs(s, "OPEN", "none", FALSE, pos[s].armed \/ Rearms(c))
<1> DEFINE s == at[c].s
<1>1. s \in Symbol /\ pos \in [Symbol -> PositionType] /\ pos[s] \in PositionType
  BY DEF DeskTypeOK, CallsTyped, RowsTyped
<1>2. ASSUME StartExit(c)
      PROVE  RowIs(s, pos[s].state, pos[s].mode, pos[s].exitAuto \/ at[c].why = "auto", pos[s].armed)
  <2> DEFINE r == [pos[s] EXCEPT !.exitAuto = pos[s].exitAuto \/ at[c].why = "auto"]
  <2>1. pos' = [pos EXCEPT ![s] = r]
    BY <1>2 DEF StartExit
  <2>2. /\ r.state = pos[s].state /\ r.mode = pos[s].mode /\ r.armed = pos[s].armed
        /\ r.exitAuto = (pos[s].exitAuto \/ at[c].why = "auto")
    BY <1>1 DEF PositionType
  <2> HIDE DEF r
  <2> QED
    BY <1>1, <2>1, <2>2 DEF RowIs
<1>3. ASSUME BackToOpen(c) PROVE RowIs(s, "OPEN", "none", FALSE, pos[s].armed \/ Rearms(c))
  <2> DEFINE r == [pos[s] EXCEPT !.mode = "none", !.exitAuto = FALSE, !.state = "OPEN",
                                 !.armed = pos[s].armed \/ Rearms(c)]
  <2>1. pos' = [pos EXCEPT ![s] = r]
    BY <1>3 DEF BackToOpen
  <2>2. /\ r.state = "OPEN" /\ r.mode = "none" /\ r.exitAuto = FALSE
        /\ r.armed = (pos[s].armed \/ Rearms(c))
    BY <1>1 DEF PositionType
  <2> HIDE DEF r
  <2> QED
    BY <1>1, <2>1, <2>2 DEF RowIs
<1> QED
  BY <1>1, <1>2, <1>3

LEMMA CommandEffect ==
    ASSUME DeskTypeOK, NEW s \in Symbol
    PROVE  /\ \A mode \in ExitModes, flatten \in BOOLEAN : ExitCommand(s, mode, flatten) =>
                 RowIs(s, pos[s].state, mode, pos[s].exitAuto /\ flatten, pos[s].armed)
           /\ \A on \in BOOLEAN : AutoCommand(s, on) =>
                 RowIs(s, pos[s].state, pos[s].mode, pos[s].exitAuto, on)
           /\ ArmPending(s) =>
                 RowIs(s, pos[s].state, pos[s].mode, pos[s].exitAuto, pos[s].armed \/ Active(s))
           /\ RemoveCloses /\ s = at["op"].s => RowIs(s, "CLOSED", "none", FALSE, FALSE)
<1>1. pos \in [Symbol -> PositionType] /\ pos[s] \in PositionType
  BY DEF DeskTypeOK, RowsTyped
<1>2. ASSUME NEW mode \in ExitModes, NEW flatten \in BOOLEAN, ExitCommand(s, mode, flatten)
      PROVE  RowIs(s, pos[s].state, mode, pos[s].exitAuto /\ flatten, pos[s].armed)
  <2> DEFINE r == [pos[s] EXCEPT !.mode = mode, !.exitAuto = pos[s].exitAuto /\ flatten]
  <2>1. pos' = [pos EXCEPT ![s] = r]
    BY <1>1, <1>2 DEF ExitCommand, TakenOver, Requested
  <2>2. /\ r.state = pos[s].state /\ r.mode = mode /\ r.armed = pos[s].armed
        /\ r.exitAuto = (pos[s].exitAuto /\ flatten)
    BY <1>1 DEF PositionType
  <2> HIDE DEF r
  <2> QED
    BY <1>1, <2>1, <2>2 DEF RowIs
<1>3. ASSUME NEW on \in BOOLEAN, AutoCommand(s, on)
      PROVE  RowIs(s, pos[s].state, pos[s].mode, pos[s].exitAuto, on)
  BY <1>1, <1>3 DEF AutoCommand, RowIs, PositionType
<1>4. ASSUME ArmPending(s)
      PROVE  RowIs(s, pos[s].state, pos[s].mode, pos[s].exitAuto, pos[s].armed \/ Active(s))
  <2> DEFINE r == [pos[s] EXCEPT !.armed = pos[s].armed \/ Active(s)]
  <2>1. pos' = [pos EXCEPT ![s] = r]
    BY <1>4 DEF ArmPending
  <2>2. /\ r.state = pos[s].state /\ r.mode = pos[s].mode /\ r.exitAuto = pos[s].exitAuto
        /\ r.armed = (pos[s].armed \/ Active(s))
    BY <1>1 DEF PositionType
  <2> HIDE DEF r
  <2> QED
    BY <1>1, <2>1, <2>2 DEF RowIs
<1>5. RemoveCloses /\ s = at["op"].s => RowIs(s, "CLOSED", "none", FALSE, FALSE)
  BY <1>1 DEF RemoveCloses, RowIs, NoPosition
<1> QED
  BY <1>2, <1>3, <1>4, <1>5

LEMMA SweepEffect ==
    ASSUME DeskTypeOK, NEW s \in Symbol, s = at["sw"].s
    PROVE  /\ Releases =>
                 RowIs(s, pos[s].state, pos[s].mode, pos[s].exitAuto /\ Managed, pos[s].armed)
           /\ AutoExit => RowIs(s, pos[s].state, "passive", FALSE, FALSE)
<1>1. pos \in [Symbol -> PositionType] /\ pos[s] \in PositionType
  BY DEF DeskTypeOK, RowsTyped
<1>2. ASSUME Releases
      PROVE  RowIs(s, pos[s].state, pos[s].mode, pos[s].exitAuto /\ Managed, pos[s].armed)
  <2> DEFINE r == [pos[s] EXCEPT !.exitAuto = pos[s].exitAuto /\ Managed]
  <2>1. pos' = [pos EXCEPT ![s] = r]
    BY <1>2 DEF Releases
  <2>2. /\ r.state = pos[s].state /\ r.mode = pos[s].mode /\ r.armed = pos[s].armed
        /\ r.exitAuto = (pos[s].exitAuto /\ Managed)
    BY <1>1 DEF PositionType
  <2> HIDE DEF r
  <2> QED
    BY <1>1, <2>1, <2>2 DEF RowIs
<1>3. ASSUME AutoExit PROVE RowIs(s, pos[s].state, "passive", FALSE, FALSE)
  <2> DEFINE r == [pos[s] EXCEPT !.mode = "passive", !.exitAuto = FALSE, !.armed = FALSE]
  <2>1. pos' = [pos EXCEPT ![s] = r]
    BY <1>1, <1>3 DEF AutoExit, Disarmed, Requested
  <2>2. r.state = pos[s].state /\ r.mode = "passive" /\ r.exitAuto = FALSE /\ r.armed = FALSE
    BY <1>1 DEF PositionType
  <2> HIDE DEF r
  <2> QED
    BY <1>1, <2>1, <2>2 DEF RowIs
<1> QED
  BY <1>2, <1>3

-------------------------------------------------------------------------------
\* The one shot of an armed position.

\* A step that leaves what is armed and the count of every position alone but one.
LEMMA FiresOnceBut ==
    ASSUME DeskTypeOK, FiresOnce, NEW s \in Symbol,
           \A p \in Symbol \ {s} : pos'[p].armed = pos[p].armed /\ shots'[p] = shots[p],
           shots'[s] <= (IF pos'[s].armed THEN 0 ELSE 1)
    PROVE  FiresOnce'
  BY DEF FiresOnce

LEMMA CreatedFires ==
    ASSUME DeskTypeOK, FiresOnce, NEW s \in Symbol, NEW kind \in Kinds \cup {"carry"},
           NEW byAuto \in BOOLEAN, NEW state \in {"OPEN", "ENTERING"},
           Created(s, kind, byAuto, state)
    PROVE  FiresOnce'
<1>1. shots'[s] = 0 /\ \A p \in Symbol \ {s} : pos'[p] = pos[p] /\ shots'[p] = shots[p]
  BY CreatedType
<1> QED
  BY <1>1, FiresOnceBut

LEMMA FiresOnceNext ==
    ASSUME DeskTypeOK, FiresOnce, [DeskNext]_deskVars
    PROVE  FiresOnce'
<1>1. ASSUME \A p \in Symbol : pos'[p].armed = pos[p].armed, UNCHANGED shots PROVE FiresOnce'
  BY <1>1 DEF FiresOnce
<1>2. ASSUME NEW s \in Symbol, RowIs(s, pos'[s].state, pos'[s].mode, pos'[s].exitAuto, pos[s].armed),
             UNCHANGED shots
      PROVE  FiresOnce'
  BY <1>2 DEF RowIs, FiresOnce
<1>3. CASE TaskNext
  <2>1. PICK t \in tasks :
           \/ TaskRuns(t) \/ TaskDies(t)
           \/ \E state \in {"OPEN", "CLOSED"} : EntryEnds(t, state)
           \/ \E state \in {"OPEN", "CLOSED", "EXITING"} : ExitEnds(t, state)
    BY <1>3 DEF TaskNext
  <2>2. UNCHANGED shots
    BY <2>1 DEF TaskRuns, TaskDies, EntryEnds, ExitEnds, deskGhosts
  <2>3. CASE TaskDies(t)
    BY <1>1, <2>2, <2>3 DEF TaskDies, deskRow
  <2> QED
    BY <1>2, <2>1, <2>2, <2>3, TaskEffect DEF RowIs
<1>4. ASSUME NEW c \in Caller, StopsCancelled(c) \/ StartExit(c) \/ BackToOpen(c) PROVE FiresOnce'
  <2>1. at[c].pc # "idle"
    BY <1>4 DEF StopsCancelled, StartExit, BackToOpen, TaskGone
  <2>2. CASE StopsCancelled(c)
    BY <1>1, <2>2 DEF StopsCancelled, deskRow, deskGhosts
  <2>3. CASE StartExit(c)
    BY <1>2, <2>1, <2>3, SharedEffect DEF RowIs, StartExit, deskGhosts
  <2>4. CASE BackToOpen(c)
    <3> DEFINE s == at[c].s
    <3>1. s \in Symbol /\ pos'[s].armed = (pos[s].armed \/ Rearms(c))
          /\ \A p \in Symbol \ {s} : pos'[p] = pos[p]
      BY <2>1, <2>4, SharedEffect DEF RowIs
    <3>2. shots' = [shots EXCEPT ![s] = IF Rearms(c) THEN 0 ELSE shots[s]]
      BY <2>4 DEF BackToOpen
    <3>3. shots'[s] <= (IF pos'[s].armed THEN 0 ELSE 1)
      <4>1. CASE Rearms(c)
        BY <3>1, <3>2, <4>1 DEF DeskTypeOK, RowsTyped
      <4>2. CASE ~Rearms(c)
        BY <3>1, <3>2, <4>2 DEF FiresOnce, DeskTypeOK, RowsTyped
      <4> QED
        BY <4>1, <4>2
    <3> QED
      BY <3>1, <3>2, <3>3, FiresOnceBut DEF DeskTypeOK, RowsTyped
  <2> QED
    BY <1>4, <2>2, <2>3, <2>4
<1>5. CASE CommandNext
  <2>1. ASSUME NEW s \in Symbol, NEW mode \in ExitModes, NEW flatten \in BOOLEAN,
               ExitCommand(s, mode, flatten)
        PROVE  FiresOnce'
    BY <1>2, <2>1, CommandEffect DEF RowIs, ExitCommand
  <2>2. ASSUME NEW s \in Symbol, ExitCancel(s) \/ RemoveCommand(s) \/ AdoptCommand(s)
        PROVE  FiresOnce'
    BY <1>1, <2>2 DEF ExitCancel, RemoveCommand, AdoptCommand, deskRow, deskGhosts
  <2>3. ASSUME NEW s \in Symbol, NEW on \in BOOLEAN, AutoCommand(s, on) PROVE FiresOnce'
    <3>1. shots' = [shots EXCEPT ![s] = IF on THEN 0 ELSE shots[s]]
      BY <2>3 DEF AutoCommand
    <3>2. pos'[s].armed = on /\ \A p \in Symbol \ {s} : pos'[p] = pos[p]
      BY <2>3, CommandEffect DEF RowIs
    <3>3. shots'[s] <= (IF pos'[s].armed THEN 0 ELSE 1)
      <4>1. on => shots'[s] = 0
        BY <3>1 DEF DeskTypeOK, RowsTyped
      <4>2. ~on => shots'[s] <= 1
        BY <3>1 DEF FiresOnce, DeskTypeOK, RowsTyped
      <4> QED
        BY <3>2, <4>1, <4>2
    <3> QED
      BY <3>1, <3>2, <3>3, FiresOnceBut DEF DeskTypeOK, RowsTyped
  <2>4. ASSUME NEW s \in Symbol, NEW kind \in Kinds, EnterCommand(s, kind) PROVE FiresOnce'
    <3>1. CASE Created(s, kind, FALSE, "ENTERING")
      BY <3>1, CreatedFires
    <3>2. CASE UNCHANGED <<pos, shots>>
      BY <1>1, <3>2
    <3> QED
      BY <2>4, <3>1, <3>2 DEF EnterCommand
  <2>5. CASE RemoveForgets
    BY <1>1, <2>5 DEF RemoveForgets, deskRow, deskGhosts
  <2>6. CASE RemoveCloses
    <3>1. at["op"].s \in Symbol /\ UNCHANGED shots
      BY <2>6 DEF RemoveCloses, DeskTypeOK, CallsTyped, Caller
    <3>2. /\ ~pos'[at["op"].s].armed
          /\ \A p \in Symbol \ {at["op"].s} : pos'[p] = pos[p]
      BY <2>6, <3>1, CommandEffect DEF RowIs
    <3>3. shots'[at["op"].s] <= 1
      BY <3>1 DEF FiresOnce, DeskTypeOK, RowsTyped
    <3> QED
      BY <3>1, <3>2, <3>3, FiresOnceBut
  <2>7. CASE AdoptCreates
    <3>1. at["op"].s \in Symbol /\ Created(at["op"].s, "carry", FALSE, "OPEN")
      BY <2>7 DEF AdoptCreates, DeskTypeOK, CallsTyped, Caller
    <3> QED
      BY <3>1, CreatedFires
  <2> QED
    BY <1>5, <2>1, <2>2, <2>3, <2>4, <2>5, <2>6, <2>7 DEF CommandNext
<1>6. CASE MarketNext
  <2>1. ASSUME NEW s \in Symbol, NEW kind \in Kinds, AutoEnter(s, kind) PROVE FiresOnce'
    BY <2>1, CreatedFires DEF AutoEnter
  <2>2. ASSUME NEW s \in Symbol, AutoAdd(s) \/ CoolsDown(s) \/ DayPasses PROVE FiresOnce'
    BY <1>1, <2>2 DEF AutoAdd, CoolsDown, DayPasses
  <2>3. ASSUME NEW s \in Symbol, ArmPending(s) PROVE FiresOnce'
    <3>1. shots' = [shots EXCEPT ![s] = 0]
      BY <2>3 DEF ArmPending
    <3>2. shots'[s] = 0 /\ \A p \in Symbol \ {s} : shots'[p] = shots[p]
      BY <3>1 DEF DeskTypeOK, RowsTyped
    <3>3. \A p \in Symbol \ {s} : pos'[p] = pos[p]
      BY <2>3, CommandEffect DEF RowIs
    <3> QED
      BY <3>2, <3>3, FiresOnceBut
  <2>4. CASE DayPasses
    BY <1>1, <2>4 DEF DayPasses
  <2> QED
    BY <1>6, <2>1, <2>2, <2>3, <2>4 DEF MarketNext
<1>7. CASE SweepNext
  <2>1. at["sw"].pc # "idle" => at["sw"].s \in Symbol
    BY DEF DeskTypeOK, CallsTyped, Caller
  <2>2. CASE UNCHANGED <<pos, shots>>
    BY <1>1, <2>2
  <2>3. ASSUME NEW mode \in {"now", "passive"}, NEW managed \in BOOLEAN,
               SafetyCloses(mode, managed)
        PROVE  FiresOnce'
    <3>1. LoopCloses(mode, "loop") /\ at["sw"].s \in Symbol
      BY <2>1, <2>3 DEF SafetyCloses, Deciding
    <3> QED
      BY <1>1, <3>1, LoopClosesType
  <2>4. CASE Escalates
    <3>1. LoopCloses("now", "escalate") /\ at["sw"].s \in Symbol
      BY <2>1, <2>4 DEF Escalates, Deciding
    <3> QED
      BY <1>1, <3>1, LoopClosesType
  <2>5. CASE Releases
    <3>1. at["sw"].s \in Symbol /\ UNCHANGED shots
      BY <2>1, <2>5 DEF Releases, Deciding, deskGhosts
    <3> QED
      BY <1>2, <2>5, <3>1, SweepEffect DEF RowIs
  <2>6. CASE AutoExit
    <3> DEFINE s == at["sw"].s
    <3>1. s \in Symbol
      BY <2>1, <2>6 DEF AutoExit
    <3>2. pos[s].armed /\ shots[s] = 0
      BY <2>6, <3>1 DEF AutoExit, FiresOnce, DeskTypeOK, RowsTyped
    <3>3. shots' = [shots EXCEPT ![s] = shots[s] + 1]
      BY <2>6, <3>1 DEF AutoExit
    <3>4. ~pos'[s].armed /\ \A p \in Symbol \ {s} : pos'[p] = pos[p]
      BY <2>6, <3>1, SweepEffect DEF RowIs
    <3> QED
      BY <3>1, <3>2, <3>3, <3>4, FiresOnceBut DEF DeskTypeOK, RowsTyped
  <2> QED
    BY <1>7, <2>2, <2>3, <2>4, <2>5, <2>6
       DEF SweepNext, SweepTakes, CheckLiquidation, Recovers, NothingToDo, SweepLeaves, deskRow, deskGhosts
<1>8. ASSUME NEW opened \in SUBSET Symbol, DeskRestart(opened) PROVE FiresOnce'
  <2>1. ASSUME NEW p \in Symbol PROVE pos'[p].armed = pos[p].armed
    <3>1. pos'[p] = [pos[p] EXCEPT !.state = pos'[p].state] /\ pos[p] \in PositionType
      BY <1>8, RestartEffect DEF DeskTypeOK, RowsTyped
    <3>2. [pos[p] EXCEPT !.state = pos'[p].state].armed = pos[p].armed
      BY <3>1 DEF PositionType
    <3> QED
      BY <3>1, <3>2
  <2> QED
    BY <1>1, <1>8, <2>1 DEF DeskRestart, deskGhosts
<1>9. CASE UNCHANGED deskVars
  BY <1>1, <1>9 DEF deskVars, deskRow, deskGhosts
<1> QED
  BY <1>3, <1>4, <1>5, <1>6, <1>7, <1>8, <1>9 DEF DeskNext

\* However the exit of an armed position goes, it does not fire again by itself
\* before it is armed again.
THEOREM ArmedFiresOnce == DeskSpec => []FiresOnce
<1>1. DeskInit => FiresOnce
  BY DEF DeskInit, FiresOnce, NoPosition
<1>2. DeskTypeOK /\ FiresOnce /\ [DeskNext]_deskVars => FiresOnce'
  BY FiresOnceNext
<1> QED
  BY <1>1, <1>2, DeskTypes, PTL DEF DeskSpec

-------------------------------------------------------------------------------
\* The budget of the automation.

\* The log holds what was started: an action counts against its symbol until the
\* cooldown is over and against the day until it is a day old.
BudgetInv ==
    /\ ~twice /\ dayStarts = today /\ today <= MaxPerDay
    /\ \A s \in Symbol : starts[s] <= (IF s \in recent THEN 1 ELSE 0)

LEMMA BudgetNext ==
    ASSUME DeskTypeOK, BudgetInv, [DeskNext]_deskVars, "adopt_races" \notin DeskFaults
    PROVE  BudgetInv'
<1> USE DEF BudgetInv, DeskTypeOK, BudgetTyped
<1>1. ASSUME UNCHANGED <<twice, dayStarts, today, starts, recent>> PROVE BudgetInv'
  BY <1>1
<1>2. CASE TaskNext
  BY <1>1, <1>2 DEF TaskNext, TaskRuns, TaskDies, EntryEnds, ExitEnds, deskRow, deskGhosts
<1>3. ASSUME NEW c \in Caller, StopsCancelled(c) \/ StartExit(c) \/ BackToOpen(c) PROVE BudgetInv'
  BY <1>1, <1>3 DEF StopsCancelled, StartExit, BackToOpen, deskRow, deskGhosts
<1>4. CASE CommandNext
  <2>1. ASSUME NEW s \in Symbol, NEW kind \in Kinds, EnterCommand(s, kind) PROVE BudgetInv'
    <3>1. CASE ~Active(s) /\ Created(s, kind, FALSE, "ENTERING")
      BY <2>1, <3>1, CreatedType DEF EnterCommand
    <3>2. CASE UNCHANGED twice
      BY <1>1, <2>1, <3>2 DEF EnterCommand
    <3> QED
      BY <2>1, <3>1, <3>2 DEF EnterCommand
  <2>2. CASE AdoptCreates
    <3>1. at["op"].s \in Symbol /\ Created(at["op"].s, "carry", FALSE, "OPEN") /\ ~Active(at["op"].s)
          /\ UNCHANGED <<dayStarts, today, starts, recent>>
      BY <2>2 DEF AdoptCreates, CallsTyped, Caller, May
    <3> QED
      BY <3>1, CreatedType
  <2> QED
    BY <1>1, <1>4, <2>1, <2>2
       DEF CommandNext, ExitCommand, ExitCancel, RemoveCommand, AdoptCommand, AutoCommand,
           RemoveForgets, RemoveCloses, deskRow, deskGhosts
<1>5. CASE MarketNext
  <2>1. ASSUME NEW s \in Symbol, WithinCaps(s), Recorded(s), Counted(s), ~twice' PROVE BudgetInv'
    <3>1. /\ today < MaxPerDay /\ s \notin recent /\ recent' = recent \cup {s} /\ today' = today + 1
          /\ starts' = [starts EXCEPT ![s] = starts[s] + 1] /\ dayStarts' = dayStarts + 1
      BY <2>1 DEF WithinCaps, Recorded, Counted
    <3>2. starts'[s] = 1 /\ \A p \in Symbol \ {s} : starts'[p] = starts[p]
      BY <3>1
    <3>3. today' <= MaxPerDay
      BY <3>1, DeskAssumption
    <3> QED
      BY <2>1, <3>1, <3>2, <3>3
  <2>2. ASSUME NEW s \in Symbol, NEW kind \in Kinds, AutoEnter(s, kind) PROVE BudgetInv'
    <3>1. ~twice'
      BY <2>2, CreatedType DEF AutoEnter
    <3> QED
      BY <2>1, <2>2, <3>1 DEF AutoEnter
  <2>3. ASSUME NEW s \in Symbol, AutoAdd(s) PROVE BudgetInv'
    BY <2>1, <2>3 DEF AutoAdd
  <2>4. ASSUME NEW s \in Symbol, CoolsDown(s) PROVE BudgetInv'
    BY <2>4 DEF CoolsDown
  <2>5. CASE DayPasses
    BY <2>5, DeskAssumption DEF DayPasses
  <2>6. ASSUME NEW s \in Symbol, ArmPending(s) PROVE BudgetInv'
    BY <1>1, <2>6 DEF ArmPending
  <2> QED
    BY <1>5, <2>2, <2>3, <2>4, <2>5, <2>6 DEF MarketNext
<1>6. CASE SweepNext
  BY <1>1, <1>6
     DEF SweepNext, SweepTakes, CheckLiquidation, SafetyCloses, LoopCloses, Escalates, Recovers,
         Releases, NothingToDo, AutoExit, SweepLeaves, deskRow, deskGhosts
<1>7. ASSUME NEW opened \in SUBSET Symbol, DeskRestart(opened) PROVE BudgetInv'
  BY <1>1, <1>7 DEF DeskRestart, deskGhosts
<1>8. CASE UNCHANGED deskVars
  BY <1>1, <1>8 DEF deskVars, deskRow, deskGhosts
<1> QED
  BY <1>2, <1>3, <1>4, <1>5, <1>6, <1>7, <1>8 DEF DeskNext

\* The automation stays within its budget whatever commands, adds, restarts and
\* closes do in between; /adopt, which asks the venues between its check and the
\* new row, is taken not to be overtaken there.
THEOREM AutomationStaysInBudget ==
    ASSUME "adopt_races" \notin DeskFaults
    PROVE  DeskSpec => []ExposureIsBounded
<1>1. DeskInit => BudgetInv
  BY DeskAssumption DEF DeskInit, BudgetInv
<1>2. DeskTypeOK /\ BudgetInv /\ [DeskNext]_deskVars => BudgetInv'
  BY BudgetNext
<1>3. DeskTypeOK /\ BudgetInv => ExposureIsBounded
  BY DeskAssumption DEF DeskTypeOK, BudgetTyped, BudgetInv, ExposureIsBounded
<1> QED
  BY <1>1, <1>2, <1>3, DeskTypes, PTL DEF DeskSpec

-------------------------------------------------------------------------------
\* Who trades what: one task of a position at a time, and callers that keep apart.

\* The assumption under which a caller finds the position as it left it.
NoRaces ==
    DeskFaults \cap {"stale_row", "two_closes", "cancel_races", "done_first", "add_races",
                     "adopt_races"} = {}

Busy(c, s) == at[c].s = s /\ at[c].pc \in {"stops", "wait", "orders"}

\* The tasks of s: one, known to the registry, of a position whose state fits it.
TasksFit(s) ==
    \A t \in tasks : t.s = s =>
        /\ t.reg /\ Active(s)
        /\ t.kind = "entry" => pos[s].state = "ENTERING"
        /\ t.phase \in {"working", "dying"} =>
              pos[s].state = IF t.kind = "exit" THEN "EXITING" ELSE "ENTERING"
        /\ \A u \in tasks : u.s = s => u = t

\* What a caller in the middle of a close, a cancel or a removal can rely on.
CallsFit(s) ==
    \A c \in Caller : Busy(c, s) =>
        /\ Active(s)
        /\ at[c].pc = "stops" => at[c].goal = "exit" /\ \A t \in tasks : t.s = s => t.kind # "entry"
        /\ at[c].pc = "wait" => at[c].goal # "none" /\ \A t \in tasks : t.s = s => t.phase = "dying"
        /\ at[c].pc = "orders" => at[c].goal = "closed" /\ \A t \in tasks : t.s # s
        /\ at[c].goal = "exit" => pos[s].mode # "none"

\* Two of them are at one position only when both close it, and one waits at a time.
CallsApart(s) ==
    \A c, d \in Caller : c # d /\ Busy(c, s) /\ Busy(d, s) =>
        /\ at[c].goal = "exit"
        /\ ~(at[c].pc = "wait" /\ at[d].pc = "wait")

\* What the sweep read of an OPEN or EXITING row is not long overtaken.
RowFits(s) ==
    RowInHand(s) =>
        /\ at["sw"].row.state \in {"OPEN", "EXITING"} => pos[s].state \in {"OPEN", "EXITING"}
        /\ at["sw"].row.state = "OPEN" => pos[s].state = "OPEN"

Fits(s) == TasksFit(s) /\ CallsFit(s) /\ CallsApart(s) /\ RowFits(s)
TradeInv == \A s \in Symbol : Fits(s)

Involved(c, s) ==
    at[c].s = s /\ at[c].pc \in {"stops", "wait", "orders", "liquidation", "decide"}

\* A position nothing new happens to: tasks and callers may only leave it.
LEMMA FitsKept ==
    ASSUME NEW s \in Symbol, Fits(s), \A t \in tasks' : t.s = s => t \in tasks,
           pos'[s].state = pos[s].state, pos'[s].mode = pos[s].mode,
           \A c \in Caller : at'[c] = at[c] \/ ~Involved(c, s)'
    PROVE  Fits(s)'
<1>1. TasksFit(s)'
  BY DEF Fits, TasksFit, Active
<1>2. \A c \in Caller : Busy(c, s)' => Busy(c, s) /\ at'[c] = at[c]
  BY DEF Busy, Involved
<1>3. CallsFit(s)'
  BY <1>2 DEF Fits, CallsFit, Active
<1>4. CallsApart(s)'
  BY <1>2 DEF Fits, CallsApart
<1>5. RowFits(s)'
  BY DEF Fits, RowFits, RowInHand, Involved, Caller
<1> QED
  BY <1>1, <1>3, <1>4, <1>5 DEF Fits

\* A step at one position.
LEMMA TradeAt ==
    ASSUME TradeInv, NEW s \in Symbol, Fits(s)',
           \A t \in tasks' : t.s # s => t \in tasks,
           \A p \in Symbol \ {s} : pos'[p] = pos[p],
           \A c \in Caller : at'[c] = at[c] \/ at'[c].s = s
    PROVE  TradeInv'
<1>1. ASSUME NEW p \in Symbol \ {s} PROVE Fits(p)'
  <2>1. /\ Fits(p) /\ \A t \in tasks' : t.s = p => t \in tasks
        /\ pos'[p].state = pos[p].state /\ pos'[p].mode = pos[p].mode
    BY DEF TradeInv
  <2>2. \A c \in Caller : at'[c] = at[c] \/ ~Involved(c, p)'
    BY DEF Involved
  <2> QED
    BY <2>1, <2>2, FitsKept
<1> QED
  BY <1>1 DEF TradeInv

\* ... and one at no position at all.
LEMMA TradeKept ==
    ASSUME TradeInv, tasks' \subseteq tasks,
           \A p \in Symbol : pos'[p].state = pos[p].state /\ pos'[p].mode = pos[p].mode,
           \A c \in Caller : \/ at'[c] = at[c]
                             \/ at'[c].pc \in {"idle", "adopt", "opportunity", "end"}
    PROVE  TradeInv'
<1>1. ASSUME NEW p \in Symbol PROVE Fits(p)'
  <2>1. \A c \in Caller : at'[c] = at[c] \/ ~Involved(c, p)'
    BY DEF Involved
  <2> QED
    BY <2>1, FitsKept DEF TradeInv
<1> QED
  BY <1>1 DEF TradeInv

\* A task runs or ends: it is the only one, and the callers there are at its stops.
LEMMA TasksTrade ==
    ASSUME DeskTypeOK, TradeInv, NoRaces, NEW t \in tasks,
           \/ TaskRuns(t) \/ TaskDies(t)
           \/ \E state \in {"OPEN", "CLOSED"} : EntryEnds(t, state)
           \/ \E state \in {"OPEN", "CLOSED", "EXITING"} : ExitEnds(t, state)
    PROVE  TradeInv'
<1> DEFINE s == t.s
<1>1. s \in Symbol /\ t \in TaskType /\ Fits(s)
  BY TaskEffect DEF TradeInv
<1>2. \A u \in tasks : u.s = s => u = t
  BY <1>1 DEF Fits, TasksFit
<1>3. ASSUME t.phase \in {"spawned", "working"}
      PROVE  \A c \in Caller : Busy(c, s) => at[c].pc = "stops" /\ t.kind # "entry"
  <2>1. t.phase # "dying"
    BY <1>3
  <2> QED
    BY <1>1, <2>1 DEF Fits, CallsFit, Busy
<1>4. CASE TaskDies(t)
  <2>1. tasks' = tasks \ {t} /\ pos' = pos /\ at' = at
    BY <1>4 DEF TaskDies, deskRow
  <2> QED
    BY <2>1, TradeKept
<1>5. CASE TaskRuns(t)
  <2> DEFINE n == [t EXCEPT !.phase = "working"]
  <2>1. /\ at' = at /\ tasks' = (tasks \ {t}) \cup {n} /\ t.phase = "spawned" /\ ~RowInHand(s)
    BY <1>5 DEF TaskRuns, RowMayMove, May, NoRaces
  <2>2. n.s = s /\ n.kind = t.kind /\ n.reg = t.reg /\ n.phase = "working"
    BY <1>1 DEF TaskType
  <2> HIDE DEF n
  <2>3. /\ pos'[s].state = (IF t.kind = "exit" THEN "EXITING" ELSE "ENTERING")
        /\ pos'[s].mode = pos[s].mode /\ \A p \in Symbol \ {s} : pos'[p] = pos[p]
    BY <1>5, TaskEffect DEF RowIs
  <2>4. \A u \in tasks' : u.s = s => u = n
    BY <1>2, <2>1, <2>2
  <2>5. TasksFit(s)'
    BY <1>1, <2>2, <2>3, <2>4 DEF Fits, TasksFit, Active
  <2>6. CallsFit(s)'
    <3>1. \A c \in Caller : Busy(c, s)' => Busy(c, s) /\ at'[c] = at[c] /\ at[c].pc = "stops" /\ n.kind # "entry"
      BY <1>3, <2>1, <2>2 DEF Busy
    <3>2. Active(s)'
      BY <2>3 DEF Active
    <3> QED
      BY <1>1, <2>3, <2>4, <3>1, <3>2 DEF Fits, CallsFit
  <2>7. CallsApart(s)' /\ RowFits(s)'
    BY <1>1, <2>1 DEF Fits, CallsApart, RowFits, Busy, RowInHand
  <2>8. Fits(s)'
    BY <2>5, <2>6, <2>7 DEF Fits
  <2> QED
    BY <1>1, <2>1, <2>2, <2>3, <2>8, TradeAt
<1>6. CASE \/ \E state \in {"OPEN", "CLOSED"} : EntryEnds(t, state)
           \/ \E state \in {"OPEN", "CLOSED", "EXITING"} : ExitEnds(t, state)
  <2>1. at' = at /\ tasks' = tasks \ {t} /\ t.phase = "working" /\ ~RowInHand(s)
    BY <1>6 DEF EntryEnds, ExitEnds, RowMayMove, May, NoRaces
  <2>2. \A u \in tasks' : u.s # s
    BY <1>2, <2>1
  <2>3. \A p \in Symbol \ {s} : pos'[p] = pos[p]
    BY <1>6, TaskEffect DEF RowIs
  <2>4. ASSUME NEW c \in Caller, Busy(c, s)
        PROVE  Active(s)' /\ pos'[s].mode = pos[s].mode
    <3>1. at[c].pc = "stops" /\ t.kind # "entry" /\ at[c].s = s
      BY <1>3, <2>1, <2>4 DEF Busy
    <3>2. CASE \E state \in {"OPEN", "CLOSED"} : EntryEnds(t, state)
      <4>1. EntryEnds(t, "OPEN")
        BY <3>1, <3>2 DEF EntryEnds
      <4> QED
        BY <4>1, TaskEffect DEF RowIs, Active
    <3>3. CASE \E state \in {"OPEN", "CLOSED", "EXITING"} : ExitEnds(t, state)
      <4>1. ExitEnds(t, "EXITING")
        BY <3>1, <3>3 DEF ExitEnds, May, NoRaces
      <4> QED
        BY <4>1, TaskEffect DEF RowIs, Active
    <3> QED
      BY <1>6, <3>2, <3>3
  <2>5. TasksFit(s)' /\ RowFits(s)' /\ CallsApart(s)'
    BY <1>1, <2>1, <2>2 DEF Fits, TasksFit, RowFits, RowInHand, CallsApart, Busy
  <2>6. CallsFit(s)'
    <3>1. \A c \in Caller : Busy(c, s)' => Busy(c, s) /\ at'[c] = at[c]
      BY <2>1 DEF Busy
    <3> QED
      BY <1>1, <2>2, <2>4, <3>1 DEF Fits, CallsFit
  <2>7. Fits(s)'
    BY <2>5, <2>6 DEF Fits
  <2> QED
    BY <1>1, <2>1, <2>3, <2>7, TradeAt
<1> QED
  BY <1>4, <1>5, <1>6

\* A position nobody trades and no caller is at.
LEMMA FitsFree ==
    ASSUME NEW s \in Symbol, \A t \in tasks' : t.s # s, \A c \in Caller : ~Busy(c, s)', RowFits(s)'
    PROVE  Fits(s)'
  BY DEF Fits, TasksFit, CallsFit, CallsApart

\* The task of s is taken down.
LEMMA CancelledFit ==
    ASSUME DeskTypeOK, NEW s \in Symbol, Fits(s), tasks' = Cancelled(s),
           pos'[s].state = pos[s].state
    PROVE  /\ TasksFit(s)'
           /\ \A t \in tasks' : t.s = s => t.phase = "dying"
           /\ \A t \in tasks' : t.s = s => \E u \in tasks : u.s = s /\ u.kind = t.kind
           /\ \A t \in tasks' : t.s # s => t \in tasks
<1>1. ASSUME NEW t \in tasks', t.s = s
      PROVE  /\ t.reg /\ t.phase = "dying"
             /\ \E u \in tasks : /\ u.s = s /\ u.kind = t.kind /\ u.phase \in {"working", "dying"}
                                 /\ t = [u EXCEPT !.phase = "dying"]
  <2>1. \/ t \in tasks /\ (t.s # s \/ ~t.reg)
        \/ /\ t.s = s /\ t.reg /\ t.phase = "dying"
           /\ \E u \in tasks : /\ u.s = s /\ u.reg /\ u.phase # "spawned"
                               /\ u.kind = t.kind /\ t = [u EXCEPT !.phase = "dying"]
    BY CancelledTasks
  <2>2. ~(t \in tasks /\ (t.s # s \/ ~t.reg))
    BY <1>1 DEF Fits, TasksFit
  <2>3. \A u \in tasks : u.phase \in {"spawned", "working", "dying"}
    BY DEF DeskTypeOK, TasksTyped, TaskType
  <2> QED
    BY <2>1, <2>2, <2>3
<1>2. ASSUME NEW t \in tasks', NEW u \in tasks', t.s = s, u.s = s PROVE u = t
  <2>1. PICK v \in tasks : v.s = s /\ t = [v EXCEPT !.phase = "dying"]
    BY <1>1, <1>2
  <2>2. PICK w \in tasks : w.s = s /\ u = [w EXCEPT !.phase = "dying"]
    BY <1>1, <1>2
  <2>3. v = w
    BY <2>1, <2>2 DEF Fits, TasksFit
  <2> QED
    BY <2>1, <2>2, <2>3
<1>3. ASSUME NEW t \in tasks', t.s = s
      PROVE  /\ t.reg /\ Active(s)'
             /\ t.kind = "entry" => pos'[s].state = "ENTERING"
             /\ pos'[s].state = IF t.kind = "exit" THEN "EXITING" ELSE "ENTERING"
  BY <1>1, <1>3 DEF Fits, TasksFit, Active
<1>4. TasksFit(s)'
  BY <1>2, <1>3 DEF TasksFit
<1>5. \A t \in tasks' : t.s # s => t \in tasks
  BY CancelledTasks
<1> QED
  BY <1>1, <1>4, <1>5

\* What Alone excludes.
LEMMA NobodyHalts ==
    ASSUME DeskTypeOK, NoRaces, NEW s \in Symbol, CallsFit(s), NEW c, Alone(c, s)
    PROVE  \A d \in Caller \ {c} : Busy(d, s) => at[d].goal = "exit" /\ at[d].pc \in {"stops", "wait"}
<1>1. SUFFICES ASSUME NEW d \in Caller \ {c}, Busy(d, s)
               PROVE  at[d].goal = "exit" /\ at[d].pc \in {"stops", "wait"}
  OBVIOUS
<1>2. ~(at[d].goal \in {"open", "closed"} /\ at[d].pc \in {"wait", "orders"})
  BY <1>1 DEF Alone, May, NoRaces, Busy
<1>3. at[d].goal \in {"none", "exit", "open", "closed"}
  BY DEF DeskTypeOK, CallsTyped, CallType
<1> QED
  BY <1>1, <1>2, <1>3 DEF CallsFit, Busy

\* A close begins: it writes the request and turns to the stops.
LEMMA BeginsTrade ==
    ASSUME DeskTypeOK, TradeInv, NoRaces, NEW c \in Caller, NEW s \in Symbol, Alone(c, s),
           pos[s].state \in {"OPEN", "EXITING"}, UNCHANGED tasks,
           pos'[s].state = pos[s].state, pos'[s].mode # "none",
           \A p \in Symbol \ {s} : pos'[p] = pos[p],
           at'[c].pc = "stops", at'[c].s = s, at'[c].goal = "exit",
           \A d \in Caller \ {c} : at'[d] = at[d]
    PROVE  TradeInv'
<1>1. Fits(s)
  BY DEF TradeInv
<1>2. \A d \in Caller \ {c} : Busy(d, s) => at[d].goal = "exit" /\ at[d].pc \in {"stops", "wait"}
  BY <1>1, NobodyHalts DEF Fits
<1>3. \A t \in tasks : t.s = s => t.kind # "entry"
  BY <1>1 DEF Fits, TasksFit
<1>4. Active(s) /\ Active(s)'
  BY DEF Active
<1>5. TasksFit(s)'
  BY <1>1, <1>4 DEF Fits, TasksFit
<1>6. \A d \in Caller \ {c} : Busy(d, s)' => Busy(d, s) /\ at'[d] = at[d]
  BY DEF Busy
<1>7. CallsFit(s)'
  BY <1>1, <1>3, <1>4, <1>6 DEF Fits, CallsFit
<1>8. CallsApart(s)'
  BY <1>1, <1>2, <1>6 DEF Fits, CallsApart
<1>9. RowFits(s)'
  BY <1>1 DEF Fits, RowFits, RowInHand, Caller
<1>10. Fits(s)'
  BY <1>5, <1>7, <1>8, <1>9 DEF Fits
<1> QED
  BY <1>10, TradeAt

\* A cancel or a removal begins: it takes the task down, with nobody else at it.
LEMMA HaltsTrade ==
    ASSUME DeskTypeOK, TradeInv, NoRaces, NEW c \in Caller, NEW s \in Symbol, Active(s),
           NEW goal \in {"open", "closed"}, NEW why \in {"operator", "recovered", "standdown", "liq"},
           Halts(c, s, goal, why), UNCHANGED pos
    PROVE  TradeInv'
<1>1. /\ Fits(s) /\ tasks' = Cancelled(s)
      /\ at'[c].pc = "wait" /\ at'[c].s = s /\ at'[c].goal = goal
      /\ \A d \in Caller \ {c} : at'[d] = at[d]
  BY HaltsType DEF TradeInv
<1>2. \A d \in Caller \ {c} : Busy(d, s) => at[d].goal = "exit" /\ at[d].pc \in {"stops", "wait"}
  BY <1>1, NobodyHalts DEF Fits, Halts
<1>3. \A d \in Caller \ {c} : ~Busy(d, s)
  BY <1>2 DEF Halts, May, NoRaces, Busy
<1>4. \A d \in Caller : Busy(d, s)' => d = c
  BY <1>1, <1>3 DEF Busy
<1>5. /\ TasksFit(s)' /\ \A t \in tasks' : t.s = s => t.phase = "dying"
      /\ \A t \in tasks' : t.s # s => t \in tasks
  BY <1>1, CancelledFit
<1>6. CallsFit(s)'
  BY <1>1, <1>4, <1>5 DEF CallsFit, Active
<1>7. CallsApart(s)'
  BY <1>4 DEF CallsApart
<1>8. RowFits(s)'
  BY <1>1 DEF Fits, RowFits, RowInHand, Caller
<1>9. Fits(s)'
  BY <1>5, <1>6, <1>7, <1>8 DEF Fits
<1> QED
  BY <1>1, <1>5, <1>9, TradeAt

LEMMA StopsCancelledTrade ==
    ASSUME DeskTypeOK, TradeInv, NoRaces, NEW c \in Caller, StopsCancelled(c)
    PROVE  TradeInv'
<1> DEFINE s == at[c].s
<1>1. s \in Symbol /\ at[c].pc = "stops" /\ tasks' = Cancelled(s) /\ Goes(c, "wait") /\ pos' = pos
  BY DEF StopsCancelled, deskRow, DeskTypeOK, CallsTyped
<1>2. /\ Fits(s) /\ Busy(c, s) /\ at'[c].pc = "wait" /\ at'[c].s = s /\ at'[c].goal = at[c].goal
      /\ \A d \in Caller \ {c} : at'[d] = at[d]
  BY <1>1, GoesType DEF TradeInv, Busy
<1>3. at[c].goal = "exit" /\ Active(s) /\ pos[s].mode # "none"
  BY <1>1, <1>2 DEF Fits, CallsFit
<1>4. \A d \in Caller \ {c} : Busy(d, s) => at[d].pc = "stops" /\ at[d].goal = "exit"
  <2>1. SUFFICES ASSUME NEW d \in Caller \ {c}, Busy(d, s)
                 PROVE  at[d].pc = "stops" /\ at[d].goal = "exit"
    OBVIOUS
  <2>2. at[d].goal = "exit"
    BY <1>2, <2>1 DEF Fits, CallsApart
  <2>3. at[d].pc # "wait"
    BY <2>1 DEF StopsCancelled, MayCancel, May, NoRaces, Busy
  <2> QED
    BY <1>2, <2>1, <2>2, <2>3 DEF Fits, CallsFit, Busy
<1>5. /\ TasksFit(s)' /\ \A t \in tasks' : t.s = s => t.phase = "dying"
      /\ \A t \in tasks' : t.s = s => \E u \in tasks : u.s = s /\ u.kind = t.kind
      /\ \A t \in tasks' : t.s # s => t \in tasks
  BY <1>1, <1>2, CancelledFit
<1>6. \A t \in tasks' : t.s = s => t.kind # "entry"
  BY <1>1, <1>2, <1>5 DEF Fits, CallsFit
<1>7. \A d \in Caller \ {c} : Busy(d, s)' => Busy(d, s) /\ at'[d] = at[d]
  BY <1>2 DEF Busy
<1>8. CallsFit(s)'
  BY <1>1, <1>2, <1>3, <1>4, <1>5, <1>6, <1>7 DEF CallsFit, Active
<1>9. CallsApart(s)'
  BY <1>2, <1>3, <1>4, <1>7 DEF CallsApart
<1>10. RowFits(s)'
  BY <1>1, <1>2 DEF Fits, RowFits, RowInHand, Caller
<1>11. Fits(s)'
  BY <1>5, <1>8, <1>9, <1>10 DEF Fits
<1> QED
  BY <1>1, <1>2, <1>5, <1>11, TradeAt

\* A task begins where there is none; a caller there is at the stops of a close.
LEMMA SpawnsTrade ==
    ASSUME DeskTypeOK, TradeInv, NEW s \in Symbol, NEW kind \in {"entry", "add", "exit"},
           \A t \in tasks : t.s # s, tasks' = Spawned(s, kind),
           Active(s)', kind = "entry" => pos'[s].state = "ENTERING",
           \A p \in Symbol \ {s} : pos'[p] = pos[p],
           \A c \in Caller : at'[c] = at[c] \/ (at'[c].s = s /\ ~Busy(c, s)')
                             \/ at'[c].pc \in {"idle", "opportunity", "end"},
           \A c \in Caller : Busy(c, s)' =>
               at[c].pc = "stops" /\ kind # "entry" /\ pos'[s].mode = pos[s].mode,
           RowFits(s)'
    PROVE  TradeInv'
<1> DEFINE n == [s |-> s, kind |-> kind, phase |-> "spawned", reg |-> TRUE]
<1>1. tasks' = tasks \cup {n}
  BY SpawnedTasks
<1>2. n.s = s /\ n.kind = kind /\ n.phase = "spawned" /\ n.reg
  OBVIOUS
<1> HIDE DEF n
<1>3. Fits(s)
  BY DEF TradeInv
<1>4. \A t \in tasks' : t.s = s => t = n
  BY <1>1
<1>5. TasksFit(s)'
  BY <1>2, <1>4 DEF TasksFit, Active
<1>6. \A c \in Caller : Busy(c, s)' => Busy(c, s) /\ at'[c] = at[c] /\ at[c].pc = "stops"
  BY DEF Busy
<1>7. CallsFit(s)'
  BY <1>2, <1>3, <1>4, <1>6 DEF Fits, CallsFit, Active
<1>8. CallsApart(s)'
  BY <1>3, <1>6 DEF Fits, CallsApart
<1>9. Fits(s)'
  BY <1>5, <1>7, <1>8 DEF Fits
<1>10. ASSUME NEW p \in Symbol \ {s} PROVE Fits(p)'
  <2>1. \A c \in Caller : at'[c] = at[c] \/ ~Involved(c, p)'
    BY DEF Involved
  <2>2. \A t \in tasks' : t.s = p => t \in tasks
    BY <1>1, <1>2
  <2> QED
    BY <2>1, <2>2, FitsKept DEF TradeInv
<1> QED
  BY <1>9, <1>10 DEF TradeInv

LEMMA SharedTrade ==
    ASSUME DeskTypeOK, TradeInv, NoRaces, NEW c \in Caller, StartExit(c) \/ BackToOpen(c)
    PROVE  TradeInv'
<1>1. at[c].pc \in {"wait", "stops"} /\ at[c].pc # "idle"
  BY DEF StartExit, BackToOpen, TaskGone
<1>0. PICK s \in Symbol : s = at[c].s
  BY <1>1 DEF DeskTypeOK, CallsTyped
<1>2. Fits(s) /\ Busy(c, s)
  BY <1>0, <1>1 DEF TradeInv, Busy
<1>3. \A t \in tasks : t.s # s
  <2>1. CASE TaskGone(c)
    BY <1>0, <1>2, <2>1 DEF TaskGone, Fits, CallsFit
  <2>2. CASE ~HasTask(s)
    BY <1>0, <1>2, <2>2 DEF HasTask, Fits, TasksFit
  <2> QED
    BY <1>0, <2>1, <2>2 DEF StartExit, BackToOpen
<1>4. CASE StartExit(c)
  <2>1. /\ tasks' = Spawned(s, "exit") /\ at[c].goal = "exit" /\ Alone(c, s) /\ MayCancel(c, s)
        /\ Returns(c, IF at[c].why = "loop" THEN "opportunity" ELSE "end")
    BY <1>0, <1>4 DEF StartExit
  <2>2. /\ pos'[s].state = pos[s].state /\ pos'[s].mode = pos[s].mode
        /\ \A p \in Symbol \ {s} : pos'[p] = pos[p]
    BY <1>0, <1>1, <1>4, SharedEffect DEF RowIs
  <2>3. at'[c].pc \in {"idle", "opportunity", "end"} /\ \A d \in Caller \ {c} : at'[d] = at[d]
    BY <1>0, <1>1, <2>1, ReturnsType
  <2>4. Active(s)'
    BY <1>2, <2>2 DEF Fits, CallsFit, Active
  <2>5. ASSUME NEW d \in Caller, Busy(d, s)' PROVE at[d].pc = "stops"
    <3>1. d # c /\ Busy(d, s)
      BY <2>3, <2>5 DEF Busy
    <3>2. at[d].pc \in {"stops", "wait"}
      BY <1>2, <2>1, <3>1, NobodyHalts DEF Fits
    <3>3. at[d].pc # "wait"
      BY <1>0, <2>1, <3>1 DEF MayCancel, May, NoRaces, Busy
    <3> QED
      BY <3>2, <3>3
  <2>6. RowFits(s)'
    BY <1>2, <2>2, <2>3 DEF Fits, RowFits, RowInHand, Caller
  <2> QED
    BY <1>2, <1>3, <2>1, <2>2, <2>3, <2>4, <2>5, <2>6, SpawnsTrade
<1>5. CASE BackToOpen(c)
  <2>1. /\ at[c].goal = "open" /\ tasks' = tasks
        /\ Returns(c, IF at[c].why = "liq" THEN "decide" ELSE "end")
    BY <1>0, <1>5 DEF BackToOpen
  <2>2. pos'[s].state = "OPEN" /\ \A p \in Symbol \ {s} : pos'[p] = pos[p]
    BY <1>0, <1>1, <1>5, SharedEffect DEF RowIs
  <2>3. /\ at'[c].pc \in {"idle", "end"} \/ (at'[c].pc = "decide" /\ at'[c].s = s)
        /\ \A d \in Caller \ {c} : at'[d] = at[d]
    BY <1>0, <1>1, <2>1, ReturnsType
  <2>4. \A d \in Caller \ {c} : ~Busy(d, s)
    BY <1>2, <2>1 DEF Fits, CallsApart
  <2>5. \A d \in Caller : ~Busy(d, s)'
    BY <2>3, <2>4 DEF Busy
  <2>6. RowFits(s)'
    BY <2>2 DEF RowFits
  <2>7. Fits(s)'
    BY <1>2, <1>3, <2>1, <2>5, <2>6, FitsFree
  <2>8. ASSUME NEW p \in Symbol \ {s} PROVE Fits(p)'
    <3>1. \A d \in Caller : at'[d] = at[d] \/ ~Involved(d, p)'
      BY <2>3 DEF Involved
    <3> QED
      BY <2>1, <2>2, <3>1, FitsKept DEF TradeInv
  <2> QED
    BY <2>7, <2>8 DEF TradeInv
<1> QED
  BY <1>4, <1>5

\* A new position in a symbol that has none.
LEMMA CreatedTrade ==
    ASSUME DeskTypeOK, TradeInv, NEW s \in Symbol, ~Active(s)
    PROVE  /\ \A t \in tasks : t.s # s
           /\ \A c \in Caller : ~Busy(c, s)
           /\ RowInHand(s) => at["sw"].row.state \notin {"OPEN", "EXITING"}
  BY DEF TradeInv, Fits, TasksFit, CallsFit, RowFits, Active

\* An add finds the position with nobody at it.
LEMMA AddsTrade ==
    ASSUME DeskTypeOK, TradeInv, NoRaces, NEW s \in Symbol, pos[s].state = "OPEN",
           ~HasTask(s), pos[s].mode = "none", Alone("market", s), tasks' = Spawned(s, "add"),
           UNCHANGED <<pos, at>>
    PROVE  TradeInv'
<1>1. Fits(s) /\ \A t \in tasks : t.s # s
  BY DEF TradeInv, Fits, TasksFit, HasTask
<1>2. \A c \in Caller : ~Busy(c, s)
  <2>1. \A c \in Caller : c # "market"
    BY DEF Caller
  <2>2. \A c \in Caller : Busy(c, s) => at[c].goal = "exit"
    BY <1>1, <2>1, NobodyHalts DEF Fits
  <2> QED
    BY <1>1, <2>2 DEF Fits, CallsFit
<1>3. Active(s)' /\ \A c \in Caller : ~Busy(c, s)'
  BY <1>2 DEF Active, Busy
<1>4. RowFits(s)'
  BY <1>1 DEF Fits, RowFits, RowInHand
<1> QED
  BY <1>1, <1>3, <1>4, SpawnsTrade

LEMMA CommandsTrade ==
    ASSUME DeskTypeOK, TradeInv, NoRaces, NEW s \in Symbol,
           \/ \E mode \in ExitModes, flatten \in BOOLEAN : ExitCommand(s, mode, flatten)
           \/ ExitCancel(s) \/ RemoveCommand(s) \/ AdoptCommand(s)
           \/ \E on \in BOOLEAN : AutoCommand(s, on)
           \/ \E kind \in Kinds : EnterCommand(s, kind)
    PROVE  TradeInv'
<1>1. "op" \in Caller
  BY DEF Caller
<1>2. ASSUME NEW mode \in ExitModes, NEW flatten \in BOOLEAN, ExitCommand(s, mode, flatten)
      PROVE  TradeInv'
  <2>1. /\ UNCHANGED tasks /\ Frame("op", s, "stops", "exit", "operator") /\ Alone("op", s)
        /\ pos[s].state \in {"OPEN", "EXITING"} /\ mode # "none"
    BY <1>2, DeskAssumption DEF ExitCommand
  <2>2. /\ pos'[s].state = pos[s].state /\ pos'[s].mode = mode
        /\ \A p \in Symbol \ {s} : pos'[p] = pos[p]
    BY <1>2, CommandEffect DEF RowIs
  <2>3. /\ at'["op"].pc = "stops" /\ at'["op"].s = s /\ at'["op"].goal = "exit"
        /\ \A d \in Caller \ {"op"} : at'[d] = at[d]
    BY <1>1, <2>1, FrameType
  <2> QED
    BY <1>1, <2>1, <2>2, <2>3, BeginsTrade
<1>3. CASE ExitCancel(s)
  <2>1. Halts("op", s, "open", "operator") /\ Active(s) /\ UNCHANGED pos
    BY <1>3 DEF ExitCancel, Active, deskRow
  <2> QED
    BY <1>1, <2>1, HaltsTrade
<1>4. CASE RemoveCommand(s)
  <2>1. Halts("op", s, "closed", "operator") /\ Active(s) /\ UNCHANGED pos
    BY <1>4 DEF RemoveCommand, deskRow
  <2> QED
    BY <1>1, <2>1, HaltsTrade
<1>5. CASE AdoptCommand(s)
  <2>1. Frame("op", s, "adopt", "none", "operator") /\ UNCHANGED <<pos, tasks>>
    BY <1>5 DEF AdoptCommand, deskRow
  <2>2. at'["op"].pc = "adopt" /\ \A d \in Caller \ {"op"} : at'[d] = at[d]
    BY <1>1, <2>1, FrameType
  <2> QED
    BY <2>1, <2>2, TradeKept
<1>6. ASSUME NEW on \in BOOLEAN, AutoCommand(s, on) PROVE TradeInv'
  <2>1. at' = at /\ tasks' = tasks
    BY <1>6 DEF AutoCommand
  <2> QED
    BY <1>6, <2>1, CommandEffect, TradeKept DEF RowIs
<1>7. ASSUME NEW kind \in Kinds, EnterCommand(s, kind) PROVE TradeInv'
  <2>1. CASE ~Active(s) /\ Created(s, kind, FALSE, "ENTERING") /\ tasks' = Spawned(s, "entry")
    <3>1. at' = at /\ \A c \in Caller : ~Busy(c, s)
      BY <1>7, <2>1, CreatedTrade DEF EnterCommand
    <3>2. pos'[s].state = "ENTERING" /\ \A p \in Symbol \ {s} : pos'[p] = pos[p]
      BY <2>1, CreatedType
    <3>3. Active(s)' /\ \A c \in Caller : ~Busy(c, s)'
      BY <3>1, <3>2 DEF Active, Busy
    <3>4. RowFits(s)'
      BY <2>1, <3>1, CreatedTrade DEF RowFits, RowInHand
    <3> QED
      BY <2>1, <3>1, <3>2, <3>3, <3>4, CreatedTrade, SpawnsTrade
  <2>2. CASE /\ pos[s].state = "OPEN" /\ Alone("market", s)
             /\ (HasTask(s) \/ pos[s].mode # "none" => May("add_races"))
             /\ tasks' = Spawned(s, "add") /\ UNCHANGED pos
    <3>1. at' = at /\ ~HasTask(s) /\ pos[s].mode = "none"
      BY <1>7, <2>2 DEF EnterCommand, May, NoRaces
    <3> QED
      BY <2>2, <3>1, AddsTrade
  <2> QED
    BY <1>7, <2>1, <2>2 DEF EnterCommand
<1> QED
  BY <1>2, <1>3, <1>4, <1>5, <1>6, <1>7

LEMMA CommandGoesOnTrades ==
    ASSUME DeskTypeOK, TradeInv, NoRaces, RemoveForgets \/ RemoveCloses \/ AdoptCreates
    PROVE  TradeInv'
<1>1. at["op"].pc # "idle" /\ "op" \in Caller
  BY DEF RemoveForgets, RemoveCloses, AdoptCreates, TaskGone, Caller
<1>0. PICK s \in Symbol : s = at["op"].s
  BY <1>1 DEF DeskTypeOK, CallsTyped
<1>2. Fits(s)
  BY <1>1 DEF TradeInv
<1>3. CASE RemoveForgets
  <2>1. /\ at["op"].pc = "wait" /\ at["op"].goal = "closed" /\ tasks' = tasks /\ pos' = pos
        /\ Goes("op", "orders") /\ Busy("op", s)
    BY <1>0, <1>3 DEF RemoveForgets, TaskGone, deskRow, Busy
  <2>2. /\ at'["op"].pc = "orders" /\ at'["op"].s = s /\ at'["op"].goal = "closed"
        /\ \A d \in Caller \ {"op"} : at'[d] = at[d]
    BY <1>0, <1>1, <2>1, GoesType
  <2>3. \A t \in tasks : t.s # s
    BY <1>0, <1>1, <1>2, <1>3, <2>1 DEF RemoveForgets, TaskGone, Fits, CallsFit
  <2>4. \A d \in Caller \ {"op"} : ~Busy(d, s)
    BY <1>1, <1>2, <2>1 DEF Fits, CallsApart
  <2>5. \A d \in Caller : Busy(d, s)' => d = "op"
    BY <2>2, <2>4 DEF Busy
  <2>6. Active(s)'
    BY <1>1, <1>2, <2>1 DEF Fits, CallsFit, Active
  <2>7. CallsFit(s)' /\ CallsApart(s)' /\ TasksFit(s)'
    BY <2>1, <2>2, <2>3, <2>5, <2>6 DEF CallsFit, CallsApart, TasksFit
  <2>8. RowFits(s)'
    BY <1>2, <2>1, <2>2 DEF Fits, RowFits, RowInHand, Caller
  <2>9. Fits(s)'
    BY <2>7, <2>8 DEF Fits
  <2> QED
    BY <1>1, <2>1, <2>2, <2>9, TradeAt
<1>4. CASE RemoveCloses
  <2>1. at["op"].pc = "orders" /\ tasks' = tasks /\ Returns("op", "end") /\ ~RowInHand(s) /\ Busy("op", s)
    BY <1>0, <1>4 DEF RemoveCloses, RowMayMove, May, NoRaces, Busy
  <2>2. at'["op"].pc = "idle" /\ \A d \in Caller \ {"op"} : at'[d] = at[d]
    <3>1. at' = [at EXCEPT !["op"] = AtRest]
      BY <2>1 DEF Returns
    <3> QED
      BY <1>1, <3>1, RestType, AtRestType
  <2>3. \A t \in tasks : t.s # s
    BY <1>1, <1>2, <2>1 DEF Fits, CallsFit
  <2>4. at["op"].goal = "closed"
    BY <1>1, <1>2, <2>1 DEF Fits, CallsFit
  <2>5. \A d \in Caller \ {"op"} : ~Busy(d, s)
    BY <1>1, <1>2, <2>1, <2>4 DEF Fits, CallsApart
  <2>6. \A d \in Caller : ~Busy(d, s)'
    BY <2>2, <2>5 DEF Busy
  <2>7. RowFits(s)'
    BY <2>1, <2>2 DEF RowFits, RowInHand, Caller
  <2>8. Fits(s)'
    BY <1>1, <2>1, <2>3, <2>6, <2>7, FitsFree
  <2>9. \A p \in Symbol \ {s} : pos'[p] = pos[p]
    BY <1>0, <1>1, <1>4, CommandEffect DEF RowIs
  <2>10. ASSUME NEW p \in Symbol \ {s} PROVE Fits(p)'
    <3>1. \A d \in Caller : at'[d] = at[d] \/ ~Involved(d, p)'
      BY <2>2 DEF Involved
    <3> QED
      BY <2>1, <2>9, <3>1, FitsKept DEF TradeInv
  <2> QED
    BY <2>8, <2>10 DEF TradeInv
<1>5. CASE AdoptCreates
  <2>1. /\ Created(s, "carry", FALSE, "OPEN") /\ tasks' = tasks /\ Returns("op", "end") /\ ~Active(s)
    BY <1>0, <1>5 DEF AdoptCreates, May, NoRaces
  <2>2. at'["op"].pc = "idle" /\ \A d \in Caller \ {"op"} : at'[d] = at[d]
    <3>1. at' = [at EXCEPT !["op"] = AtRest]
      BY <2>1 DEF Returns
    <3> QED
      BY <1>1, <3>1, RestType, AtRestType
  <2>3. pos'[s].state = "OPEN" /\ \A p \in Symbol \ {s} : pos'[p] = pos[p]
    BY <1>1, <2>1, CreatedType
  <2>4. (\A t \in tasks' : t.s # s) /\ \A d \in Caller : ~Busy(d, s)'
    BY <1>1, <2>1, <2>2, CreatedTrade DEF Busy
  <2>5. RowFits(s)'
    BY <2>3 DEF RowFits
  <2>6. Fits(s)'
    BY <1>1, <2>4, <2>5, FitsFree
  <2>7. ASSUME NEW p \in Symbol \ {s} PROVE Fits(p)'
    <3>1. \A d \in Caller : at'[d] = at[d] \/ ~Involved(d, p)'
      BY <2>2 DEF Involved
    <3> QED
      BY <2>1, <2>3, <3>1, FitsKept DEF TradeInv
  <2> QED
    BY <2>6, <2>7 DEF TradeInv
<1> QED
  BY <1>3, <1>4, <1>5

LEMMA MarketTrades ==
    ASSUME DeskTypeOK, TradeInv, NoRaces, MarketNext
    PROVE  TradeInv'
<1>1. ASSUME NEW s \in Symbol, NEW kind \in Kinds, AutoEnter(s, kind) PROVE TradeInv'
  <2>1. /\ ~Active(s) /\ Created(s, kind, TRUE, "ENTERING") /\ tasks' = Spawned(s, "entry")
        /\ at' = at
    BY <1>1 DEF AutoEnter
  <2>2. \A c \in Caller : ~Busy(c, s)
    BY <2>1, CreatedTrade
  <2>3. pos'[s].state = "ENTERING" /\ \A p \in Symbol \ {s} : pos'[p] = pos[p]
    BY <2>1, CreatedType
  <2>4. Active(s)' /\ \A c \in Caller : ~Busy(c, s)'
    BY <2>1, <2>2, <2>3 DEF Active, Busy
  <2>5. RowFits(s)'
    BY <2>1, CreatedTrade DEF RowFits, RowInHand
  <2> QED
    BY <2>1, <2>3, <2>4, <2>5, CreatedTrade, SpawnsTrade
<1>2. ASSUME NEW s \in Symbol, AutoAdd(s) PROVE TradeInv'
  BY <1>2, AddsTrade DEF AutoAdd
<1>3. ASSUME NEW s \in Symbol, CoolsDown(s) PROVE TradeInv'
  BY <1>3, TradeKept DEF CoolsDown
<1>4. CASE DayPasses
  BY <1>4, TradeKept DEF DayPasses
<1>5. ASSUME NEW s \in Symbol, ArmPending(s) PROVE TradeInv'
  <2>1. at' = at /\ tasks' = tasks
    BY <1>5 DEF ArmPending
  <2> QED
    BY <1>5, <2>1, CommandEffect, TradeKept DEF RowIs
<1> QED
  BY <1>1, <1>2, <1>3, <1>4, <1>5 DEF MarketNext

\* The sweep closes a position by a row that is not overtaken.
LEMMA LoopClosesTrade ==
    ASSUME DeskTypeOK, TradeInv, NoRaces, at["sw"].pc = "decide",
           at["sw"].row.state \in {"OPEN", "EXITING"},
           NEW mode \in {"now", "passive"}, NEW why \in {"loop", "escalate"}, LoopCloses(mode, why)
    PROVE  TradeInv'
<1>1. PICK s \in Symbol : s = at["sw"].s
  BY DEF DeskTypeOK, CallsTyped, Caller
<1>2. "sw" \in Caller /\ \A d \in Caller \ {"sw"} : d = "op"
  BY DEF Caller
<1>3. pos[s].state \in {"OPEN", "EXITING"}
  BY <1>1 DEF TradeInv, Fits, RowFits, RowInHand
<1>4. Alone("sw", s)
  BY <1>1 DEF LoopCloses
<1>5. /\ UNCHANGED tasks /\ pos'[s].state = pos[s].state /\ pos'[s].mode # "none"
      /\ \A p \in Symbol \ {s} : pos'[p] = pos[p]
      /\ at'["sw"].pc = "stops" /\ at'["sw"].s = s /\ at'["sw"].goal = "exit"
      /\ at'["op"] = at["op"]
  BY <1>1, LoopClosesType
<1> QED
  BY <1>2, <1>3, <1>4, <1>5, BeginsTrade

LEMMA SweepTrades ==
    ASSUME DeskTypeOK, TradeInv, NoRaces, SweepNext
    PROVE  TradeInv'
<1>1. "sw" \in Caller /\ "op" \in Caller \ {"sw"} /\ \A d \in Caller \ {"sw"} : d = "op"
  BY DEF Caller
<1>2. at["sw"].pc # "idle" => at["sw"].s \in Symbol
  BY <1>1 DEF DeskTypeOK, CallsTyped
<1>3. ASSUME NEW s \in Symbol, SweepTakes(s) PROVE TradeInv'
  <2> DEFINE r == [x \in DOMAIN NoRow |-> pos[s][x]]
             f == [AtRest EXCEPT !.pc = "liquidation", !.s = s, !.row = r]
  <2>1. pos' = pos /\ tasks' = tasks /\ at' = [at EXCEPT !["sw"] = f]
    BY <1>3 DEF SweepTakes, deskRow
  <2>2. r \in RowType /\ r.state = pos[s].state
    BY RowRead
  <2> HIDE DEF r
  <2>3. f.s = s /\ f.pc = "liquidation" /\ f.row = r
    BY <2>2, AtRestType DEF CallType
  <2> HIDE DEF f
  <2>4. at'["sw"] = f /\ at'["op"] = at["op"]
    BY <1>1, <2>1 DEF DeskTypeOK, CallsTyped, Caller
  <2>5. Fits(s) /\ \A c \in Caller : Busy(c, s)' => Busy(c, s) /\ at'[c] = at[c]
    BY <1>1, <2>3, <2>4 DEF TradeInv, Busy
  <2>6. TasksFit(s)' /\ CallsFit(s)' /\ CallsApart(s)'
    BY <2>1, <2>5 DEF Fits, TasksFit, CallsFit, CallsApart, Active
  <2>7. RowFits(s)'
    BY <2>1, <2>2, <2>3, <2>4 DEF RowFits
  <2>8. Fits(s)'
    BY <2>6, <2>7 DEF Fits
  <2> QED
    BY <1>1, <2>1, <2>3, <2>4, <2>8, TradeAt
<1>4. ASSUME NEW near \in BOOLEAN, CheckLiquidation(near) PROVE TradeInv'
  <2>1. PICK s \in Symbol : s = at["sw"].s
    BY <1>2, <1>4 DEF CheckLiquidation
  <2>2. pos' = pos /\ at["sw"].pc = "liquidation" /\ Fits(s)
    BY <1>4, <2>1 DEF CheckLiquidation, deskRow, TradeInv
  <2>3. CASE at["sw"].row.state = "EXITING" /\ Halts("sw", s, "open", "liq")
    <3>1. Active(s)
      BY <2>1, <2>2, <2>3 DEF Fits, RowFits, RowInHand, Active
    <3> QED
      BY <1>1, <2>2, <2>3, <3>1, HaltsTrade
  <2>4. CASE Goes("sw", "decide") /\ UNCHANGED tasks
    <3>1. /\ at'["sw"].pc = "decide" /\ at'["sw"].s = s /\ at'["sw"].row = at["sw"].row
          /\ at'["op"] = at["op"]
      BY <1>1, <2>1, <2>2, <2>4, GoesType
    <3>2. \A c \in Caller : Busy(c, s)' => Busy(c, s) /\ at'[c] = at[c]
      BY <1>1, <3>1 DEF Busy
    <3>3. TasksFit(s)' /\ CallsFit(s)' /\ CallsApart(s)'
      BY <2>2, <2>4, <3>2 DEF Fits, TasksFit, CallsFit, CallsApart, Active
    <3>4. RowFits(s)'
      BY <2>1, <2>2, <3>1 DEF Fits, RowFits, RowInHand
    <3>5. Fits(s)'
      BY <3>3, <3>4 DEF Fits
    <3> QED
      BY <1>1, <2>2, <2>4, <3>1, <3>5, TradeAt
  <2> QED
    BY <1>4, <2>1, <2>3, <2>4 DEF CheckLiquidation
<1>5. CASE \E mode \in {"now", "passive"}, managed \in BOOLEAN : SafetyCloses(mode, managed)
  BY <1>5, LoopClosesTrade DEF SafetyCloses, Deciding
<1>6. CASE Escalates
  BY <1>6, LoopClosesTrade DEF Escalates, Deciding
<1>7. CASE Recovers
  <2>1. PICK s \in Symbol : s = at["sw"].s
    BY <1>2, <1>7 DEF Recovers, Deciding
  <2>2. \E why \in {"recovered", "standdown"} : Halts("sw", s, "open", why)
    BY <1>7, <2>1 DEF Recovers
  <2>3. pos' = pos /\ at["sw"].pc = "decide" /\ at["sw"].row.state = "EXITING"
    BY <1>7 DEF Recovers, Deciding, deskRow
  <2>4. Active(s)
    BY <2>1, <2>3 DEF TradeInv, Fits, RowFits, RowInHand, Active
  <2> QED
    BY <1>1, <2>2, <2>3, <2>4, HaltsTrade
<1>8. CASE Releases
  <2>1. at["sw"].s \in Symbol /\ tasks' = tasks /\ Frame("sw", at["sw"].s, "end", "none", "none")
    BY <1>2, <1>8 DEF Releases, Deciding, Leaves
  <2>2. at'["sw"].pc = "end" /\ at'["op"] = at["op"]
    BY <1>1, <2>1, FrameType
  <2> QED
    BY <1>1, <1>8, <2>1, <2>2, SweepEffect, TradeKept DEF RowIs
<1>9. CASE NothingToDo
  <2>1. /\ at["sw"].s \in Symbol /\ tasks' = tasks /\ pos' = pos
        /\ \E pc \in {"opportunity", "end"} : Frame("sw", at["sw"].s, pc, "none", "none")
    BY <1>2, <1>9 DEF NothingToDo, Leaves, deskRow
  <2>2. at'["sw"].pc \in {"opportunity", "end"} /\ at'["op"] = at["op"]
    BY <1>1, <2>1, FrameType
  <2> QED
    BY <1>1, <2>1, <2>2, TradeKept
<1>10. CASE AutoExit
  <2>1. PICK s \in Symbol : s = at["sw"].s
    BY <1>2, <1>10 DEF AutoExit
  <2>2. /\ Frame("sw", s, "stops", "exit", "auto") /\ tasks' = tasks /\ pos[s].state = "OPEN"
        /\ Alone("sw", s)
    BY <1>10, <2>1 DEF AutoExit
  <2>3. /\ at'["sw"].pc = "stops" /\ at'["sw"].s = s /\ at'["sw"].goal = "exit"
        /\ at'["op"] = at["op"]
    BY <1>1, <2>2, FrameType
  <2>4. /\ pos'[s].state = pos[s].state /\ pos'[s].mode = "passive"
        /\ \A p \in Symbol \ {s} : pos'[p] = pos[p]
    BY <1>10, <2>1, SweepEffect DEF RowIs
  <2> QED
    BY <1>1, <2>2, <2>3, <2>4, BeginsTrade
<1>11. CASE SweepLeaves
  <2>1. pos' = pos /\ tasks' = tasks /\ at' = [at EXCEPT !["sw"] = AtRest]
    BY <1>11 DEF SweepLeaves, deskRow
  <2>2. at'["sw"].pc = "idle" /\ at'["op"] = at["op"]
    BY <1>1, <2>1, RestType, AtRestType
  <2> QED
    BY <1>1, <2>1, <2>2, TradeKept
<1> QED
  BY <1>3, <1>4, <1>5, <1>6, <1>7, <1>8, <1>9, <1>10, <1>11 DEF SweepNext

LEMMA RestartTrades ==
    ASSUME DeskTypeOK, NEW opened \in SUBSET Symbol, DeskRestart(opened)
    PROVE  TradeInv'
<1>1. SUFFICES ASSUME NEW s \in Symbol PROVE Fits(s)'
  BY DEF TradeInv
<1>2. \A c \in Caller : at'[c].pc = "idle"
  BY RestartEffect, AtRestType
<1>3. \A t \in tasks' : /\ t.reg /\ t.kind = "exit" /\ t.phase = "spawned"
                        /\ pos'[t.s].state = "EXITING"
  BY RestartEffect
<1>4. \A t, u \in tasks' : t.s = u.s => t = u
  BY RestartEffect
<1>5. TasksFit(s)'
  BY <1>3, <1>4 DEF TasksFit, Active
<1>6. CallsFit(s)' /\ CallsApart(s)' /\ RowFits(s)'
  BY <1>2 DEF CallsFit, CallsApart, RowFits, RowInHand, Busy, Caller
<1> QED
  BY <1>5, <1>6 DEF Fits

LEMMA TradeNext ==
    ASSUME DeskTypeOK, TradeInv, NoRaces, [DeskNext]_deskVars
    PROVE  TradeInv'
<1>1. CASE CommandNext
  BY <1>1, CommandsTrade, CommandGoesOnTrades DEF CommandNext
<1>2. CASE TaskNext
  BY <1>2, TasksTrade DEF TaskNext
<1>3. CASE UNCHANGED deskVars
  BY <1>3, TradeKept DEF deskVars, deskRow
<1> QED
  BY <1>1, <1>2, <1>3, MarketTrades, SweepTrades, StopsCancelledTrade, SharedTrade, RestartTrades
     DEF DeskNext

LEMMA TradeInit == DeskInit => TradeInv
<1> SUFFICES ASSUME DeskInit, NEW s \in Symbol PROVE Fits(s)
  BY DEF TradeInv
<1>1. tasks = {} /\ at = [c \in Caller |-> AtRest]
  BY DEF DeskInit
<1>2. \A c \in Caller : at[c].pc = "idle"
  BY <1>1, AtRestType
<1> QED
  BY <1>1, <1>2 DEF Fits, TasksFit, CallsFit, CallsApart, RowFits, RowInHand, Busy, Caller

\* With callers that find a position as they left it, a task that trades has the
\* state that says so, whoever closes, cancels, removes, adds or restarts.
THEOREM TradersAreWorking ==
    ASSUME NoRaces
    PROVE  DeskSpec => []OnlyWorkingStatesTrade
<1>1. DeskTypeOK /\ TradeInv /\ [DeskNext]_deskVars => TradeInv'
  BY TradeNext
<1>2. DeskTypeOK /\ TradeInv => OnlyWorkingStatesTrade
  <2>1. DeskTypeOK => \A t \in tasks : t.s \in Symbol
    BY DEF DeskTypeOK, TasksTyped, TaskType
  <2> QED
    BY <2>1 DEF TradeInv, Fits, TasksFit, OnlyWorkingStatesTrade
<1> QED
  BY <1>1, <1>2, TradeInit, DeskTypes, PTL DEF DeskSpec

-------------------------------------------------------------------------------
\* The exit the operator asked for.

\* The assumption under which nothing comes between what a caller read of an exit
\* and what it does about it.
NoLateMarks == DeskFaults \cap {"marks_late", "passive_again", "stale_row", "cancel_races"} = {}

\* A passive exit of the operator is requested, working or not.
Asked(s) == owner[s] = "operator" /\ pos[s].mode = "passive"
SweepAt(s, pcs) == at["sw"].s = s /\ at["sw"].pc \in pcs

\* Nothing that lets the loop escalate it or stand it down is on the position.
LeftAlone(s) ==
    /\ Asked(s) =>
          /\ s \notin autoPassive /\ ~pos[s].exitAuto
          /\ ~(RowInHand(s) /\ at["sw"].row.exitAuto)
          /\ ~(SweepAt(s, {"stops", "wait"}) /\ at["sw"].why = "auto")
          /\ ~(SweepAt(s, {"wait"}) /\ at["sw"].goal = "open" /\ at["sw"].why # "liq")
    /\ RowInHand(s) /\ at["sw"].row.state = "OPEN" => pos[s].state = "OPEN"

OwnInv ==
    /\ \A s \in Symbol : LeftAlone(s)
    /\ at["op"].why # "auto"
    /\ at["sw"].pc = "stops" => at["sw"].goal = "exit"

SweepAway == at["sw"].pc \in {"idle", "opportunity", "end"}

\* A step that asks for no exit and gives the loop none.
LEMMA LeftAloneKept ==
    ASSUME NEW s \in Symbol, LeftAlone(s), Asked(s)' => Asked(s),
           s \in autoPassive' => s \in autoPassive, pos'[s].exitAuto => pos[s].exitAuto,
           RowInHand(s) /\ pos[s].state = "OPEN" => pos'[s].state = "OPEN",
           at'["sw"] = at["sw"] \/ at'["sw"].s # s \/ SweepAway'
    PROVE  LeftAlone(s)'
  BY DEF LeftAlone, RowInHand, SweepAt, SweepAway

LEMMA OwnKept ==
    ASSUME OwnInv, autoPassive' \subseteq autoPassive,
           \A p \in Symbol : /\ Asked(p)' => Asked(p)
                             /\ pos'[p].exitAuto => pos[p].exitAuto
                             /\ RowInHand(p) /\ pos[p].state = "OPEN" => pos'[p].state = "OPEN",
           at'["sw"] = at["sw"] \/ SweepAway', at'["op"].why # "auto"
    PROVE  OwnInv'
<1>1. ASSUME NEW p \in Symbol PROVE LeftAlone(p)'
  BY LeftAloneKept DEF OwnInv
<1>2. at'["sw"].pc = "stops" => at'["sw"].goal = "exit"
  BY DEF OwnInv, SweepAway
<1> QED
  BY <1>1, <1>2 DEF OwnInv

\* A step of the sweep, or of a command, at one position.
LEMMA OwnAt ==
    ASSUME OwnInv, NEW s \in Symbol, LeftAlone(s)',
           \A p \in Symbol \ {s} : pos'[p] = pos[p] /\ owner'[p] = owner[p],
           autoPassive' \subseteq autoPassive \cup {s},
           at'["sw"] = at["sw"] \/ at'["sw"].s = s \/ SweepAway',
           at'["op"].why # "auto", at'["sw"].pc = "stops" => at'["sw"].goal = "exit"
    PROVE  OwnInv'
<1>1. ASSUME NEW p \in Symbol \ {s} PROVE LeftAlone(p)'
  <2>1. (Asked(p)' => Asked(p)) /\ (at'["sw"] = at["sw"] \/ at'["sw"].s # p \/ SweepAway')
    BY DEF Asked
  <2> QED
    BY <2>1, LeftAloneKept DEF OwnInv
<1> QED
  BY <1>1 DEF OwnInv

LEMMA TasksOwn ==
    ASSUME DeskTypeOK, OwnInv, NoLateMarks, NEW t \in tasks,
           \/ TaskRuns(t) \/ TaskDies(t)
           \/ \E state \in {"OPEN", "CLOSED"} : EntryEnds(t, state)
           \/ \E state \in {"OPEN", "CLOSED", "EXITING"} : ExitEnds(t, state)
    PROVE  OwnInv'
<1> DEFINE s == t.s
<1>1. s \in Symbol /\ at' = at /\ autoPassive' = autoPassive
  BY TaskEffect DEF TaskRuns, TaskDies, EntryEnds, ExitEnds, deskMemory
<1>2. CASE TaskDies(t)
  BY <1>1, <1>2, OwnKept DEF TaskDies, deskRow, deskGhosts, Asked, OwnInv
<1>3. CASE \/ TaskRuns(t)
           \/ \E state \in {"OPEN", "CLOSED"} : EntryEnds(t, state)
           \/ \E state \in {"OPEN", "CLOSED", "EXITING"} : ExitEnds(t, state)
  <2>1. ~RowInHand(s)
    BY <1>3 DEF TaskRuns, EntryEnds, ExitEnds, RowMayMove, May, NoLateMarks
  <2>2. /\ pos'[s].mode \in {"none", pos[s].mode} /\ pos'[s].exitAuto = pos[s].exitAuto
        /\ \A p \in Symbol \ {s} : pos'[p] = pos[p]
    BY <1>3, TaskEffect DEF RowIs
  <2>3. owner'[s] \in {"none", owner[s]} /\ \A p \in Symbol \ {s} : owner'[p] = owner[p]
    BY <1>1, <1>3 DEF TaskRuns, EntryEnds, ExitEnds, deskGhosts, DeskTypeOK, RowsTyped
  <2>4. \A p \in Symbol : /\ Asked(p)' => Asked(p)
                          /\ pos'[p].exitAuto => pos[p].exitAuto
                          /\ RowInHand(p) /\ pos[p].state = "OPEN" => pos'[p].state = "OPEN"
    BY <2>1, <2>2, <2>3 DEF Asked
  <2> QED
    BY <1>1, <2>4, OwnKept DEF OwnInv
<1> QED
  BY <1>2, <1>3

\* The second half of a close or a cancel.
LEMMA SharedOwn ==
    ASSUME DeskTypeOK, OwnInv, NoLateMarks, NEW c \in Caller,
           StopsCancelled(c) \/ StartExit(c) \/ BackToOpen(c)
    PROVE  OwnInv'
<1>1. at[c].pc # "idle"
  BY DEF StopsCancelled, StartExit, BackToOpen, TaskGone
<1>2. PICK s \in Symbol : s = at[c].s
  BY <1>1 DEF DeskTypeOK, CallsTyped
<1>3. autoPassive' = autoPassive /\ LeftAlone(s)
  BY DEF StopsCancelled, StartExit, BackToOpen, deskMemory, OwnInv
<1>4. "op" \in Caller /\ "sw" \in Caller /\ (c = "op" \/ c = "sw")
  BY DEF Caller
<1>5. CASE StopsCancelled(c)
  <2>1. pos' = pos /\ owner' = owner /\ at[c].pc = "stops" /\ Goes(c, "wait")
    BY <1>5 DEF StopsCancelled, deskRow, deskGhosts
  <2>2. /\ at'[c].pc = "wait" /\ at'[c].s = s /\ at'[c].goal = at[c].goal
        /\ at'[c].why = at[c].why /\ \A d \in Caller \ {c} : at'[d] = at[d]
    BY <1>1, <1>2, <2>1, GoesType
  <2>3. CASE c = "op"
    BY <1>3, <1>4, <2>1, <2>2, <2>3, OwnKept DEF Asked, OwnInv
  <2>4. CASE c = "sw"
    <3>1. LeftAlone(s)'
      BY <1>2, <1>3, <2>1, <2>2, <2>4 DEF LeftAlone, Asked, RowInHand, SweepAt, OwnInv
    <3> QED
      BY <1>3, <1>4, <2>1, <2>2, <2>4, <3>1, OwnAt DEF OwnInv
  <2> QED
    BY <1>4, <2>3, <2>4
<1>6. CASE StartExit(c)
  <2>1. /\ owner' = owner /\ at[c].pc \in {"stops", "wait"}
        /\ Returns(c, IF at[c].why = "loop" THEN "opportunity" ELSE "end")
    BY <1>6 DEF StartExit, TaskGone, deskGhosts
  <2>2. /\ at'[c].pc \in {"idle", "opportunity", "end"} /\ at'[c].why \in {"none", at[c].why}
        /\ \A d \in Caller \ {c} : at'[d] = at[d]
    BY <1>1, <2>1, ReturnsType
  <2>3. /\ pos'[s].mode = pos[s].mode /\ pos'[s].state = pos[s].state
        /\ pos'[s].exitAuto = (pos[s].exitAuto \/ at[c].why = "auto")
        /\ \A p \in Symbol \ {s} : pos'[p] = pos[p]
    BY <1>1, <1>2, <1>6, SharedEffect DEF RowIs
  <2>4. (at'["sw"] = at["sw"] \/ SweepAway') /\ at'["op"].why # "auto"
    BY <1>4, <2>2 DEF SweepAway, OwnInv
  <2>5. LeftAlone(s)'
    <3>1. CASE at[c].why = "auto"
      <4>1. c = "sw" /\ ~Asked(s)
        BY <1>2, <1>3, <1>4, <2>1, <3>1 DEF LeftAlone, SweepAt, OwnInv
      <4>2. ~Asked(s)' /\ ~RowInHand(s)'
        BY <2>1, <2>2, <2>3, <4>1 DEF Asked, RowInHand
      <4> QED
        BY <4>2 DEF LeftAlone
    <3>2. CASE at[c].why # "auto"
      BY <1>3, <2>1, <2>3, <2>4, <3>2, LeftAloneKept DEF Asked
    <3> QED
      BY <3>1, <3>2
  <2> QED
    BY <1>3, <2>1, <2>3, <2>4, <2>5, OwnAt DEF SweepAway, OwnInv
<1>7. CASE BackToOpen(c)
  <2>1. owner' = [owner EXCEPT ![s] = "none"]
        /\ Returns(c, IF at[c].why = "liq" THEN "decide" ELSE "end")
    BY <1>2, <1>7 DEF BackToOpen, OwnedBy
  <2>2. /\ at'[c].pc \in {"idle", "end", "decide"} /\ at'[c].why \in {"none", at[c].why}
        /\ at'[c].pc = "decide" => c = "sw" /\ at'[c].s = s
        /\ \A d \in Caller \ {c} : at'[d] = at[d]
    BY <1>1, <1>2, <2>1, ReturnsType
  <2>3. /\ pos'[s].state = "OPEN" /\ \A p \in Symbol \ {s} : pos'[p] = pos[p]
    BY <1>1, <1>2, <1>7, SharedEffect DEF RowIs
  <2>4. owner'[s] = "none" /\ \A p \in Symbol \ {s} : owner'[p] = owner[p]
    BY <2>1 DEF DeskTypeOK, RowsTyped
  <2>5. LeftAlone(s)'
    BY <2>3, <2>4 DEF LeftAlone, Asked
  <2>6. /\ at'["sw"] = at["sw"] \/ at'["sw"].s = s \/ SweepAway'
        /\ at'["op"].why # "auto"
        /\ at'["sw"].pc = "stops" => at'["sw"].goal = "exit"
    BY <1>4, <2>2 DEF SweepAway, OwnInv
  <2> QED
    BY <1>3, <2>3, <2>4, <2>5, <2>6, OwnAt
<1> QED
  BY <1>5, <1>6, <1>7

LEMMA CommandsOwn ==
    ASSUME DeskTypeOK, OwnInv, NoLateMarks, NEW s \in Symbol,
           \/ \E mode \in ExitModes, flatten \in BOOLEAN : ExitCommand(s, mode, flatten)
           \/ ExitCancel(s) \/ RemoveCommand(s) \/ AdoptCommand(s)
           \/ \E on \in BOOLEAN : AutoCommand(s, on)
           \/ \E kind \in Kinds : EnterCommand(s, kind)
    PROVE  OwnInv'
<1>1. "op" \in Caller /\ "sw" \in Caller \ {"op"}
  BY DEF Caller
<1>2. ASSUME NEW mode \in ExitModes, NEW flatten \in BOOLEAN, ExitCommand(s, mode, flatten)
      PROVE  OwnInv'
  <2>1. /\ Frame("op", s, "stops", "exit", "operator") /\ autoPassive' = autoPassive
        /\ owner' = [owner EXCEPT ![s] = "operator"]
    BY <1>2 DEF ExitCommand, OwnedBy, deskMemory
  <2>2. at'["op"].why = "operator" /\ at'["sw"] = at["sw"]
    BY <1>1, <2>1, FrameType
  <2>3. /\ pos'[s].mode = mode /\ pos'[s].exitAuto = (pos[s].exitAuto /\ flatten)
        /\ \A p \in Symbol \ {s} : pos'[p] = pos[p]
    BY <1>2, CommandEffect DEF RowIs
  <2>4. \A p \in Symbol \ {s} : owner'[p] = owner[p]
    BY <2>1 DEF DeskTypeOK, RowsTyped
  <2>5. /\ flatten => mode = "now"
        /\ mode = "passive" => s \notin autoPassive
        /\ ~RowInHand(s)
        /\ ~(SweepAt(s, {"stops", "wait"}) /\ at["sw"].why = "auto")
        /\ ~(SweepAt(s, {"wait"}) /\ at["sw"].goal = "open")
    BY <1>1, <1>2 DEF ExitCommand, RowMayMove, Alone, May, NoLateMarks, SweepAt
  <2>6. LeftAlone(s)'
    BY <2>1, <2>2, <2>3, <2>5 DEF LeftAlone, Asked, RowInHand, SweepAt
  <2> QED
    BY <2>1, <2>2, <2>3, <2>4, <2>6, OwnAt DEF OwnInv
<1>3. CASE ExitCancel(s) \/ RemoveCommand(s) \/ AdoptCommand(s)
  <2>1. pos' = pos /\ owner' = owner /\ autoPassive' = autoPassive
    BY <1>3 DEF ExitCancel, RemoveCommand, AdoptCommand, deskRow, deskGhosts, deskMemory
  <2>2. \E pc \in {"wait", "adopt"}, goal \in {"none", "open", "closed"} :
           Frame("op", s, pc, goal, "operator")
    BY <1>3 DEF ExitCancel, RemoveCommand, AdoptCommand, Halts
  <2>3. at'["op"].why = "operator" /\ at'["sw"] = at["sw"]
    BY <1>1, <2>2, FrameType
  <2> QED
    BY <2>1, <2>3, OwnKept DEF Asked
<1>4. ASSUME NEW on \in BOOLEAN, AutoCommand(s, on) PROVE OwnInv'
  <2>1. at' = at /\ owner' = owner /\ autoPassive' = autoPassive
    BY <1>4 DEF AutoCommand, deskMemory
  <2>2. \A p \in Symbol : /\ pos'[p].state = pos[p].state /\ pos'[p].mode = pos[p].mode
                          /\ pos'[p].exitAuto = pos[p].exitAuto
    BY <1>4, CommandEffect DEF RowIs
  <2> QED
    BY <2>1, <2>2, OwnKept DEF Asked, OwnInv
<1>5. ASSUME NEW kind \in Kinds, EnterCommand(s, kind) PROVE OwnInv'
  <2>1. at' = at /\ ~RowInHand(s)
    BY <1>5 DEF EnterCommand, RowMayMove, May, NoLateMarks
  <2>2. CASE Created(s, kind, FALSE, "ENTERING")
    <3>1. /\ owner'[s] = "none" /\ ~pos'[s].exitAuto /\ autoPassive' \subseteq autoPassive
          /\ \A p \in Symbol \ {s} : pos'[p] = pos[p] /\ owner'[p] = owner[p]
      BY <2>2, CreatedType
    <3>2. \A p \in Symbol : /\ Asked(p)' => Asked(p)
                            /\ pos'[p].exitAuto => pos[p].exitAuto
                            /\ RowInHand(p) /\ pos[p].state = "OPEN" => pos'[p].state = "OPEN"
      BY <2>1, <3>1 DEF Asked
    <3> QED
      BY <2>1, <3>1, <3>2, OwnKept DEF OwnInv
  <2>3. CASE UNCHANGED <<pos, owner, deskMemory>>
    BY <2>1, <2>3, OwnKept DEF Asked, OwnInv, deskMemory
  <2> QED
    BY <1>5, <2>2, <2>3 DEF EnterCommand
<1> QED
  BY <1>2, <1>3, <1>4, <1>5

\* What the operator's command in progress does to the sweep: nothing.
LEMMA OpReturns ==
    ASSUME DeskTypeOK, at["op"].pc # "idle", Returns("op", "end")
    PROVE  at'["op"].why = "none" /\ at'["sw"] = at["sw"]
<1>1. at' = [at EXCEPT !["op"] = AtRest]
  BY DEF Returns
<1> QED
  BY <1>1, RestType, AtRestType DEF Caller

LEMMA CommandGoesOnOwn ==
    ASSUME DeskTypeOK, OwnInv, NoLateMarks, RemoveForgets \/ RemoveCloses \/ AdoptCreates
    PROVE  OwnInv' /\ at'["sw"] = at["sw"]
<1>1. at["op"].pc # "idle" /\ "op" \in Caller /\ "sw" \in Caller \ {"op"}
  BY DEF RemoveForgets, RemoveCloses, AdoptCreates, TaskGone, Caller
<1>2. PICK s \in Symbol : s = at["op"].s
  BY <1>1 DEF DeskTypeOK, CallsTyped
<1>3. CASE RemoveForgets
  <2>1. pos' = pos /\ owner' = owner /\ autoPassive' \subseteq autoPassive /\ Goes("op", "orders")
    BY <1>3 DEF RemoveForgets, deskRow, deskGhosts
  <2>2. at'["op"].why = at["op"].why /\ at'["sw"] = at["sw"]
    BY <1>1, <2>1, GoesType
  <2> QED
    BY <2>1, <2>2, OwnKept DEF Asked, OwnInv
<1>4. CASE RemoveCloses
  <2>1. autoPassive' = autoPassive /\ Returns("op", "end") /\ ~RowInHand(s)
        /\ owner' = [owner EXCEPT ![s] = "none"]
    BY <1>2, <1>4 DEF RemoveCloses, RowMayMove, May, NoLateMarks, deskMemory, OwnedBy
  <2>2. ~pos'[s].exitAuto /\ \A p \in Symbol \ {s} : pos'[p] = pos[p]
    BY <1>2, <1>4, CommandEffect DEF RowIs
  <2>3. \A p \in Symbol : /\ Asked(p)' => Asked(p)
                          /\ pos'[p].exitAuto => pos[p].exitAuto
                          /\ RowInHand(p) /\ pos[p].state = "OPEN" => pos'[p].state = "OPEN"
    BY <2>1, <2>2 DEF Asked, DeskTypeOK, RowsTyped
  <2> QED
    BY <1>1, <2>1, <2>3, OpReturns, OwnKept
<1>5. CASE AdoptCreates
  <2>1. Created(s, "carry", FALSE, "OPEN") /\ Returns("op", "end")
    BY <1>2, <1>5 DEF AdoptCreates
  <2>2. /\ owner'[s] = "none" /\ ~pos'[s].exitAuto /\ autoPassive' \subseteq autoPassive
        /\ pos'[s].state = "OPEN"
        /\ \A p \in Symbol \ {s} : pos'[p] = pos[p] /\ owner'[p] = owner[p]
    BY <2>1, CreatedType
  <2>3. \A p \in Symbol : /\ Asked(p)' => Asked(p)
                          /\ pos'[p].exitAuto => pos[p].exitAuto
                          /\ RowInHand(p) /\ pos[p].state = "OPEN" => pos'[p].state = "OPEN"
    BY <2>2 DEF Asked
  <2> QED
    BY <1>1, <2>1, <2>2, <2>3, OpReturns, OwnKept
<1> QED
  BY <1>3, <1>4, <1>5

LEMMA MarketOwn ==
    ASSUME DeskTypeOK, OwnInv, NoLateMarks, MarketNext
    PROVE  OwnInv' /\ at' = at
<1>1. at["op"].why # "auto"
  BY DEF OwnInv
<1>2. ASSUME NEW s \in Symbol, NEW kind \in Kinds, AutoEnter(s, kind) PROVE OwnInv' /\ at' = at
  <2>1. ~Active(s) /\ Created(s, kind, TRUE, "ENTERING") /\ at' = at
    BY <1>2 DEF AutoEnter
  <2>2. /\ owner'[s] = "none" /\ ~pos'[s].exitAuto /\ autoPassive' \subseteq autoPassive
        /\ \A p \in Symbol \ {s} : pos'[p] = pos[p] /\ owner'[p] = owner[p]
    BY <2>1, CreatedType
  <2>3. \A p \in Symbol : /\ Asked(p)' => Asked(p)
                          /\ pos'[p].exitAuto => pos[p].exitAuto
                          /\ RowInHand(p) /\ pos[p].state = "OPEN" => pos'[p].state = "OPEN"
    BY <2>1, <2>2 DEF Asked, Active
  <2> QED
    BY <1>1, <2>1, <2>2, <2>3, OwnKept
<1>3. ASSUME NEW s \in Symbol, AutoAdd(s) \/ CoolsDown(s) PROVE OwnInv' /\ at' = at
  <2>1. pos' = pos /\ owner' = owner /\ autoPassive' = autoPassive /\ at' = at
    BY <1>3 DEF AutoAdd, CoolsDown, deskMemory
  <2> QED
    BY <1>1, <2>1, OwnKept DEF Asked
<1>4. CASE DayPasses
  <2>1. pos' = pos /\ owner' = owner /\ autoPassive' = autoPassive /\ at' = at
    BY <1>4 DEF DayPasses, deskMemory
  <2> QED
    BY <1>1, <2>1, OwnKept DEF Asked
<1>5. ASSUME NEW s \in Symbol, ArmPending(s) PROVE OwnInv' /\ at' = at
  <2>1. owner' = owner /\ autoPassive' = autoPassive /\ at' = at
    BY <1>5 DEF ArmPending, deskMemory
  <2>2. \A p \in Symbol : /\ pos'[p].state = pos[p].state /\ pos'[p].mode = pos[p].mode
                          /\ pos'[p].exitAuto = pos[p].exitAuto
    BY <1>5, CommandEffect DEF RowIs
  <2> QED
    BY <1>1, <2>1, <2>2, OwnKept DEF Asked
<1> QED
  BY <1>2, <1>3, <1>4, <1>5 DEF MarketNext

\* A close by the loop makes the exit the loop's.
LEMMA LoopClosesOwn ==
    ASSUME DeskTypeOK, OwnInv, NEW s \in Symbol, s = at["sw"].s, NEW mode \in {"now", "passive"},
           NEW why \in {"loop", "escalate"}, LoopCloses(mode, why),
           autoPassive' \subseteq autoPassive \cup {s}
    PROVE  OwnInv'
<1>1. /\ owner'[s] = "loop" /\ at'["op"] = at["op"]
      /\ \A p \in Symbol \ {s} : pos'[p] = pos[p] /\ owner'[p] = owner[p]
      /\ at'["sw"].pc = "stops" /\ at'["sw"].s = s /\ at'["sw"].goal = "exit"
  BY LoopClosesType
<1>2. LeftAlone(s)'
  BY <1>1 DEF LeftAlone, Asked, RowInHand
<1> QED
  BY <1>1, <1>2, OwnAt DEF OwnInv

LEMMA SweepOwn ==
    ASSUME DeskTypeOK, OwnInv, SweepNext
    PROVE  OwnInv'
<1>1. "sw" \in Caller /\ "op" \in Caller \ {"sw"}
  BY DEF Caller
<1>2. at["sw"].pc # "idle" => at["sw"].s \in Symbol
  BY <1>1 DEF DeskTypeOK, CallsTyped
<1>3. ASSUME NEW s \in Symbol, SweepTakes(s) PROVE OwnInv'
  <2> DEFINE r == [x \in DOMAIN NoRow |-> pos[s][x]]
             f == [AtRest EXCEPT !.pc = "liquidation", !.s = s, !.row = r]
  <2>1. pos' = pos /\ owner' = owner /\ autoPassive' \subseteq autoPassive
        /\ at' = [at EXCEPT !["sw"] = f]
    BY <1>3 DEF SweepTakes, deskRow, deskGhosts
  <2>2. r \in RowType /\ r.state = pos[s].state /\ r.exitAuto = pos[s].exitAuto
    BY RowRead
  <2> HIDE DEF r
  <2>3. f.s = s /\ f.pc = "liquidation" /\ f.row = r
    BY <2>2, AtRestType DEF CallType
  <2> HIDE DEF f
  <2>4. at'["sw"] = f /\ at'["op"] = at["op"]
    BY <1>1, <2>1 DEF DeskTypeOK, CallsTyped, Caller
  <2>5. LeftAlone(s)'
    BY <2>1, <2>2, <2>3, <2>4 DEF OwnInv, LeftAlone, Asked, RowInHand, SweepAt
  <2> QED
    BY <2>1, <2>3, <2>4, <2>5, OwnAt DEF OwnInv
<1>4. ASSUME NEW near \in BOOLEAN, CheckLiquidation(near) PROVE OwnInv'
  <2>1. PICK s \in Symbol : s = at["sw"].s
    BY <1>2, <1>4 DEF CheckLiquidation
  <2>2. pos' = pos /\ owner' = owner /\ autoPassive' \subseteq autoPassive
        /\ at["sw"].pc = "liquidation" /\ LeftAlone(s)
    BY <1>4 DEF CheckLiquidation, deskRow, deskGhosts, OwnInv
  <2>3. CASE Halts("sw", s, "open", "liq")
    <3>1. /\ at'["sw"].pc = "wait" /\ at'["sw"].s = s /\ at'["sw"].why = "liq"
          /\ at'["op"] = at["op"]
      BY <1>1, <2>3, HaltsType
    <3>2. LeftAlone(s)'
      BY <2>2, <3>1 DEF LeftAlone, Asked, RowInHand, SweepAt
    <3> QED
      BY <2>2, <3>1, <3>2, OwnAt DEF OwnInv
  <2>4. CASE Goes("sw", "decide")
    <3>1. /\ at'["sw"].pc = "decide" /\ at'["sw"].s = s /\ at'["sw"].row = at["sw"].row
          /\ at'["op"] = at["op"]
      BY <1>1, <2>1, <2>2, <2>4, GoesType
    <3>2. LeftAlone(s)'
      BY <2>1, <2>2, <3>1 DEF LeftAlone, Asked, RowInHand, SweepAt
    <3> QED
      BY <2>2, <3>1, <3>2, OwnAt DEF OwnInv
  <2> QED
    BY <1>4, <2>1, <2>3, <2>4 DEF CheckLiquidation
<1>5. ASSUME NEW mode \in {"now", "passive"}, NEW managed \in BOOLEAN, SafetyCloses(mode, managed)
      PROVE  OwnInv'
  <2>1. PICK s \in Symbol : s = at["sw"].s
    BY <1>2, <1>5 DEF SafetyCloses, Deciding
  <2>2. LoopCloses(mode, "loop") /\ autoPassive' \subseteq autoPassive \cup {s}
    BY <1>5, <2>1 DEF SafetyCloses
  <2> QED
    BY <2>1, <2>2, LoopClosesOwn
<1>6. CASE Escalates
  <2>1. PICK s \in Symbol : s = at["sw"].s
    BY <1>2, <1>6 DEF Escalates, Deciding
  <2>2. LoopCloses("now", "escalate") /\ autoPassive' \subseteq autoPassive
    BY <1>6 DEF Escalates
  <2> QED
    BY <2>1, <2>2, LoopClosesOwn
<1>7. CASE Recovers
  <2>1. PICK s \in Symbol : s = at["sw"].s
    BY <1>2, <1>7 DEF Recovers, Deciding
  <2>2. PICK why \in {"recovered", "standdown"} : Halts("sw", s, "open", why)
    BY <1>7, <2>1 DEF Recovers
  <2>3. pos' = pos /\ owner' = owner /\ autoPassive' \subseteq autoPassive
    BY <1>7 DEF Recovers, deskRow, deskGhosts
  <2>4. ~Asked(s)
    BY <1>7, <2>1 DEF Recovers, Deciding, Managed, ByItself, RowInHand, LeftAlone, OwnInv
  <2>5. at'["sw"].pc = "wait" /\ at'["sw"].s = s /\ at'["op"] = at["op"]
    BY <1>1, <2>2, HaltsType
  <2>6. LeftAlone(s)'
    BY <2>3, <2>4, <2>5 DEF LeftAlone, Asked, RowInHand
  <2> QED
    BY <2>3, <2>5, <2>6, OwnAt DEF OwnInv
<1>8. CASE Releases
  <2>1. at["sw"].s \in Symbol /\ owner' = owner /\ autoPassive' \subseteq autoPassive
        /\ Frame("sw", at["sw"].s, "end", "none", "none")
    BY <1>2, <1>8 DEF Releases, Deciding, Leaves, deskGhosts
  <2>2. at'["sw"].pc = "end" /\ at'["op"] = at["op"]
    BY <1>1, <2>1, FrameType
  <2>3. \A p \in Symbol : /\ pos'[p].state = pos[p].state /\ pos'[p].mode = pos[p].mode
                          /\ pos'[p].exitAuto => pos[p].exitAuto
    BY <1>8, <2>1, SweepEffect DEF RowIs
  <2> QED
    BY <2>1, <2>2, <2>3, OwnKept DEF Asked, OwnInv, SweepAway
<1>9. CASE NothingToDo
  <2>1. /\ at["sw"].s \in Symbol /\ pos' = pos /\ owner' = owner /\ autoPassive' = autoPassive
        /\ \E pc \in {"opportunity", "end"} : Frame("sw", at["sw"].s, pc, "none", "none")
    BY <1>2, <1>9 DEF NothingToDo, Leaves, deskRow, deskMemory, deskGhosts
  <2>2. at'["sw"].pc \in {"opportunity", "end"} /\ at'["op"] = at["op"]
    BY <1>1, <2>1, FrameType
  <2> QED
    BY <2>1, <2>2, OwnKept DEF Asked, OwnInv, SweepAway
<1>10. CASE AutoExit
  <2>1. PICK s \in Symbol : s = at["sw"].s
    BY <1>2, <1>10 DEF AutoExit
  <2>2. /\ Frame("sw", s, "stops", "exit", "auto") /\ owner' = [owner EXCEPT ![s] = "auto"]
        /\ autoPassive' = autoPassive
    BY <1>10, <2>1 DEF AutoExit, OwnedBy, deskMemory
  <2>3. /\ at'["sw"].pc = "stops" /\ at'["sw"].s = s /\ at'["sw"].goal = "exit"
        /\ at'["op"] = at["op"]
    BY <1>1, <2>2, FrameType
  <2>4. /\ owner'[s] = "auto"
        /\ \A p \in Symbol \ {s} : pos'[p] = pos[p] /\ owner'[p] = owner[p]
    BY <1>10, <2>1, <2>2, SweepEffect DEF RowIs, DeskTypeOK, RowsTyped
  <2>5. LeftAlone(s)'
    BY <2>3, <2>4 DEF LeftAlone, Asked, RowInHand
  <2> QED
    BY <2>2, <2>3, <2>4, <2>5, OwnAt DEF OwnInv
<1>11. CASE SweepLeaves
  <2>1. pos' = pos /\ owner' = owner /\ autoPassive' = autoPassive
        /\ at' = [at EXCEPT !["sw"] = AtRest]
    BY <1>11 DEF SweepLeaves, deskRow, deskMemory, deskGhosts
  <2>2. at'["sw"].pc = "idle" /\ at'["op"] = at["op"]
    BY <1>1, <2>1, RestType, AtRestType
  <2> QED
    BY <2>1, <2>2, OwnKept DEF Asked, OwnInv, SweepAway
<1> QED
  BY <1>3, <1>4, <1>5, <1>6, <1>7, <1>8, <1>9, <1>10, <1>11 DEF SweepNext

LEMMA RestartOwn ==
    ASSUME DeskTypeOK, OwnInv, NEW opened \in SUBSET Symbol, DeskRestart(opened)
    PROVE  /\ OwnInv'
           /\ \A p \in Symbol : pos'[p].mode = pos[p].mode /\ owner'[p] = owner[p]
<1>1. autoPassive' = {} /\ owner' = owner
  BY DEF DeskRestart, deskGhosts
<1>2. \A c \in Caller : at'[c].pc = "idle" /\ at'[c].why = "none"
  BY RestartEffect, AtRestType
<1>3. ASSUME NEW p \in Symbol
      PROVE  /\ pos'[p].mode = pos[p].mode /\ pos'[p].exitAuto = pos[p].exitAuto
             /\ pos[p].state = "OPEN" => pos'[p].state = "OPEN"
  <2>1. /\ pos'[p] = [pos[p] EXCEPT !.state = pos'[p].state] /\ pos[p] \in PositionType
        /\ pos[p].state = "ENTERING" \/ pos'[p].state = pos[p].state
    BY RestartEffect DEF DeskTypeOK, RowsTyped
  <2>2. /\ [pos[p] EXCEPT !.state = pos'[p].state].mode = pos[p].mode
        /\ [pos[p] EXCEPT !.state = pos'[p].state].exitAuto = pos[p].exitAuto
    BY <2>1 DEF PositionType
  <2> QED
    BY <2>1, <2>2
<1>4. OwnInv'
  BY <1>1, <1>2, <1>3, OwnKept DEF Asked, SweepAway, Caller
<1> QED
  BY <1>1, <1>3, <1>4

LEMMA OwnNext ==
    ASSUME DeskTypeOK, OwnInv, NoLateMarks, [DeskNext]_deskVars
    PROVE  OwnInv'
<1>1. CASE CommandNext
  BY <1>1, CommandsOwn, CommandGoesOnOwn DEF CommandNext
<1>2. CASE TaskNext
  BY <1>2, TasksOwn DEF TaskNext
<1>3. CASE UNCHANGED deskVars
  BY <1>3, OwnKept DEF deskVars, deskRow, deskMemory, deskGhosts, Asked, OwnInv
<1> QED
  BY <1>1, <1>2, <1>3, MarketOwn, SweepOwn, SharedOwn, RestartOwn DEF DeskNext

\* A command leaves the sweep where it is.
LEMMA CommandsLeaveSweep ==
    ASSUME DeskTypeOK, OwnInv, NoLateMarks, CommandNext
    PROVE  at'["sw"] = at["sw"]
<1>1. "op" \in Caller /\ "sw" \in Caller \ {"op"}
  BY DEF Caller
<1>2. ASSUME NEW s \in Symbol, NEW mode \in ExitModes, NEW flatten \in BOOLEAN,
             ExitCommand(s, mode, flatten)
      PROVE  at'["sw"] = at["sw"]
  BY <1>1, <1>2, FrameType DEF ExitCommand
<1>3. ASSUME NEW s \in Symbol, ExitCancel(s) \/ RemoveCommand(s) \/ AdoptCommand(s)
      PROVE  at'["sw"] = at["sw"]
  <2>1. \E pc \in {"wait", "adopt"}, goal \in {"none", "open", "closed"} :
           Frame("op", s, pc, goal, "operator")
    BY <1>3 DEF ExitCancel, RemoveCommand, AdoptCommand, Halts
  <2> QED
    BY <1>1, <2>1, FrameType
<1> QED
  BY <1>2, <1>3, CommandGoesOnOwn DEF CommandNext, AutoCommand, EnterCommand

\* A step of the sweep leaves a passive exit of the operator as it is.
LEMMA AskedStands ==
    ASSUME DeskTypeOK, OwnInv, NoLateMarks, [DeskNext]_deskVars, NEW s \in Symbol,
           pos[s].state = "EXITING", Asked(s), at'["sw"] # at["sw"], at["sw"].why # "liq"
    PROVE  pos'[s].mode = "passive" /\ owner'[s] = "operator"
<1>1. LeftAlone(s) /\ owner[s] = "operator" /\ pos[s].mode = "passive"
  BY DEF OwnInv, Asked
<1>2. at["sw"].pc # "idle" => at["sw"].s \in Symbol
  BY DEF DeskTypeOK, CallsTyped, Caller
<1>3. CASE pos'[s] = pos[s] /\ owner'[s] = owner[s]
  BY <1>1, <1>3
<1>4. CASE CommandNext \/ MarketNext \/ TaskNext \/ UNCHANGED deskVars
  BY <1>4, CommandsLeaveSweep, MarketOwn
     DEF TaskNext, TaskRuns, TaskDies, EntryEnds, ExitEnds, deskVars
<1>5. ASSUME NEW c \in Caller, StopsCancelled(c) \/ StartExit(c) \/ BackToOpen(c)
      PROVE  pos'[s].mode = "passive" /\ owner'[s] = "operator"
  <2>1. PICK p \in Symbol : p = at[c].s
    BY <1>5 DEF StopsCancelled, StartExit, BackToOpen, TaskGone, DeskTypeOK, CallsTyped
  <2>2. CASE StopsCancelled(c)
    BY <1>3, <2>2 DEF StopsCancelled, deskRow, deskGhosts
  <2>3. CASE StartExit(c)
    <3>1. at[c].pc # "idle" /\ owner' = owner
      BY <2>3 DEF StartExit, TaskGone, deskGhosts
    <3>2. pos'[s].mode = pos[s].mode
      BY <2>1, <2>3, <3>1, SharedEffect DEF RowIs
    <3> QED
      BY <1>1, <3>1, <3>2
  <2>4. CASE BackToOpen(c)
    <3>1. /\ at[c].pc = "wait" /\ at[c].goal = "open"
          /\ Returns(c, IF at[c].why = "liq" THEN "decide" ELSE "end")
          /\ owner' = [owner EXCEPT ![p] = "none"]
      BY <2>1, <2>4 DEF BackToOpen, TaskGone, OwnedBy
    <3>2. \A d \in Caller \ {c} : at'[d] = at[d]
      BY <3>1, ReturnsType
    <3>3. c = "sw"
      BY <3>2 DEF Caller
    <3>4. s # p
      BY <1>1, <2>1, <3>1, <3>3 DEF LeftAlone, Asked, SweepAt
    <3>5. pos'[s] = pos[s] /\ owner'[s] = owner[s]
      BY <2>1, <2>4, <3>1, <3>4, SharedEffect DEF RowIs, DeskTypeOK, RowsTyped
    <3> QED
      BY <1>3, <3>5
  <2> QED
    BY <1>5, <2>2, <2>3, <2>4
<1>6. ASSUME NEW mode \in {"now", "passive"}, NEW managed \in BOOLEAN, SafetyCloses(mode, managed)
      PROVE  pos'[s].mode = "passive" /\ owner'[s] = "operator"
  <2>1. PICK p \in Symbol : p = at["sw"].s
    BY <1>2, <1>6 DEF SafetyCloses, Deciding
  <2>2. s # p
    BY <1>1, <1>6, <2>1 DEF SafetyCloses, Deciding, LeftAlone, RowInHand
  <2>3. pos'[s] = pos[s] /\ owner'[s] = owner[s]
    BY <1>6, <2>1, <2>2, LoopClosesType DEF SafetyCloses
  <2> QED
    BY <1>3, <2>3
<1>7. CASE Escalates
  <2>1. PICK p \in Symbol : p = at["sw"].s
    BY <1>2, <1>7 DEF Escalates, Deciding
  <2>2. s # p
    BY <1>1, <1>7, <2>1 DEF Escalates, Managed, LeftAlone, Asked
  <2>3. pos'[s] = pos[s] /\ owner'[s] = owner[s]
    BY <1>7, <2>1, <2>2, LoopClosesType DEF Escalates
  <2> QED
    BY <1>3, <2>3
<1>8. CASE Releases
  <2>1. at["sw"].s \in Symbol /\ owner' = owner
    BY <1>2, <1>8 DEF Releases, Deciding, deskGhosts
  <2>2. pos'[s].mode = pos[s].mode
    BY <1>8, <2>1, SweepEffect DEF RowIs
  <2> QED
    BY <1>1, <2>1, <2>2
<1>9. CASE AutoExit
  <2>1. PICK p \in Symbol : p = at["sw"].s
    BY <1>2, <1>9 DEF AutoExit
  <2>2. s # p /\ owner' = [owner EXCEPT ![p] = "auto"]
    BY <1>9, <2>1 DEF AutoExit, OwnedBy
  <2>3. pos'[s] = pos[s] /\ owner'[s] = owner[s]
    BY <1>9, <2>1, <2>2, SweepEffect DEF RowIs, DeskTypeOK, RowsTyped
  <2> QED
    BY <1>3, <2>3
<1>10. CASE SweepNext
  BY <1>3, <1>6, <1>7, <1>8, <1>9, <1>10
     DEF SweepNext, SweepTakes, CheckLiquidation, Recovers, NothingToDo, SweepLeaves, deskRow, deskGhosts
<1>11. ASSUME NEW opened \in SUBSET Symbol, DeskRestart(opened)
       PROVE  pos'[s].mode = "passive" /\ owner'[s] = "operator"
  BY <1>1, <1>11, RestartOwn
<1> QED
  BY <1>4, <1>5, <1>10, <1>11 DEF DeskNext

\* With nothing between the read of an exit and what is done about it, the loop
\* neither escalates nor stands down a passive exit the operator asked for.
THEOREM OperatorIsObeyed ==
    ASSUME NoLateMarks
    PROVE  DeskSpec => OperatorExitStands
<1> DEFINE Stands ==
        \A s \in Symbol :
            /\ pos[s].state = "EXITING" /\ pos[s].mode = "passive" /\ owner[s] = "operator"
            /\ at'["sw"] # at["sw"] /\ at["sw"].why # "liq" /\ restarts' = restarts
            => pos'[s].mode = "passive" /\ owner'[s] = "operator"
<1>1. DeskInit => OwnInv
  <2> SUFFICES ASSUME DeskInit PROVE OwnInv
    OBVIOUS
  <2>1. /\ at = [c \in Caller |-> AtRest] /\ owner = [s \in Symbol |-> "none"]
    BY DEF DeskInit
  <2>2. \A c \in Caller : at[c].pc = "idle" /\ at[c].why = "none"
    BY <2>1, AtRestType
  <2> QED
    BY <2>1, <2>2 DEF OwnInv, LeftAlone, Asked, RowInHand, Caller
<1>2. DeskTypeOK /\ OwnInv /\ [DeskNext]_deskVars => OwnInv'
  BY OwnNext
<1>3. DeskTypeOK /\ OwnInv /\ [DeskNext]_deskVars => Stands
  BY AskedStands DEF Asked
<1>4. DeskTypeOK /\ OwnInv /\ [DeskNext]_deskVars => [Stands]_deskVars
  BY <1>3
<1>5. [][Stands]_deskVars => OperatorExitStands
  BY DEF OperatorExitStands
<1> HIDE DEF Stands
<1> QED
  BY <1>1, <1>2, <1>4, <1>5, DeskTypes, PTL DEF DeskSpec

================================================================================
