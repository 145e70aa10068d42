-------------------------- MODULE CommandQueueProofs --------------------------
(***************************************************************************)
(* Proofs, for every number of commands and crashes and every TTL, that    *)
(* the commands table keeps its promises: at most once, in order, final    *)
(* replies, the life cycle of CommandLifecycle, and nothing carried out    *)
(* after an outage longer than the TTL.                                    *)
(***************************************************************************)
EXTENDS CommandQueue, TLAPS

\* A row has been handed to the handler exactly when it has been claimed.
ClaimedOnce ==
    \A c \in Cmd : /\ begun[c] <= 1
                   /\ status[c] \in {"none", "pending"} => begun[c] = 0

\* The engine's memory agrees with the table: the rows of the snapshot it has
\* not reached are pending, the command it executes is the only running one.
MemoryAgrees ==
    /\ \A c \in batch : status[c] = "pending"
    /\ current # 0 => status[current] = "running"
    /\ up => \A c \in Cmd : status[c] = "running" => c = current
    /\ \A c, d \in Cmd : status[c] = "running" /\ status[d] = "running" => c = d
    /\ ~up => batch = {} /\ current = 0

\* Rows are inserted in id order, and a row newer than the snapshot has a
\* larger id than every row of it.
Ordered ==
    /\ \A c, d \in Cmd : c < d /\ status[d] # "none" => status[c] # "none"
    /\ \A c \in batch, d \in Cmd \ batch : status[d] = "pending" => c < d

QueueInv ==
    /\ QueueTypeOK
    /\ ClaimedOnce
    /\ MemoryAgrees
    /\ Ordered
    /\ InOrder
    /\ ReplyIsFinal

\* The initial table satisfies the inductive invariant.
LEMMA QueueInvInit == Init => QueueInv
  BY QueueAssumption
  DEF Init, QueueInv, QueueTypeOK, ClaimedOnce, MemoryAgrees, Ordered, InOrder,
      ReplyIsFinal, Cmd, Statuses, Replies, Terminal

\* Every step of the bot, the engine, the clock and of a crash preserves it.
LEMMA QueueInvStep == QueueInv /\ [Next]_vars => QueueInv'
<1> SUFFICES ASSUME QueueInv, [Next]_vars PROVE QueueInv'
  OBVIOUS
<1> USE QueueAssumption DEF Cmd, Statuses, Replies, Terminal, engine
<1>1. ASSUME NEW c \in Cmd, Enqueue(c) PROVE QueueInv'
  <2>1. /\ status[c] = "none" /\ \A d \in Cmd : d < c => status[d] # "none"
        /\ status' = [status EXCEPT ![c] = "pending"]
        /\ born' = [born EXCEPT ![c] = now]
        /\ reply' = [reply EXCEPT ![c] = "waiting"]
        /\ UNCHANGED <<now, begun, up, upSince, batch, current, asOf, crashes>>
    BY <1>1 DEF Enqueue
  <2>2. QueueTypeOK'
    BY <2>1 DEF QueueInv, QueueTypeOK
  <2>3. ClaimedOnce'
    BY <2>1 DEF QueueInv, QueueTypeOK, ClaimedOnce
  <2>4. MemoryAgrees'
    BY <2>1 DEF QueueInv, QueueTypeOK, MemoryAgrees
  <2>5. Ordered'
    BY <2>1, SMTT(30) DEF QueueInv, QueueTypeOK, MemoryAgrees, Ordered
  <2>6. InOrder'
    BY <2>1 DEF QueueInv, QueueTypeOK, Ordered, InOrder
  <2>7. ReplyIsFinal'
    BY <2>1 DEF QueueInv, QueueTypeOK, ReplyIsFinal
  <2> QED
    BY <2>2, <2>3, <2>4, <2>5, <2>6, <2>7 DEF QueueInv
<1>2. ASSUME NEW c \in Cmd, ReportOutcome(c) PROVE QueueInv'
  BY <1>2 DEF ReportOutcome, QueueInv, QueueTypeOK, ClaimedOnce, MemoryAgrees, Ordered, InOrder,
      ReplyIsFinal
<1>3. ASSUME NEW c \in Cmd, GiveUp(c) PROVE QueueInv'
  BY <1>3 DEF GiveUp, QueueInv, QueueTypeOK, ClaimedOnce, MemoryAgrees, Ordered, InOrder,
      ReplyIsFinal
<1>4. ASSUME NEW c \in Cmd, Expire(c) PROVE QueueInv'
  <2>1. QueueTypeOK'
    BY <1>4 DEF Expire, AtRow, QueueInv, QueueTypeOK
  <2>2. ClaimedOnce'
    BY <1>4 DEF Expire, AtRow, QueueInv, QueueTypeOK, ClaimedOnce, MemoryAgrees
  <2>3. MemoryAgrees'
    BY <1>4 DEF Expire, AtRow, QueueInv, QueueTypeOK, MemoryAgrees
  <2>4. Ordered'
    BY <1>4, SMTT(30) DEF Expire, AtRow, QueueInv, QueueTypeOK, MemoryAgrees, Ordered
  <2>5. InOrder'
    BY <1>4 DEF Expire, AtRow, QueueInv, QueueTypeOK, MemoryAgrees, Ordered, InOrder
  <2>6. ReplyIsFinal'
    BY <1>4 DEF Expire, AtRow, QueueInv, QueueTypeOK, MemoryAgrees, ReplyIsFinal
  <2> QED
    BY <2>1, <2>2, <2>3, <2>4, <2>5, <2>6 DEF QueueInv
<1>5. ASSUME NEW c \in Cmd, Claim(c) PROVE QueueInv'
  <2>1. /\ up /\ current = 0 /\ c \in batch /\ \A d \in batch : c <= d
        /\ status[c] = "pending"
    BY <1>5 DEF Claim, AtRow, QueueInv, MemoryAgrees
  <2>2. /\ batch' = batch \ {c}
        /\ status' = [status EXCEPT ![c] = "running"]
        /\ begun' = [begun EXCEPT ![c] = @ + 1]
        /\ current' = c
        /\ UNCHANGED <<now, born, reply, up, upSince, asOf, crashes>>
    BY <1>5, <2>1 DEF Claim
  <2>3. QueueTypeOK'
    BY <2>1, <2>2 DEF QueueInv, QueueTypeOK
  <2>4. ClaimedOnce'
    BY <2>1, <2>2 DEF QueueInv, QueueTypeOK, ClaimedOnce
  <2>5. MemoryAgrees'
    BY <2>1, <2>2 DEF QueueInv, QueueTypeOK, MemoryAgrees
  <2>6. Ordered'
    BY <2>1, <2>2 DEF QueueInv, QueueTypeOK, Ordered
  <2>7. InOrder'
    BY <2>1, <2>2 DEF QueueInv, QueueTypeOK, Ordered, InOrder
  <2>8. ReplyIsFinal'
    BY <2>1, <2>2 DEF QueueInv, QueueTypeOK, ReplyIsFinal
  <2> QED
    BY <2>3, <2>4, <2>5, <2>6, <2>7, <2>8 DEF QueueInv
<1>6. ASSUME NEW c \in Cmd, Resolve(c) PROVE QueueInv'
  <2>1. /\ up /\ current = c /\ status[c] = "running"
        /\ status' = [status EXCEPT ![c] = "done"]
        /\ current' = 0
        /\ UNCHANGED <<now, born, begun, reply, up, upSince, batch, asOf, crashes>>
    BY <1>6 DEF Resolve, QueueInv, MemoryAgrees
  <2>2. QueueTypeOK'
    BY <2>1 DEF QueueInv, QueueTypeOK
  <2>3. ClaimedOnce'
    BY <2>1 DEF QueueInv, QueueTypeOK, ClaimedOnce
  <2>4. MemoryAgrees'
    BY <2>1 DEF QueueInv, QueueTypeOK, MemoryAgrees
  <2>5. Ordered'
    BY <2>1 DEF QueueInv, QueueTypeOK, Ordered
  <2>6. InOrder'
    BY <2>1 DEF QueueInv, QueueTypeOK, InOrder
  <2>7. ReplyIsFinal'
    BY <2>1 DEF QueueInv, QueueTypeOK, ReplyIsFinal
  <2> QED
    BY <2>2, <2>3, <2>4, <2>5, <2>6, <2>7 DEF QueueInv
<1>7. CASE BeginDrain
  BY <1>7 DEF BeginDrain, Pending, QueueInv, QueueTypeOK, ClaimedOnce, MemoryAgrees, Ordered, InOrder,
      ReplyIsFinal
<1>8. CASE Crash
  <2>1. UNCHANGED <<status, born, begun, reply>> /\ batch' = {} /\ current' = 0
    BY <1>8 DEF Crash
  <2>2. QueueTypeOK'
    <3>1. up' \in BOOLEAN
      BY <1>8 DEF Crash
    <3>2. crashes' \in Nat /\ UNCHANGED <<now, upSince, asOf>>
      BY <1>8 DEF Crash, QueueInv, QueueTypeOK
    <3> QED
      BY <2>1, <3>1, <3>2 DEF QueueInv, QueueTypeOK
  <2>3. MemoryAgrees' /\ Ordered'
    BY <1>8, <2>1 DEF Crash, QueueInv, MemoryAgrees, Ordered
  <2>4. ClaimedOnce' /\ InOrder' /\ ReplyIsFinal'
    BY <2>1 DEF QueueInv, ClaimedOnce, InOrder, ReplyIsFinal
  <2> QED
    BY <2>2, <2>3, <2>4 DEF QueueInv
<1>9. CASE Restart
  BY <1>9 DEF Restart, QueueInv, QueueTypeOK, ClaimedOnce, MemoryAgrees, Ordered, InOrder,
      ReplyIsFinal
<1>10. CASE Tick
  BY <1>10 DEF Tick, QueueInv, QueueTypeOK, ClaimedOnce, MemoryAgrees, Ordered, InOrder,
      ReplyIsFinal
<1>11. CASE UNCHANGED vars
  BY <1>11 DEF vars, QueueInv, QueueTypeOK, ClaimedOnce, MemoryAgrees, Ordered, InOrder,
      ReplyIsFinal
<1> QED
  BY <1>1, <1>2, <1>3, <1>4, <1>5, <1>6, <1>7, <1>8, <1>9, <1>10, <1>11 DEF Next

\* The inductive invariant holds in every behaviour of the queue.
THEOREM QueueInvariance == Spec => []QueueInv
  BY QueueInvInit, QueueInvStep, PTL DEF Spec

\* No command is handed to its handler twice.
THEOREM CommandsRunAtMostOnce == Spec => []AtMostOnce
<1>1. QueueInv => AtMostOnce
  BY DEF QueueInv, ClaimedOnce, AtMostOnce
<1> QED
  BY <1>1, QueueInvariance, PTL

\* Commands leave the queue in the order they were sent.
THEOREM CommandsLeaveInOrder == Spec => []InOrder
<1>1. QueueInv => InOrder
  BY DEF QueueInv
<1> QED
  BY <1>1, QueueInvariance, PTL

\* What the bot reports is what became of the command.
THEOREM RepliesAreFinal == Spec => []ReplyIsFinal
<1>1. QueueInv => ReplyIsFinal
  BY DEF QueueInv
<1> QED
  BY <1>1, QueueInvariance, PTL

\* The phase of each status, and of a status that is none of the six.
LEMMA Phases == /\ PhaseOf("none") = "unsent"
                /\ PhaseOf("pending") = "queued"
                /\ PhaseOf("running") = "running"
                /\ PhaseOf("done") = "finished"
                /\ PhaseOf("error") = "lost"
                /\ PhaseOf("expired") = "dropped"
  BY DEF PhaseOf

\* Changing one status changes that command's phase and no other.
LEMMA PhaseMoves ==
  ASSUME NEW c \in Cmd, NEW s \in Statuses, status \in [Cmd -> Statuses],
         status' = [status EXCEPT ![c] = s]
  PROVE  lifePhase' = [lifePhase EXCEPT ![c] = PhaseOf(s)]
<1>1. \A d \in Cmd : d # c => status'[d] = status[d]
  OBVIOUS
<1>2. status'[c] = s
  OBVIOUS
<1>3. lifePhase' = [d \in Cmd |-> IF d = c THEN PhaseOf(s) ELSE PhaseOf(status[d])]
  BY <1>1, <1>2 DEF lifePhase
<1> QED
  BY <1>3 DEF lifePhase

\* A step of the table is a step of the abstract life cycle, or none.
LEMMA StepImplementsLife == QueueInv /\ [Next]_vars => [Life!LifecycleNext]_lifePhase
<1> SUFFICES ASSUME QueueInv, [Next]_vars PROVE [Life!LifecycleNext]_lifePhase
  OBVIOUS
<1>0. /\ status \in [Cmd -> Statuses]
      /\ \A c \in Cmd : lifePhase[c] = PhaseOf(status[c])
      /\ \A c \in Cmd : status[c] # "none" => lifePhase[c] # "unsent"
      /\ \A c \in Cmd : status[c] # "pending" => lifePhase[c] # "queued"
      /\ \A c \in Cmd : status[c] # "running" => lifePhase[c] # "running"
  <2>1. status \in [Cmd -> Statuses]
    BY DEF QueueInv, QueueTypeOK
  <2>2. \A c \in Cmd : lifePhase[c] = PhaseOf(status[c])
    BY DEF lifePhase
  <2>3. \A c \in Cmd : status[c] \in {"none", "pending", "running", "done", "error", "expired"}
    BY <2>1 DEF Statuses, Terminal
  <2> QED
    BY <2>1, <2>2, <2>3, Phases
<1>1. ASSUME NEW c \in Cmd, Enqueue(c) PROVE Life!Send(c)
  <2>1. lifePhase' = [lifePhase EXCEPT ![c] = "queued"]
    <3>1. status' = [status EXCEPT ![c] = "pending"] /\ "pending" \in Statuses
      BY <1>1 DEF Enqueue, Statuses, Terminal
    <3>2. lifePhase' = [lifePhase EXCEPT ![c] = PhaseOf("pending")]
      BY <1>0, <3>1, PhaseMoves
    <3> QED
      BY <3>2, Phases
  <2> QED
    BY <1>0, <1>1, <2>1, Phases DEF Enqueue, Life!Send, Life!MoveTo, Life!Cmd, Cmd
<1>2. ASSUME NEW c \in Cmd, Expire(c) PROVE Life!Drop(c)
  <2>1. lifePhase' = [lifePhase EXCEPT ![c] = "dropped"]
    <3>1. status' = [status EXCEPT ![c] = "expired"] /\ "expired" \in Statuses
      BY <1>2 DEF Expire, Statuses, Terminal
    <3>2. lifePhase' = [lifePhase EXCEPT ![c] = PhaseOf("expired")]
      BY <1>0, <3>1, PhaseMoves
    <3> QED
      BY <3>2, Phases
  <2>2. status[c] = "pending" /\ \A d \in Cmd : d < c => status[d] # "pending"
    BY <1>2 DEF Expire, AtRow, QueueInv, QueueTypeOK, MemoryAgrees, Ordered, Cmd
  <2> QED
    BY <1>0, <2>1, <2>2, Phases
    DEF Life!Drop, Life!MoveTo, Life!OldestQueued, Life!Cmd, Cmd
<1>3. ASSUME NEW c \in Cmd, Claim(c) PROVE Life!TakeUp(c)
  <2>1. status[c] = "pending" /\ up /\ current = 0
    BY <1>3 DEF Claim, AtRow, QueueInv, MemoryAgrees
  <2>2. lifePhase' = [lifePhase EXCEPT ![c] = "running"]
    <3>1. status' = [status EXCEPT ![c] = "running"] /\ "running" \in Statuses
      BY <1>3, <2>1 DEF Claim, Statuses, Terminal
    <3>2. lifePhase' = [lifePhase EXCEPT ![c] = PhaseOf("running")]
      BY <1>0, <3>1, PhaseMoves
    <3> QED
      BY <3>2, Phases
  <2>3. \A d \in Cmd : d < c => status[d] # "pending"
    BY <1>3 DEF Claim, AtRow, QueueInv, QueueTypeOK, Ordered, Cmd
  <2>4. \A d \in Cmd : status[d] # "running"
    BY <2>1 DEF QueueInv, MemoryAgrees, Cmd
  <2> QED
    BY <1>0, <2>1, <2>2, <2>3, <2>4, Phases
    DEF Life!TakeUp, Life!MoveTo, Life!OldestQueued, Life!Cmd, Cmd
<1>4. ASSUME NEW c \in Cmd, Resolve(c) PROVE Life!Finish(c)
  <2>1. status[c] = "running"
    BY <1>4 DEF Resolve, QueueInv, MemoryAgrees, Cmd
  <2>2. lifePhase' = [lifePhase EXCEPT ![c] = "finished"]
    <3>1. status' = [status EXCEPT ![c] = "done"] /\ "done" \in Statuses
      BY <1>4 DEF Resolve, Statuses, Terminal
    <3>2. lifePhase' = [lifePhase EXCEPT ![c] = PhaseOf("done")]
      BY <1>0, <3>1, PhaseMoves
    <3> QED
      BY <3>2, Phases
  <2> QED
    BY <1>0, <2>1, <2>2, Phases DEF Life!Finish, Life!MoveTo
<1>5. CASE Restart
  <2>1. CASE \E c \in Cmd : status[c] = "running"
    <3>1. PICK c \in Cmd : status[c] = "running"
      BY <2>1
    <3>2. \A d \in Cmd : status[d] = "running" => d = c
      BY <3>1 DEF QueueInv, MemoryAgrees
    <3>3. status' = [status EXCEPT ![c] = "error"]
      BY <1>0, <1>5, <3>1, <3>2 DEF Restart
    <3>4. lifePhase' = [lifePhase EXCEPT ![c] = "lost"]
      <4>1. "error" \in Statuses
        BY DEF Statuses, Terminal
      <4>2. lifePhase' = [lifePhase EXCEPT ![c] = PhaseOf("error")]
        BY <1>0, <3>3, <4>1, PhaseMoves
      <4> QED
        BY <4>2, Phases
    <3>5. Life!Lose(c)
      BY <1>0, <3>1, <3>4, Phases DEF Life!Lose, Life!MoveTo
    <3> QED
      BY <3>5 DEF Life!LifecycleNext, Life!Cmd, Cmd
  <2>2. CASE \A c \in Cmd : status[c] # "running"
    <3>1. status' = status
      BY <1>0, <1>5, <2>2 DEF Restart
    <3> QED
      BY <3>1 DEF lifePhase
  <2> QED
    BY <2>1, <2>2
<1>6. UNCHANGED status => UNCHANGED lifePhase
  BY DEF lifePhase
<1>7. ASSUME NEW c \in Cmd, ReportOutcome(c) \/ GiveUp(c) PROVE UNCHANGED status
  BY <1>7 DEF ReportOutcome, GiveUp
<1>8. CASE BeginDrain \/ Crash \/ Tick \/ UNCHANGED vars
  BY <1>8, <1>6 DEF BeginDrain, Crash, Tick, vars
<1> QED
  BY <1>1, <1>2, <1>3, <1>4, <1>5, <1>6, <1>7, <1>8
  DEF Next, Life!LifecycleNext, Life!Cmd, Cmd

\* The table implements the life cycle: every behaviour of the queue, seen
\* through the status column, is a behaviour of CommandLifecycle.
THEOREM QueueImplementsLifecycle == Spec => ImplementsLifecycle
<1>1. Init => Life!LifecycleInit
  <2>1. Init => \A c \in Cmd : PhaseOf(status[c]) = "unsent"
    BY Phases DEF Init
  <2> QED
    BY <2>1 DEF Life!LifecycleInit, lifePhase, Cmd, Life!Cmd
<1> QED
  BY <1>1, QueueInvariance, StepImplementsLife, PTL
  DEF Spec, ImplementsLifecycle, Life!LifecycleSpec

-------------------------------------------------------------------------------
\* A drain under way began after the engine came up, and read the clock then.
DrainSinceUp ==
    /\ upSince <= now
    /\ batch # {} => upSince <= asOf

\* Every step keeps it: a crash and a restart leave no snapshot behind.
LEMMA DrainSinceUpStep == QueueInv /\ DrainSinceUp /\ [Next]_vars => DrainSinceUp'
<1> SUFFICES ASSUME QueueInv, DrainSinceUp, [Next]_vars PROVE DrainSinceUp'
  OBVIOUS
<1>0. now \in Nat /\ upSince \in Nat /\ asOf \in Nat /\ batch \subseteq Cmd
  BY DEF QueueInv, QueueTypeOK
<1>1. ASSUME NEW c \in Cmd, Enqueue(c) \/ ReportOutcome(c) \/ GiveUp(c) PROVE DrainSinceUp'
  BY <1>1 DEF Enqueue, ReportOutcome, GiveUp, engine, DrainSinceUp
<1>2. ASSUME NEW c \in Cmd, Expire(c) \/ Claim(c) \/ Resolve(c) PROVE DrainSinceUp'
  <2>1. UNCHANGED <<now, upSince, asOf>> /\ (batch' = batch \/ batch' = batch \ {c})
    BY <1>2 DEF Expire, Claim, Resolve
  <2> QED
    BY <2>1 DEF DrainSinceUp
<1>3. CASE BeginDrain
  BY <1>0, <1>3 DEF BeginDrain, DrainSinceUp
<1>4. CASE Crash
  BY <1>4 DEF Crash, DrainSinceUp
<1>5. CASE Restart
  <2>1. batch = {}
    BY <1>5 DEF Restart, QueueInv, MemoryAgrees
  <2> QED
    BY <2>1, <1>0, <1>5 DEF Restart, DrainSinceUp
<1>6. CASE Tick
  BY <1>0, <1>6 DEF Tick, engine, DrainSinceUp
<1>7. CASE UNCHANGED vars
  BY <1>7 DEF vars, engine, DrainSinceUp
<1> QED
  BY <1>1, <1>2, <1>3, <1>4, <1>5, <1>6, <1>7 DEF Next

\* A handler starts only by a claim, on a row whose age the drain looked at.
LEMMA ClaimedInTime ==
    QueueInv /\ DrainSinceUp /\ [Next]_vars
        => \A c \in Cmd : begun'[c] # begun[c] => upSince - born[c] <= TTL
<1> SUFFICES ASSUME QueueInv, DrainSinceUp, [Next]_vars, NEW c \in Cmd, begun'[c] # begun[c]
             PROVE  upSince - born[c] <= TTL
  OBVIOUS
<1>0. upSince \in Nat /\ asOf \in Nat /\ born \in [Cmd -> Nat] /\ begun \in [Cmd -> Nat]
  BY DEF QueueInv, QueueTypeOK
<1>1. PICK d \in Cmd : Claim(d)
  BY DEF Next, Enqueue, ReportOutcome, GiveUp, Expire, Resolve, BeginDrain, Crash, Restart,
         Tick, vars
<1>2. d \in batch /\ asOf - born[d] <= TTL
  BY <1>1 DEF Claim, AtRow
<1>3. d = c
  BY <1>0, <1>1 DEF Claim
<1>4. upSince <= asOf
  BY <1>2 DEF DrainSinceUp
<1> QED
  BY <1>0, <1>2, <1>3, <1>4, QueueAssumption

\* What the operator sent while the engine was down is not carried out when the
\* outage lasted longer than the TTL, for any number of outages: a row that has
\* waited for the restart is as old in the drain's clock as it was then, or older.
THEOREM OutageExpiresCommands == Spec => NoExecutionAfterOutage
<1>1. Init => DrainSinceUp
  BY DEF Init, DrainSinceUp
<1>2. Spec => [](QueueInv /\ DrainSinceUp)
  BY <1>1, DrainSinceUpStep, QueueInvariance, PTL DEF Spec
<1> QED
  BY <1>2, ClaimedInTime, PTL DEF Spec, NoExecutionAfterOutage

================================================================================
