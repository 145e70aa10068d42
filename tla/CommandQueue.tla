----------------------------- MODULE CommandQueue -----------------------------
(***************************************************************************)
(* The commands table (database.py) through which the control bot          *)
(* (control_bot.py) drives the engine (live_monitor.py).  The bot inserts  *)
(* rows and polls for their outcome; the engine's command loop takes a     *)
(* snapshot of the pending rows, expires the old ones, claims and executes *)
(* the others one at a time; a crash can fall between any two steps.       *)
(*                                                                         *)
(* The row's id is its insertion order.  Arguments, responses and pruning  *)
(* of week-old rows are left out.  A definition marked "Deviation" is a    *)
(* faulty variant of the one after it that no specification uses: putting  *)
(* it in that one's place makes a property below fail.                     *)
(***************************************************************************)
EXTENDS Integers, FiniteSets

CONSTANTS
    MaxCommands,    \* rows the operator ever inserts
    MaxTime,        \* the clock stops here (both processes use the host's)
    MaxCrashes,     \* engine crashes
    TTL,            \* config.COMMAND_TTL_SECONDS
    Wait            \* control_bot.COMMAND_WAIT_SECONDS

ASSUME QueueAssumption ==
    /\ MaxCommands \in Nat
    /\ MaxTime \in Nat
    /\ MaxCrashes \in Nat
    /\ TTL \in Nat
    /\ Wait \in Nat

VARIABLES
    now,        \* the host's clock
    status,     \* commands.status, "none" for a row not inserted yet
    born,       \* commands.created_ms
    begun,      \* how many times the engine has entered the handler (history)
    reply,      \* what the bot told the operator, or that it still waits
    up,         \* the engine process is running
    upSince,    \* when it was last started (history)
    batch,      \* ids of this drain's snapshot not yet looked at
    asOf,       \* now_ms, read once at the start of the drain
    current,    \* the command inside _handle_command, 0 for none
    crashes

engine == <<up, upSince, batch, asOf, current, crashes>>
vars == <<now, status, born, begun, reply, engine>>

Cmd == 1..MaxCommands
Terminal == {"done", "error", "expired"}
Statuses == {"none", "pending", "running"} \cup Terminal
Replies == {"none", "waiting", "gaveup"} \cup Terminal

\* The types of the table's columns and of the two processes' state.
QueueTypeOK ==
    /\ now \in Nat
    /\ status \in [Cmd -> Statuses]
    /\ born \in [Cmd -> Nat]
    /\ begun \in [Cmd -> Nat]
    /\ reply \in [Cmd -> Replies]
    /\ up \in BOOLEAN
    /\ upSince \in Nat
    /\ batch \subseteq Cmd
    /\ asOf \in Nat
    /\ current \in Cmd \cup {0}
    /\ crashes \in Nat

Init ==
    /\ now = 0
    /\ status = [c \in Cmd |-> "none"]
    /\ born = [c \in Cmd |-> 0]
    /\ begun = [c \in Cmd |-> 0]
    /\ reply = [c \in Cmd |-> "none"]
    /\ up = TRUE
    /\ upSince = 0
    /\ batch = {}
    /\ asOf = 0
    /\ current = 0
    /\ crashes = 0

-------------------------------------------------------------------------------
\* The control bot.

\* enqueue_command, from _queue_and_wait: the row appears as pending and the
\* bot starts waiting for its outcome.
Enqueue(c) ==
    /\ status[c] = "none"
    /\ \A d \in Cmd : d < c => status[d] # "none"
    /\ status' = [status EXCEPT ![c] = "pending"]
    /\ born' = [born EXCEPT ![c] = now]
    /\ reply' = [reply EXCEPT ![c] = "waiting"]
    /\ UNCHANGED <<now, begun, engine>>

\* Deviation: the bot takes "running" for success and stops waiting.
ReportAnyStatus(c) ==
    /\ reply[c] = "waiting"
    /\ now < born[c] + Wait
    /\ reply' = [reply EXCEPT ![c] =
                    IF status[c] = "pending" THEN "waiting"
                    ELSE IF status[c] = "running" THEN "done" ELSE status[c]]
    /\ UNCHANGED <<now, status, born, begun, engine>>

\* One turn of the bot's polling loop that finds a terminal status.
ReportOutcome(c) ==
    /\ reply[c] = "waiting"
    /\ now < born[c] + Wait
    /\ status[c] \in Terminal
    /\ reply' = [reply EXCEPT ![c] = status[c]]
    /\ UNCHANGED <<now, status, born, begun, engine>>

\* The polling loop reaches its deadline.
GiveUp(c) ==
    /\ reply[c] = "waiting"
    /\ now >= born[c] + Wait
    /\ reply' = [reply EXCEPT ![c] = "gaveup"]
    /\ UNCHANGED <<now, status, born, begun, engine>>

-------------------------------------------------------------------------------
\* The engine.

Pending == {c \in Cmd : status[c] = "pending"}

\* _drain_commands: read the clock and the pending rows.
BeginDrain ==
    /\ up
    /\ batch = {}
    /\ current = 0
    /\ Pending # {}
    /\ batch' = Pending
    /\ asOf' = now
    /\ UNCHANGED <<now, status, born, begun, reply, up, upSince, current, crashes>>

\* c is the row the for loop looks at now.
AtRow(c) ==
    /\ up
    /\ current = 0
    /\ c \in batch
    /\ \A d \in batch : c <= d

\* A row older than the TTL, by the clock read when the drain began.
Expire(c) ==
    /\ AtRow(c)
    /\ asOf - born[c] > TTL
    /\ status' = [status EXCEPT ![c] = "expired"]
    /\ batch' = batch \ {c}
    /\ UNCHANGED <<now, born, begun, reply, up, upSince, asOf, current, crashes>>

\* Deviation: the age of the row is not looked at.
ClaimWithoutTTL(c) ==
    /\ AtRow(c)
    /\ batch' = batch \ {c}
    /\ status' = [status EXCEPT ![c] = "running"]
    /\ begun' = [begun EXCEPT ![c] = @ + 1]
    /\ current' = c
    /\ UNCHANGED <<now, born, reply, up, upSince, asOf, crashes>>

\* Deviation: the handler runs on a row that is still pending.
ExecuteUnclaimed(c) ==
    /\ AtRow(c)
    /\ asOf - born[c] <= TTL
    /\ batch' = batch \ {c}
    /\ begun' = [begun EXCEPT ![c] = @ + 1]
    /\ current' = c
    /\ UNCHANGED <<now, status, born, reply, up, upSince, asOf, crashes>>

\* claim_command, a conditional UPDATE, then the call of the handler.
Claim(c) ==
    /\ AtRow(c)
    /\ asOf - born[c] <= TTL
    /\ batch' = batch \ {c}
    /\ IF status[c] = "pending"
       THEN /\ status' = [status EXCEPT ![c] = "running"]
            /\ begun' = [begun EXCEPT ![c] = @ + 1]
            /\ current' = c
       ELSE UNCHANGED <<status, begun, current>>
    /\ UNCHANGED <<now, born, reply, up, upSince, asOf, crashes>>

\* The handler returns, or raised and was turned into an error text: either
\* way the row is resolved as done.
Resolve(c) ==
    /\ up
    /\ current = c
    /\ status' = [status EXCEPT ![c] = "done"]
    /\ current' = 0
    /\ UNCHANGED <<now, born, begun, reply, up, upSince, batch, asOf, crashes>>

Crash ==
    /\ up
    /\ crashes < MaxCrashes
    /\ up' = FALSE
    /\ batch' = {}
    /\ current' = 0
    /\ crashes' = crashes + 1
    /\ UNCHANGED <<now, status, born, begun, reply, upSince, asOf>>

\* Deviation: rows left running are queued again.
RestartRequeueing ==
    /\ ~up
    /\ up' = TRUE
    /\ upSince' = now
    /\ status' = [c \in Cmd |-> IF status[c] = "running" THEN "pending" ELSE status[c]]
    /\ UNCHANGED <<now, born, begun, reply, batch, asOf, current, crashes>>

\* Deviation: rows left running stay so.
RestartForgetting ==
    /\ ~up
    /\ up' = TRUE
    /\ upSince' = now
    /\ UNCHANGED <<now, status, born, begun, reply, batch, asOf, current, crashes>>

\* Engine.start: abandon_running_commands, before any loop runs.
Restart ==
    /\ ~up
    /\ up' = TRUE
    /\ upSince' = now
    /\ status' = [c \in Cmd |-> IF status[c] = "running" THEN "error" ELSE status[c]]
    /\ UNCHANGED <<now, born, begun, reply, batch, asOf, current, crashes>>

Tick ==
    /\ now < MaxTime
    /\ now' = now + 1
    /\ UNCHANGED <<status, born, begun, reply, engine>>

-------------------------------------------------------------------------------
Drain == BeginDrain \/ \E c \in Cmd : Expire(c) \/ Claim(c)

Next ==
    \/ \E c \in Cmd : Enqueue(c) \/ ReportOutcome(c) \/ GiveUp(c)
    \/ \E c \in Cmd : Expire(c) \/ Claim(c) \/ Resolve(c)
    \/ BeginDrain
    \/ Crash
    \/ Restart
    \/ Tick

Spec == Init /\ [][Next]_vars

\* The command loop wakes every COMMAND_POLL_SECONDS, a handler's venue calls
\* time out, systemd restarts a failed engine (Restart=on-failure), and the
\* bot's polling loop runs until its deadline.  Enqueue and Crash are left
\* free, and the clock goes on until the model's horizon.
Fairness ==
    /\ WF_vars(Drain)
    /\ WF_vars(\E c \in Cmd : Resolve(c))
    /\ WF_vars(Restart)
    /\ WF_vars(Tick)
    /\ \A c \in Cmd : WF_vars(ReportOutcome(c) \/ GiveUp(c))

FairSpec == Spec /\ Fairness

-------------------------------------------------------------------------------
\* A command is handed to its handler at most once, whatever crashes and
\* restarts fall between claiming the row, executing it and resolving it
\* ("Claim before executing so a crash mid-command can't replay it").
AtMostOnce == \A c \in Cmd : begun[c] <= 1

\* Commands leave the queue in the order the operator sent them: when one has
\* been taken up or expired, no older one is still pending, across drains,
\* crashes and rows inserted while a drain is under way.
InOrder ==
    \A c, d \in Cmd : c < d /\ status[d] \notin {"none", "pending"}
                            => status[c] # "pending"

\* What the bot told the operator is what became of the command: the outcome
\* it read never changes afterwards, not even by the sweep of a restart.
ReplyIsFinal ==
    \A c \in Cmd : reply[c] \in Terminal => status[c] = reply[c]

\* A command the engine was down for is not carried out when it comes back
\* more than the TTL later: a handler starts only if the engine has been up
\* since at most TTL after the command was sent.
NoExecutionAfterOutage ==
    [][\A c \in Cmd : begun'[c] # begun[c] => upSince - born[c] <= TTL]_vars

\* "Drop queued Telegram commands older than this before executing them"
\* (config.py): no handler starts on a command older than the TTL.
NoStaleExecution ==
    [][\A c \in Cmd : begun'[c] # begun[c] => now - born[c] <= TTL]_vars

\* Every command sent is resolved in the end: done, expired, or failed by the
\* restart that found it running.
EveryCommandSettles ==
    \A c \in Cmd : status[c] = "pending" ~> status[c] \in Terminal

\* The table implements the at-most-once, in-order life cycle.
PhaseOf(s) ==
    CASE s = "none"    -> "unsent"
      [] s = "pending" -> "queued"
      [] s = "running" -> "running"
      [] s = "done"    -> "finished"
      [] s = "error"   -> "lost"
      [] s = "expired" -> "dropped"

lifePhase == [c \in Cmd |-> PhaseOf(status[c])]

Life == INSTANCE CommandLifecycle WITH phase <- lifePhase
ImplementsLifecycle == Life!LifecycleSpec
===============================================================================
