--------------------------- MODULE CommandLifecycle ---------------------------
(***************************************************************************)
(* What the command channel between the Telegram control bot and the       *)
(* trading engine promises, with the table, the clock and the processes    *)
(* left out: every command the bot sends is carried out at most once, in   *)
(* the order sent, or dropped; a command whose execution was interrupted   *)
(* is reported lost and is not tried again.                                *)
(***************************************************************************)
EXTENDS Integers

CONSTANT MaxCommands    \* how many commands the operator sends

VARIABLE phase          \* phase[c]: where command c is in its life

Cmd == 1..MaxCommands
Phases == {"unsent", "queued", "running", "finished", "lost", "dropped"}
Over == {"finished", "lost", "dropped"}

LifecycleInit == phase = [c \in Cmd |-> "unsent"]

MoveTo(c, from, to) ==
    /\ phase[c] = from
    /\ phase' = [phase EXCEPT ![c] = to]

\* Commands are sent in order, and taken up in order.
Send(c) ==
    /\ \A d \in Cmd : d < c => phase[d] # "unsent"
    /\ MoveTo(c, "unsent", "queued")

\* c is the oldest command still queued.
OldestQueued(c) == \A d \in Cmd : d < c => phase[d] # "queued"

TakeUp(c) ==
    /\ OldestQueued(c)
    /\ \A d \in Cmd : phase[d] # "running"
    /\ MoveTo(c, "queued", "running")

Drop(c)   == OldestQueued(c) /\ MoveTo(c, "queued", "dropped")
Finish(c) == MoveTo(c, "running", "finished")
Lose(c)   == MoveTo(c, "running", "lost")

LifecycleNext ==
    \E c \in Cmd : Send(c) \/ TakeUp(c) \/ Drop(c) \/ Finish(c) \/ Lose(c)

LifecycleSpec == LifecycleInit /\ [][LifecycleNext]_phase
===============================================================================
