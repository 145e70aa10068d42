----------------------------------- MODULE Bot -----------------------------------
(***************************************************************************)
(* The control bot's loop over Telegram updates (control_bot.py).  The bot *)
(* fetches every update Telegram has not seen confirmed, moves its offset  *)
(* past the batch, and handles the batch one update at a time: it runs the *)
(* command, then sends the reply.  Telegram forgets an update only when a  *)
(* later fetch names a higher offset; the offset itself is in memory only. *)
(* What a command does to the engine is CommandQueue's concern.            *)
(***************************************************************************)
EXTENDS Integers, Sequences

CONSTANTS
    MaxUpdates,  \* updates that ever arrive
    MaxKills,    \* times the process is killed
    BotFaults    \* which of BotFaultKinds may happen

BotFaultKinds ==
    {"send_fails",  \* sendMessage raises: a timeout, a dropped connection
     "dies"}        \* the process dies on its own, between any two steps

ASSUME BotAssumption == BotFaults \subseteq BotFaultKinds /\ MaxUpdates \in Nat /\ MaxKills \in Nat

\* A command; an edit, another chat's message or plain text; /update, which
\* restarts the bot some seconds after its reply.
UpdateKinds == {"command", "ignored", "update"}

VARIABLES
    inbox,      \* Telegram: the kinds of the updates so far, by update_id
    confirmed,  \* Telegram: updates up to here are gone
    offset,     \* _offset: the highest update_id fetched, 0 in a new process
    todo,       \* the update the loop is at; the batch is todo..offset
    owed,       \* a command has run and its reply is not sent yet
    doomed,     \* the detached restart of /update is on its way
    ran,        \* how often each update's command was run (history)
    kills

botVars == <<inbox, confirmed, offset, todo, owed, doomed, ran, kills>>

BotInit ==
    /\ inbox = <<>> /\ ran = <<>> /\ confirmed = 0 /\ kills = 0
    /\ offset = 0 /\ todo = 1 /\ owed = FALSE /\ doomed = FALSE

Acts(u) == inbox[u] # "ignored"

Arrive(kind) ==
    /\ Len(inbox) < MaxUpdates
    /\ inbox' = Append(inbox, kind) /\ ran' = Append(ran, 0)
    /\ UNCHANGED <<confirmed, offset, todo, owed, doomed, kills>>

\* getUpdates(offset + 1) confirms what came before, and returns the rest; an
\* answer that is lost has confirmed all the same.
GetUpdates(lost) ==
    LET gone == IF offset > confirmed THEN offset ELSE confirmed IN
    /\ todo > offset /\ ~owed
    /\ confirmed' = gone
    /\ IF lost \/ gone = Len(inbox) THEN UNCHANGED <<offset, todo>>
       ELSE offset' = Len(inbox) /\ todo' = gone + 1
    /\ UNCHANGED <<inbox, owed, doomed, ran, kills>>

\* _handle_update, up to the reply.
Dispatch ==
    /\ todo <= offset /\ ~owed
    /\ IF Acts(todo)
       THEN /\ owed' = TRUE /\ UNCHANGED todo
            /\ ran' = [ran EXCEPT ![todo] = @ + 1]
            /\ \/ UNCHANGED doomed                               \* git pull failed, or no /update
               \/ inbox[todo] = "update" /\ doomed' = TRUE
       ELSE todo' = todo + 1 /\ UNCHANGED <<owed, doomed, ran>>
    /\ UNCHANGED <<inbox, confirmed, offset, kills>>

\* _send; an exception leaves the for loop, and the batch with it.
Reply(fails) ==
    /\ owed /\ owed' = FALSE
    /\ fails => "send_fails" \in BotFaults
    /\ todo' = IF fails THEN offset + 1 ELSE todo + 1
    /\ UNCHANGED <<inbox, confirmed, offset, doomed, ran, kills>>

Killed == (doomed \/ "dies" \in BotFaults) /\ kills < MaxKills /\ kills' = kills + 1

\* Deviation: the offset is saved when a batch is fetched, and loaded at start.
KillKeepingOffset ==
    /\ Killed
    /\ todo' = offset + 1 /\ owed' = FALSE /\ doomed' = FALSE
    /\ UNCHANGED <<inbox, confirmed, offset, ran>>

\* The process is killed and started again.
Kill ==
    /\ Killed
    /\ offset' = 0 /\ todo' = 1 /\ owed' = FALSE /\ doomed' = FALSE
    /\ UNCHANGED <<inbox, confirmed, ran>>

BotNext ==
    \/ \E kind \in UpdateKinds : Arrive(kind)
    \/ \E lost \in BOOLEAN : GetUpdates(lost)
    \/ Dispatch
    \/ \E fails \in BOOLEAN : Reply(fails)
    \/ Kill

BotSpec == BotInit /\ [][BotNext]_botVars

-------------------------------------------------------------------------------
\* Whatever kills the bot, and whenever, Telegram only forgets commands that were
\* run: moving the offset ahead of the batch loses none of it, because a new
\* process starts from Telegram's confirmation and not from the offset.
ConfirmedIsRun == \A u \in 1..confirmed : Acts(u) => ran[u] > 0
================================================================================
