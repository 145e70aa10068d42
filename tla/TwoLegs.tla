-------------------------------- MODULE TwoLegs --------------------------------
(***************************************************************************)
(* What an entry promises to whoever looks at the account only: how much   *)
(* perp is short, how much spot is held, whether somebody is at work on    *)
(* the position, and whether the operator was told that the legs may       *)
(* differ.  The account trades only while somebody is at work, sells no    *)
(* more than the runs so far were started for, never holds more spot than  *)
(* perp, and is left alone only when the legs are equal or the operator    *)
(* knows.                                                                  *)
(***************************************************************************)
EXTENDS Integers

CONSTANT Size   \* what a run sets out to sell

VARIABLES
    perp,      \* the short perp position
    spot,      \* the spot held
    room,      \* what the runs so far may still sell
    working,   \* a run is under way, or a restart has yet to put things right
    told       \* the operator was told that the legs may differ

legsVars == <<perp, spot, room, working, told>>

Init ==
    /\ perp \in Nat /\ spot = perp
    /\ room = 0 /\ working = FALSE /\ told = FALSE

Begin ==
    /\ ~working /\ working' = TRUE
    /\ room' = room + Size
    /\ UNCHANGED <<perp, spot, told>>

\* The process dies: a restart will have to look at the position.
Halt ==
    /\ working' = TRUE
    /\ UNCHANGED <<perp, spot, room, told>>

Sell(k) ==
    /\ working /\ k \in 1..room
    /\ perp' = perp + k /\ room' = room - k
    /\ UNCHANGED <<spot, working, told>>

Hedge ==
    /\ working /\ spot' \in spot..perp
    /\ UNCHANGED <<perp, room, working, told>>

BuyBack ==
    /\ working /\ perp' \in spot..perp
    /\ UNCHANGED <<spot, room, working, told>>

Tell ==
    /\ working /\ told' = TRUE
    /\ UNCHANGED <<perp, spot, room, working>>

End ==
    /\ working /\ working' = FALSE
    /\ told' \in {told, TRUE}
    /\ perp = spot \/ told'
    /\ UNCHANGED <<perp, spot, room>>

Next ==
    \/ Begin \/ Halt
    \/ \E k \in 1..room : Sell(k)
    \/ Hedge \/ BuyBack \/ Tell \/ End

Spec == Init /\ [][Next]_legsVars
===============================================================================
