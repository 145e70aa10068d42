-------------------------------- MODULE LegsDown --------------------------------
(***************************************************************************)
(* What closing a position promises to whoever looks at the account only:  *)
(* how much perp is short, how much spot is held, and whether anybody is   *)
(* at work on the position.  Both legs only go down, and only while        *)
(* somebody works, but for the perp that the venue itself may close at any *)
(* time; until a taker close begins the spot covers the perp; no buy-back  *)
(* opens a long; spot without its perp is not left behind in silence; and  *)
(* a position that is closed is flat and stays so.                         *)
(***************************************************************************)
EXTENDS Integers

CONSTANTS
    Dust,        \* less cannot be traded
    Tolerance    \* a rest of the perp that is taken for none after a reduction

VARIABLES
    perp, spot,  \* the short perp position and the spot held
    working,     \* a run, a sale or a caller is under way
    taker,       \* a close of both legs at once has begun
    reduced,     \* the venue has closed contracts by itself
    told,        \* the operator was told that the legs may differ
    closed       \* the position is done with

downVars == <<perp, spot, working, taker, reduced, told, closed>>

Init ==
    /\ perp \in Nat /\ spot = perp
    /\ ~working /\ ~taker /\ ~reduced /\ ~told /\ ~closed

Begin ==
    /\ ~working /\ ~closed
    /\ working' = TRUE
    /\ UNCHANGED <<perp, spot, taker, reduced, told, closed>>

Take ==
    /\ working /\ taker' = TRUE
    /\ UNCHANGED <<perp, spot, working, reduced, told, closed>>

BuyBack ==
    /\ working
    /\ perp' < perp
    /\ reduced \/ perp' >= 0
    /\ UNCHANGED <<spot, working, taker, reduced, told, closed>>

Sell ==
    /\ working
    /\ spot' < spot /\ spot' >= 0
    /\ taker \/ spot' >= perp \/ (reduced /\ perp <= Tolerance)
    /\ UNCHANGED <<perp, working, taker, reduced, told, closed>>

Reduce ==
    /\ perp' < perp /\ perp' >= 0
    /\ reduced' = TRUE
    /\ UNCHANGED <<spot, working, taker, told, closed>>

Tell ==
    /\ working /\ told' = TRUE
    /\ UNCHANGED <<perp, spot, working, taker, reduced, closed>>

End ==
    /\ working /\ working' = FALSE
    /\ told' \in {told, TRUE}
    /\ taker \/ reduced \/ told' \/ spot - perp < Dust
    /\ closed' \in BOOLEAN
    /\ closed' => reduced \/ (perp < Dust /\ spot < Dust)
    /\ UNCHANGED <<perp, spot, taker, reduced>>

Next == Begin \/ Take \/ BuyBack \/ Sell \/ Reduce \/ Tell \/ End

Spec == Init /\ [][Next]_downVars
===============================================================================
