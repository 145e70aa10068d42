--------------------------------- MODULE Funding ---------------------------------
(***************************************************************************)
(* The funding a position has collected: what the venue paid while the     *)
(* short was held, the figure the funding loop keeps on the row of an OPEN *)
(* position (live_monitor.py), and the one the close books and counts into *)
(* the realised P&L (executor.py).  Both ask the venue and await its       *)
(* answer.  Live positions; times are counted in payments.                 *)
(***************************************************************************)
EXTENDS Integers, Sequences

CONSTANTS
    Payment,        \* amounts of a payment
    Estimate,       \* what a rate, a notional and a holding time may make
    MaxPayments,    \* payments in a behaviour
    FundingFaults   \* which of FundingFaultKinds may happen

FundingFaultKinds ==
    {"books_late",     \* the loop's answer comes after the close has read the row
     "income_fails",   \* the venue does not answer the close
     "pays_entering"}  \* a payment falls in the time the first entry is working

ASSUME FundingAssumption ==
    /\ Payment \subseteq Int /\ Estimate \subseteq Int /\ MaxPayments \in Nat
    /\ FundingFaults \subseteq FundingFaultKinds

VARIABLES
    stage,    \* the position's state
    opened,   \* opened_ms
    booked,   \* funding_usd
    paid,     \* external: per FUNDING_FEE record since the entry began, the sum so far
    sweep,    \* the loop's request in flight: until, the end of its window
    accrual,  \* the close's request in flight: until, and the funding_usd it has read
    counted   \* the funding in realized_pnl_usd

fundingVars == <<stage, opened, booked, paid, sweep, accrual, counted>>

Nothing == -1
Idle == [until |-> Nothing, held |-> 0]

FundingInit ==
    /\ stage = "ENTERING" /\ opened = Nothing /\ booked = 0 /\ paid = <<>>
    /\ sweep = Idle /\ accrual = Idle /\ counted = Nothing

Total(n) == IF n = 0 THEN 0 ELSE paid[n]
\* income_history, summed: the records from opened on.
Income(until) == Total(until) - Total(opened)

\* External: the venue settles funding on the short.
Pays(amount) ==
    /\ stage # "CLOSED" /\ accrual = Idle /\ Len(paid) < MaxPayments
    /\ stage = "ENTERING" => "pays_entering" \in FundingFaults
    /\ paid' = Append(paid, Total(Len(paid)) + amount)
    /\ UNCHANGED <<stage, opened, booked, sweep, accrual, counted>>

\* set_state: the time of the first OPEN stays.
Moves(to) ==
    /\ <<stage, to>> \in {<<"ENTERING", "OPEN">>, <<"OPEN", "EXITING">>, <<"EXITING", "OPEN">>}
    /\ accrual = Idle
    /\ stage' = to /\ opened' = IF to = "OPEN" /\ opened = Nothing THEN Len(paid) ELSE opened
    /\ UNCHANGED <<booked, paid, sweep, accrual, counted>>

\* _refresh_position_funding, up to its await and after it.
AsksIncome ==
    /\ sweep = Idle /\ stage = "OPEN"
    /\ sweep' = [until |-> Len(paid), held |-> 0]
    /\ UNCHANGED <<stage, opened, booked, paid, accrual, counted>>

SetsFunding(answered) ==
    /\ sweep # Idle /\ sweep' = Idle
    /\ stage = "CLOSED" \/ accrual # Idle => "books_late" \in FundingFaults
    /\ booked' = IF answered THEN Income(sweep.until) ELSE booked
    /\ UNCHANGED <<stage, opened, paid, accrual, counted>>

\* _finalize_close reads the row, _accrue_funding asks.
Closes ==
    /\ stage = "EXITING" /\ accrual = Idle
    /\ accrual' = [until |-> Len(paid), held |-> booked]
    /\ UNCHANGED <<stage, opened, booked, paid, sweep, counted>>

\* Deviation: the whole is added to a row that has most of it.
AccruesWhole(figure, dies) ==
    /\ accrual # Idle /\ accrual' = Idle
    /\ figure # Income(accrual.until) => "income_fails" \in FundingFaults
    /\ booked' = booked + figure
    /\ IF dies THEN UNCHANGED <<stage, counted>> ELSE stage' = "CLOSED" /\ counted' = booked'
    /\ UNCHANGED <<opened, paid, sweep>>

\* _accrue_funding after its await, and finalize_pnl: the row is brought up to the
\* venue's figure, or to an estimate when it does not answer; the engine may die before
\* the position is CLOSED.
Accrues(figure, dies) ==
    /\ accrual # Idle /\ accrual' = Idle
    /\ figure # Income(accrual.until) => "income_fails" \in FundingFaults
    /\ booked' = booked + figure - accrual.held
    /\ IF dies THEN UNCHANGED <<stage, counted>> ELSE stage' = "CLOSED" /\ counted' = booked'
    /\ UNCHANGED <<opened, paid, sweep>>

\* The engine dies and starts again; an EXITING position closes anew.
FundingRestart ==
    /\ sweep' = Idle /\ accrual' = Idle
    /\ UNCHANGED <<stage, opened, booked, paid, counted>>

FundingNext ==
    \/ \E amount \in Payment : Pays(amount)
    \/ \E to \in {"OPEN", "EXITING"} : Moves(to)
    \/ AsksIncome
    \/ \E answered \in BOOLEAN : SetsFunding(answered)
    \/ Closes
    \/ \E figure \in Estimate, dies \in BOOLEAN : Accrues(figure, dies)
    \/ accrual # Idle /\ \E dies \in BOOLEAN : Accrues(Income(accrual.until), dies)
    \/ FundingRestart

FundingSpec == FundingInit /\ [][FundingNext]_fundingVars

-------------------------------------------------------------------------------
\* What must hold.

\* A position that is closed has on its row, and in its realised P&L, every payment of
\* its life once: the loop's figure, a second close after a crash and partial exits
\* neither repeat nor lose one.
FundingIsPaid ==
    stage = "CLOSED" =>
        /\ booked = Total(Len(paid))
        /\ counted = booked
================================================================================
