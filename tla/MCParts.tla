---------------------------------- MODULE MCParts ----------------------------------
(***************************************************************************)
(* The small parts of the system in one run: the book of a position and    *)
(* /recon, its funding, the orders on the wire, the bot's update loop, the *)
(* score alerts, the scam screen, and the figures of a quote.  They share  *)
(* no variable and no action, so a behaviour takes the steps of one of     *)
(* them only; "part" says of which.                                        *)
(***************************************************************************)
EXTENDS Recon, Funding, Requests, Bot, Signals, ScamScreen, Sizing

BoundsUsed == {-3, 0, 2, 5}
PaymentUsed == {1, -2}
StepsUsed == {-2, 0, 1}

VARIABLE part

partsVars == <<part, ledgerVars, fundingVars, requestVars, botVars, signalVars, scamVars, quote>>

PartsInit ==
    /\ part \in {"book", "funding", "requests", "bot", "signals", "scam", "sizing"}
    /\ LedgerInit /\ FundingInit /\ RequestInit /\ BotInit /\ SignalsInit /\ ScamInit
    /\ part # "requests" => leg = "perp"
    /\ part # "signals" => level = Unset
    /\ IF part = "sizing" THEN SizingInit ELSE quote = NoQuote

PartsNext ==
    /\ UNCHANGED <<part, quote>>
    /\ \/ part = "book" /\ LedgerNext
          /\ UNCHANGED <<fundingVars, requestVars, botVars, signalVars, scamVars>>
       \/ part = "funding" /\ FundingNext
          /\ UNCHANGED <<ledgerVars, requestVars, botVars, signalVars, scamVars>>
       \/ part = "requests" /\ RequestNext
          /\ UNCHANGED <<ledgerVars, fundingVars, botVars, signalVars, scamVars>>
       \/ part = "bot" /\ BotNext
          /\ UNCHANGED <<ledgerVars, fundingVars, requestVars, signalVars, scamVars>>
       \/ part = "signals" /\ SignalsNext
          /\ UNCHANGED <<ledgerVars, fundingVars, requestVars, botVars, scamVars>>
       \/ part = "scam" /\ ScamNext
          /\ UNCHANGED <<ledgerVars, fundingVars, requestVars, botVars, signalVars>>

PartsSpec == PartsInit /\ [][PartsNext]_partsVars
================================================================================
