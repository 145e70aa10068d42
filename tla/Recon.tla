---------------------------------- MODULE Recon ----------------------------------
(***************************************************************************)
(* /recon (live_monitor.py _recon_pair, recon.py): what a position is worth*)
(* by the venues' own records, whatever the bot's table says.  It is read  *)
(* off Ledger's history: the venue's trades are the fills at their true    *)
(* prices.  Fees and funding, which are sums of the venue's records, and   *)
(* the 2% tolerances are left out.                                         *)
(***************************************************************************)
EXTENDS Ledger

Times(x, k) == Frac(x.n * k, x.d)
Minus(x, y) == Plus(x, Times(y, -1))
Whole(k) == Frac(k, 1)

\* External: the venues' trades are the fills, at the prices that were paid.
IsBuy(i) == fills[i].leg = "perp" /\ fills[i].phase # "entry"
BuysTo(i) == Cardinality({j \in 1..i : IsBuy(j)})
TrueFills ==
    [i \in DOMAIN fills |->
        [fills[i] EXCEPT !.px = IF IsBuy(i) THEN bought[BuysTo(i)].px ELSE @]]

NoTrades == [held |-> 0, cost |-> Whole(0), gained |-> Whole(0)]
Average(w) == Frac(w.cost.n, w.cost.d * w.held)
TradeIn(w, t) == [w EXCEPT !.held = @ + t.qty, !.cost = Plus(@, Whole(t.qty * t.px))]
\* A trade that closes realises its price against the average, for a leg that is long
\* (sign 1) or short (-1), and takes so much off the cost.
TradeOut(w, t, sign, off) ==
    [held |-> w.held - t.qty, cost |-> Minus(w.cost, Times(off, t.qty)),
     gained |-> Plus(w.gained, Times(Minus(Whole(t.px), Average(w)), sign * t.qty))]
Sign(l) == IF l = "spot" THEN 1 ELSE -1

\* Deviation: what is sold leaves the average at its price, not at the average's.
AverageAtSale(l) ==
    FoldLeft(LAMBDA w, t : IF t.leg # l THEN w
                           ELSE IF t.phase = "entry" THEN TradeIn(w, t)
                           ELSE TradeOut(w, t, Sign(l), Whole(t.px)), NoTrades, TrueFills)

\* average_cost_spot; and, external, how Aster keeps a short: a reduction leaves the
\* average alone.
AverageCost(l) ==
    FoldLeft(LAMBDA w, t : IF t.leg # l THEN w
                           ELSE IF t.phase = "entry" THEN TradeIn(w, t)
                           ELSE TradeOut(w, t, Sign(l), Average(w)), NoTrades, TrueFills)

\* reconstruct_spot_entry: the newest buys that make up what is held.
SpotEntry(held) ==
    LET buys == Of("spot", "entry")
        later(i) == QtyOf(fills, {j \in buys : j > i})
    IN PaidFor(fills, [i \in buys |-> Max({0, Min({fills[i].qty, held - later(i)})})])

\* PairRecon: both legs closed now at the venues' bids, and what was realised before.
PairPnl(perp, spot, perpBid, spotBid) ==
    Plus(Plus(Minus(perp.cost, Whole(perp.held * perpBid)), perp.gained),
         Plus(Minus(Whole(spot.held * spotBid), spot.cost), spot.gained))

\* _recon_pair.  extra: coins of the symbol that are not the position's; replay: both
\* histories could be read.  Realised P&L counts on both legs or on neither.
NetPnl(perp, spot, perpBid, spotBid, extra, replay) ==
    LET matched == Min({spot.held + extra, perp.held})
        explained == replay /\ spot.held > 0 /\ extra = 0
        entry == IF explained THEN Frac(spot.cost.n, spot.cost.d * spot.held)
                 ELSE IF SpotEntry(matched).d > 0 THEN SpotEntry(matched)
                 ELSE Frac(perp.cost.n, perp.cost.d * perp.held)
        valued == [held |-> matched, cost |-> Times(entry, matched),
                   gained |-> IF explained THEN spot.gained ELSE Whole(0)]
    IN PairPnl(IF explained THEN perp ELSE [perp EXCEPT !.gained = Whole(0)], valued, perpBid, spotBid)

\* equity.snapshot of an account that holds this position and nothing else, and began
\* with nothing: perp wallet, unrealised P&L at mark, coins at the bid, USDT.
Equity(perp, spot, mark, bid) ==
    LET wallet == perp.gained
        upnl == Minus(perp.cost, Whole(perp.held * mark))
        usdt == Minus(spot.gained, spot.cost)
    IN Plus(Plus(wallet, upnl), Plus(Whole(spot.held * bid), usdt))

\* _aggressive_close_pnl, from the row: the figure that lets a trade be closed for
\* profit.  Funding is left out, a fill's fee is one unit.
CloseEstimate(ask, bid) ==
    LET perp == book.leg["perp"]  spot == book.leg["spot"]
        exitFees == Cardinality({l \in Leg : book.leg[l].qty > 0})
    IN Minus(Plus(Times(Minus(perp.entry, Whole(ask)), perp.qty),
                  Times(Minus(Whole(bid), spot.entry), spot.qty)),
             Whole(book.fees + exitFees))

-------------------------------------------------------------------------------
\* Of a hedged position whose records explain the holding, /recon's P&L is what closing
\* it would leave in cash: scaling in and out, unwinds and buy-backs on either leg do
\* not count twice and do not go missing.  Without the records, the same is true as
\* long as nothing was closed.
ReconIsCash ==
    LET perp == AverageCost("perp")  spot == AverageCost("spot")  held == perp.held IN
    held > 0 /\ held = spot.held =>
        \A perpBid, spotBid \in Price, replay \in BOOLEAN :
            replay \/ (\A i \in DOMAIN fills : fills[i].phase = "entry") =>
                Same(NetPnl(perp, spot, perpBid, spotBid, 0, replay),
                     Whole(cash + held * (spotBid - perpBid)))

\* The account's value moves with what was paid and taken and with the marks of what is
\* held, whatever was scaled, unwound or closed in between.
EquityIsCash ==
    LET perp == AverageCost("perp")  spot == AverageCost("spot") IN
    \A mark, bid \in Price :
        Same(Equity(perp, spot, mark, bid), Whole(cash + spot.held * bid - perp.held * mark))

\* What the close is estimated to bring is what booking it will add to the realised P&L,
\* after any adds, partial exits, unwinds and repairs.
EstimateIsBooked ==
    step = "none" /\ ~shut /\ (\A l \in Leg : book.leg[l].qty > 0) =>
        LET before == Plus(Pnl(fills, book), Whole(book.fees))
            closing(l, px) == [leg |-> l, phase |-> "exit", qty |-> book.leg[l].qty,
                               px |-> px, synth |-> FALSE]
            closed(ask, bid) ==
                Append(Append(fills, closing("perp", ask)), closing("spot", bid))
        IN \A ask, bid \in Price :
               Same(Pnl(closed(ask, bid), Recomputed(closed(ask, bid))),
                    Plus(before, CloseEstimate(ask, bid)))

\* Every figure the operator is shown of the trade agrees with the money.
ValueIsCash == ReconIsCash /\ EquityIsCash /\ EstimateIsBooked
================================================================================
