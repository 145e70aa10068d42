---------------------------------- MODULE Sizing ----------------------------------
(***************************************************************************)
(* The figures the executor and the exit watch act on, each computed twice *)
(* in the code by different arithmetic: how much of a fill the spot book   *)
(* hedges within a basis (executor.py), the basis of hedging a given size, *)
(* the limit price of the hedge, and the gates and target of an exit       *)
(* opportunity (live_monitor.py).  A basis is in units of 1/Scale; prices  *)
(* are whole ticks, quantities whole lots.                                 *)
(***************************************************************************)
EXTENDS Integers, SequencesExt

CONSTANTS
    Scale,      \* BPS
    Px, Lots,   \* prices and quantities of a book's levels
    Depth,      \* levels of a book (a level may be empty)
    Bounds,     \* basis floors and targets
    Slip        \* config.HEDGE_SLIPPAGE_BPS

ASSUME SizingAssumption ==
    /\ Scale \in Nat \ {0} /\ Slip \in 0 .. Scale - 1 /\ Px \subseteq Nat \ {0} /\ Lots \subseteq Nat
    /\ Depth \in Nat
    /\ \A b \in Bounds : b \in Int /\ b > -Scale

VARIABLE quote   \* side taken, the perp's price, the book on that side, the basis bound

\* A buy takes asks, best (lowest) first; a sale takes bids, best (highest) first.
Sorted(side, levels) ==
    \A i, j \in DOMAIN levels : i < j => side * (levels[j].px - levels[i].px) > 0

Quotes ==
    {q \in [side : {1, -1}, perp : Px, bound : Bounds, levels : [1..Depth -> [px : Px, qty : Lots]]] :
        Sorted(q.side, q.levels)}

NoQuote == [side |-> 1, perp |-> 1, bound |-> 0, levels |-> <<>>]

\* What some levels of a book hold.
Deep(levels, ids) == SumFunction([i \in ids |-> levels[i].qty])

\* How far one lot at this price is on the wrong side of the bound, times a
\* positive factor: the bound on the average price is perp / (1 + bound / Scale).
Excess(q, px) == q.side * (px * (Scale + q.bound) - q.perp * Scale)

\* The first level that breaks the bound; if none does, the one after the last.
Breaking(q) ==
    Min({i \in DOMAIN q.levels : q.levels[i].qty > 0 /\ Excess(q, q.levels[i].px) > 0}
            \cup {Len(q.levels) + 1})

\* Deviation: the level that breaks the bound is left out altogether.
MaxSizeWhole(q) == [n |-> Deep(q.levels, 1 .. Breaking(q) - 1), d |-> 1]

\* max_hedgeable_qty (side 1), max_closeable_qty (side -1): the levels up to the
\* first that breaks the bound, and of that one what brings the average to it.
MaxSize(q) ==
    LET first == Breaking(q)
        good == 1 .. first - 1
        slack == 0 - SumFunction([i \in good |-> Excess(q, q.levels[i].px) * q.levels[i].qty])
        over == Excess(q, q.levels[first].px)
    IN IF first > Len(q.levels) THEN [n |-> Deep(q.levels, good), d |-> 1]
       ELSE IF slack >= over * q.levels[first].qty
       THEN [n |-> Deep(q.levels, good) + q.levels[first].qty, d |-> 1]
       ELSE [n |-> Deep(q.levels, good) * over + slack, d |-> over]

\* _hedgeable_at: whole contracts, no more than are unhedged.
HedgeableAt(q, cap) ==
    LET whole == MaxSize(q).n \div MaxSize(q).d IN IF whole < cap THEN whole ELSE cap

\* What is taken of level i when need lots are taken off the book.
Take(levels, need, i) ==
    LET left == need - Deep(levels, 1 .. i - 1) IN
    IF left < 0 THEN 0 ELSE IF left < levels[i].qty THEN left ELSE levels[i].qty

\* _live_hedge_basis_bps and its comparison with the bound.
Clears(q, need) ==
    SumFunction([i \in DOMAIN q.levels |-> Excess(q, q.levels[i].px) * Take(q.levels, need, i)]) <= 0

\* _hedge_cap: the price of the level that completes the size, or of the last,
\* and a buffer, rounded away from the book.
HedgeCap(q, need) ==
    LET full == {i \in DOMAIN q.levels : Deep(q.levels, 1..i) >= need}
        ref == q.levels[Min(full \cup {Len(q.levels)})].px
        scaled == ref * (Scale + q.side * Slip)
    IN IF q.side = 1 THEN -((-scaled) \div Scale) ELSE scaled \div Scale

\* exit_opportunity: the gates, and the loosest close basis that passes them.
Opportunity(entry, close, low, carry, days) ==
    /\ close < low
    /\ entry - close > 0
    /\ carry > 0 => entry - close >= days * carry
ExitTarget(entry, low, carry, days) ==
    Min({low, entry - (IF carry > 0 THEN days * carry ELSE 0)})

SizingInit == quote \in Quotes

-------------------------------------------------------------------------------
\* What must hold.

\* A size the placement gate allows passes the hedge-time check, whatever the book;
\* and down to the first level that breaks the bound it is the largest that does.
\* (Beyond that level the gate stops even when the average leaves room.)
GatesAgree ==
    \A need \in 1..Deep(quote.levels, DOMAIN quote.levels) :
        /\ HedgeableAt(quote, need) = need => Clears(quote, need)
        /\ need <= Deep(quote.levels, 1..Breaking(quote) \cap DOMAIN quote.levels)
           /\ Clears(quote, need) => HedgeableAt(quote, need) = need

\* A hedge sent at the cap fills: the book holds the size at the cap or better.
CapCrosses ==
    \A need \in 1..Deep(quote.levels, DOMAIN quote.levels) :
        LET atCap == {i \in DOMAIN quote.levels :
                         quote.side * (quote.levels[i].px - HedgeCap(quote, need)) <= 0}
        IN Deep(quote.levels, atCap) >= need

\* Below its target an exit passes both gates, above it none does.
TargetIsLoosest ==
    LET carry == quote.bound IN
    \A entry, close, low \in Px, days \in Lots :
        LET t == ExitTarget(entry, low, carry, days) IN
        /\ close < t => Opportunity(entry, close, low, carry, days)
        /\ Opportunity(entry, close, low, carry, days) => close <= t

FiguresAgree == quote # NoQuote => GatesAgree /\ CapCrosses /\ TargetIsLoosest
================================================================================
