--------------------------------- MODULE Ledger ---------------------------------
(***************************************************************************)
(* The book of one position: the fills table, the columns of the positions *)
(* row that are folded from it fill by fill, their derivation from scratch *)
(* (unwinds cancel entries, last in first out), the realised P&L, and the  *)
(* commands that repair all this (/recompute, /truefill).                  *)
(* An average is a fraction [n, d]; d = 0 is "no average yet".  Every fill *)
(* pays one unit of fee.  Decimal rounding is left out.                    *)
(***************************************************************************)
EXTENDS Integers, SequencesExt

CONSTANTS
    Qty, Price,    \* quantities and prices of a fill
    MaxFills,      \* fills in a behaviour
    LedgerFaults   \* which of LedgerFaultKinds may happen

LedgerFaultKinds ==
    {"dies_between",  \* a restart between two commits that belong together
     "other_buys"}    \* other buys of the symbol are in the window /truefill looks at

ASSUME LedgerAssumption ==
    /\ Qty \subseteq Nat \ {0} /\ Price \subseteq Nat /\ MaxFills \in Nat
    /\ LedgerFaults \subseteq LedgerFaultKinds

VARIABLES
    fills,    \* the table, by id; synth: booked at mark, order_id 'ADL'
    book,     \* the row: per leg the quantity and both averages; fees; unwind P&L
    realised, \* realized_pnl_usd, a fraction; d = 0 when NULL
    shut,     \* the position is CLOSED
    step,     \* a commit of a command that still has one to make
    bought,   \* the venue's record: BUY trades of the perp, oldest first
    cash      \* what the venues paid and took, fees aside

ledgerVars == <<fills, book, realised, shut, step, bought, cash>>

Leg == {"perp", "spot"}
None == [n |-> 0, d |-> 0]
Frac(n, d) == [n |-> n, d |-> d]
Same(x, y) == (x.d = 0 /\ y.d = 0) \/ (x.d # 0 /\ y.d # 0 /\ x.n * y.d = y.n * x.d)
Plus(x, y) == Frac(x.n * y.d + y.n * x.d, x.d * y.d)
NoLeg == [qty |-> 0, entry |-> None, exit |-> None]

LedgerInit ==
    /\ fills = <<>> /\ bought = <<>> /\ cash = 0
    /\ book = [leg |-> [l \in Leg |-> NoLeg], fees |-> 0, unwind |-> 0]
    /\ realised = None /\ shut = FALSE /\ step = "none"

Of(l, phase) == {i \in DOMAIN fills : fills[i].leg = l /\ fills[i].phase = phase}
QtyOf(tab, ids) == SumFunction([i \in ids |-> tab[i].qty])
CostOf(tab, ids) == SumFunction([i \in ids |-> tab[i].qty * tab[i].px])
\* The money that part of some orders is worth.
WorthOf(tab, part) == SumFunction([i \in DOMAIN part |-> part[i] * tab[i].px])

-------------------------------------------------------------------------------
\* _derive_legs: the table is walked in order, an unwind takes from the newest
\* entries before it.

\* Of each entry of a stack, what an unwind of q takes: newest first.
Taken(open, q) ==
    [i \in DOMAIN open |-> Max({0, Min({open[i].qty, q - QtyOf(open, i + 1 .. Len(open))})})]
Less(open, taken) == [i \in DOMAIN open |-> [open[i] EXCEPT !.qty = @ - taken[i]]]
\* What the unwind leaves of the stack, and what it took had cost.
Unwinds(w, q, taken) ==
    [w EXCEPT !.open = Less(@, taken),
              !.back = @ + WorthOf(w.open, taken), !.over = @ + q - SumFunction(taken)]

Walk(w, f) ==
    CASE f.phase = "entry"  -> [w EXCEPT !.open = Append(@, [qty |-> f.qty, px |-> f.px])]
      [] f.phase = "unwind" -> [Unwinds(w, f.qty, Taken(w.open, f.qty)) EXCEPT
                                   !.undo = @ + f.qty * f.px]
      [] f.phase = "exit"   -> [w EXCEPT !.out = @ + f.qty, !.got = @ + f.qty * f.px]

\* The leg that a walk makes; kept: the entries it has left.
LegOf(w, kept, l) ==
    [entered |-> kept, exited |-> w.out, qty |-> kept - w.over - w.out,
     entry |-> Frac(CostOf(w.open, DOMAIN w.open), kept), exit |-> Frac(w.got, w.out),
     unwind |-> (IF l = "perp" THEN 1 ELSE -1) * (w.back - w.undo)]
NoWalk == [open |-> <<>>, back |-> 0, over |-> 0, undo |-> 0, out |-> 0, got |-> 0]
Walked(tab, l) == FoldLeft(LAMBDA w, f : IF f.leg = l THEN Walk(w, f) ELSE w, NoWalk, tab)
Summed(w, l) == LegOf(w, QtyOf(w.open, DOMAIN w.open), l)
Derive(tab, l) == Summed(Walked(tab, l), l)

\* recompute_from_fills: an average the fills no longer define keeps its value.
OrOld(x, old) == IF x.d = 0 THEN old ELSE x
Rewritten(d, fees) ==
    [leg |-> [l \in Leg |-> [qty |-> d[l].qty,
                             entry |-> OrOld(d[l].entry, book.leg[l].entry),
                             exit |-> OrOld(d[l].exit, book.leg[l].exit)]],
     fees |-> fees, unwind |-> d["perp"].unwind + d["spot"].unwind]
Recomputed(tab) == Rewritten([l \in Leg |-> Derive(tab, l)], Len(tab))

\* breakdown and finalize_pnl: quantities derived, averages as stored.
Gain(sold, paid, d) ==
    IF sold.d = 0 \/ paid.d = 0 THEN Frac(0, 1)
    ELSE Frac((sold.n * paid.d - paid.n * sold.d) * Min({d.entered, d.exited}), sold.d * paid.d)
Pnl(tab, bk) ==
    Plus(Plus(Gain(bk.leg["perp"].entry, bk.leg["perp"].exit, Derive(tab, "perp")),
              Gain(bk.leg["spot"].exit, bk.leg["spot"].entry, Derive(tab, "spot"))),
         Frac(bk.unwind - bk.fees, 1))

-------------------------------------------------------------------------------
\* record_fill.

Blend(avg, held, q, px) ==
    IF avg.d = 0 \/ held = 0 THEN Frac(px, 1) ELSE Frac(avg.n * held + px * q * avg.d, avg.d * (held + q))

\* Deviation: the entry average is weighted by what is held, not by what entered.
PriorHeld(l, phase) == IF phase = "entry" THEN book.leg[l].qty ELSE QtyOf(fills, Of(l, "exit"))
\* The weight of the average so far: earlier fills of the same phase.
Prior(l, phase) == QtyOf(fills, Of(l, phase))

Folded(l, phase, q, px) ==
    LET b == book.leg[l]
        sign == IF phase = "entry" THEN 1 ELSE -1
        col == IF phase = "entry" THEN b.entry ELSE b.exit
        avg == Blend(col, Prior(l, phase), q, px)
    IN [book EXCEPT !.fees = @ + 1,
                    !.leg[l] = [qty |-> b.qty + sign * q,
                                entry |-> IF phase = "entry" THEN avg ELSE b.entry,
                                exit |-> IF phase = "exit" THEN avg ELSE b.exit]]

\* A leg that was ever unwound is derived, not folded.
HasUnwind(l) == Of(l, "unwind") # {}

Trades(l, phase, q, px) ==
    LET sells == (l = "perp") = (phase = "entry") IN
    /\ cash' = cash + (IF sells THEN q * px ELSE -(q * px))
    /\ bought' = IF l = "perp" /\ ~sells THEN Append(bought, [qty |-> q, px |-> px]) ELSE bought

\* true: the price at the venue; px: the price booked, a guess when synth.
RecordFill(l, phase, q, px, true) ==
    LET synth == px # true
        tab == Append(fills, [leg |-> l, phase |-> phase, qty |-> q, px |-> px, synth |-> synth])
    IN
    /\ step = "none" /\ ~shut /\ Len(fills) < MaxFills
    /\ synth => l = "perp" /\ phase = "exit"
    /\ phase = "unwind" => l = "perp"
    /\ phase # "entry" => q <= book.leg[l].qty
    /\ Trades(l, phase, q, true)
    /\ fills' = tab
    /\ CASE phase = "unwind" -> step' = "derive" /\ UNCHANGED book
         [] phase # "unwind" /\ HasUnwind(l) -> book' = Recomputed(tab) /\ UNCHANGED step
         [] OTHER -> book' = Folded(l, phase, q, px) /\ UNCHANGED step
    /\ UNCHANGED <<realised, shut>>

\* The second commit of an unwind, of /truefill; or the engine dies before it.
Derives(dies) ==
    /\ step # "none" /\ step' = "none"
    /\ dies => "dies_between" \in LedgerFaults
    /\ book' = IF dies THEN book ELSE Recomputed(fills)
    /\ realised' = IF step = "truefill" /\ ~dies THEN Pnl(fills, book') ELSE realised
    /\ UNCHANGED <<fills, shut, bought, cash>>

\* _finalize_close.
Finalize ==
    /\ step = "none" /\ ~shut /\ fills # <<>> /\ \A l \in Leg : book.leg[l].qty = 0
    /\ realised' = Pnl(fills, book) /\ shut' = TRUE
    /\ UNCHANGED <<fills, book, step, bought, cash>>

\* /recompute: realised P&L only for a position that is done.
Recompute ==
    /\ step = "none" /\ fills # <<>>
    /\ book' = Recomputed(fills)
    /\ realised' = IF shut THEN Pnl(fills, book') ELSE realised
    /\ UNCHANGED <<fills, shut, step, bought, cash>>

Guesses == {i \in DOMAIN fills : fills[i].synth}
\* The average price of what is taken of some buys.
PaidFor(buys, taken) == Frac(WorthOf(buys, taken), SumFunction(taken))
\* Deviation: the trades are sorted the other way.
OldestBuys(q) ==
    PaidFor(bought, [i \in DOMAIN bought |->
                        Max({0, Min({bought[i].qty, q - QtyOf(bought, 1 .. i - 1)})})])
\* The newest buys that make up q, and what they cost: the price /truefill books.
NewestBuys(q) == PaidFor(bought, Taken(bought, q))
LastBuy(i) == \A j \in DOMAIN fills : j > i /\ fills[j].leg = "perp" => fills[j].phase = "entry"

\* /truefill, for guesses the venue filled at one price each.
Truefill ==
    /\ step = "none" /\ Guesses # {}
    /\ (Cardinality(Guesses) > 1 \/ \E i \in Guesses : ~LastBuy(i)) => "other_buys" \in LedgerFaults
    /\ \A i \in Guesses : NewestBuys(fills[i].qty).n % NewestBuys(fills[i].qty).d = 0
    /\ fills' = [i \in DOMAIN fills |->
                    IF i \in Guesses
                    THEN LET b == NewestBuys(fills[i].qty)
                         IN [fills[i] EXCEPT !.synth = FALSE, !.px = b.n \div b.d]
                    ELSE fills[i]]
    /\ step' = "truefill"
    /\ UNCHANGED <<book, realised, shut, bought, cash>>

LedgerNext ==
    \/ \E l \in Leg, phase \in {"entry", "exit", "unwind"}, q \in Qty, px, true \in Price :
           RecordFill(l, phase, q, px, true)
    \/ \E dies \in BOOLEAN : Derives(dies)
    \/ Finalize \/ Recompute \/ Truefill

LedgerSpec == LedgerInit /\ [][LedgerNext]_ledgerVars

-------------------------------------------------------------------------------
\* What must hold.

\* The columns folded in fill by fill say what the fills say, in whatever order
\* entries, exits, adds, unwinds and corrections came.
RowIsDerived ==
    step = "none" =>
        /\ \A l \in Leg :
              LET d == Derive(fills, l)  b == book.leg[l] IN
              /\ b.qty = d.qty
              /\ d.entry.d # 0 => Same(b.entry, d.entry)
              /\ d.exit.d # 0 => Same(b.exit, d.exit)
        /\ book.fees = Len(fills)
        /\ book.unwind = Derive(fills, "perp").unwind + Derive(fills, "spot").unwind

\* A closed position none of whose prices is a guess has realised what the venues
\* paid, less the fees: no unwind, no second entry and no correction invents money.
RealisedIsCash ==
    shut /\ step = "none" /\ Guesses = {} => Same(realised, Frac(cash - Len(fills), 1))
================================================================================
