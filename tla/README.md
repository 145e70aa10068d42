# Formal model of spotperp

spotperp is a cash-and-carry bot: it sells a perpetual future on Aster, buys
the same amount of spot on MEXC, collects the premium and closes both legs
later. Money is lost when the legs come apart: an order that fills unseen, a
hedge sent twice, a fill that is never recorded, a stop that locks the spot of
a close, a command carried out again after a crash. This directory holds TLA+
models of the parts where that can happen, the TLC runs that check them on
small instances, and TLAPS proofs of the properties that hold for every size.

    tlc -workers 2 -config MCExit.cfg ExitRun            # one run
    tlapm StopProofs.tla                                 # one proof module

`PROJECT.json` lists every run with its module, every property with a faulty
variant of the code that breaks it, the source lines behind every definition,
the hazards, the finding and the theorems. A definition marked "Deviation" in a
module is such a faulty variant; no specification uses it.

## 1. Inventory

The program is two processes on one host that share a SQLite database: the
**engine** (`live_monitor.py`, asyncio, restarted by systemd on failure) and
the **control bot** (`control_bot.py`, Telegram). The engine trades through
`executor.py`, which runs at most one asyncio task per position. Inside the
engine three coroutines act on positions: the drain of the operator's commands,
the safety loop, and the tasks; every `await` of one of them lets the others in.

| component | state | operations | talks to | hard behaviour | what makes it correct |
|---|---|---|---|---|---|
| Command channel (`database.py`, `control_bot.py`, `live_monitor.py:2150-2222`) | `commands` rows; the drain's snapshot; the bot's wait | insert, drain, expire, claim, resolve, abandon at start, poll | bot and engine through the table | crash between claim, execution and resolution; clock read once per drain | at most once, in order, final replies, every command settles |
| Entry and add runs (`executor.py:930-1405`) | coroutine locals, row, fills, intents | work a maker order, poll, reprice, hedge, salvage, buy back, finish | Aster, MEXC, alerts | fills between any two awaits; lost replies; deadlines | legs equal or reported, nothing oversold or booked twice, the run ends |
| Exit runs (`executor.py:1407-1975`) | the same, plus a shielded sale | passive close, taker close, sell-down, finish | the same | cancellation at any await, in mid-sale too | spot is not sold ahead of its perp, no order left behind, CLOSED means flat |
| Task registry (`executor.py:456-607`) | task per position, cancel flags | start, cancel and await, replace, done | commands, safety loop, auto-entry | a caller waits while the cleanup of the old task trades | one task per position |
| Start-up recovery (`recovery.py`, `intents.py`) | intents, states | sweep, intents, fix-up, comparison | venues, database | crash inside recovery; fills while down | no orphan order, no double booking, mismatch reported |
| Position ledger (`position_manager.py`) | fills, quantities, averages, P&L | record, recompute, finalise, truefill | every writer of fills | long mixed sequences | folded equals derived, realised P&L equals cash |
| Protective stops, hedge guard (`live_monitor.py:1478-2058`) | stop orders, their ids, timers | place, cancel, poll, grace, rebalance | venues, executor | lagging snapshots; one fill seen by four checks | booked once, a naked leg is closed, no stop locks a close |
| Safety loop, operator commands (`live_monitor.py:2230-2560, 3320-3400, 3640-4040`) | exit requests and who made them | close, stand down, escalate, arm | executor | rows read before awaits | only working states trade, an operator's exit stands |
| Auto-entry, score alerts (`live_monitor.py:380-700`, `score_alerts.py`) | log of actions, episodes, board | scan, alert, enter, add | executor | caps checked before what they count exists | caps hold, one alert per episode |
| Depth sizing (`executor.py:126-204`) | none | walk the book, gate, price a hedge | executor | rounding and boundaries | a size that was allowed passes the later check |
| Reconstruction, equity (`recon.py`, `equity.py`) | none | average-cost replay, valuation | operator | adds, unwinds, corrections | what is shown agrees with the cash |
| Funding (`executor.py:1915-1975`, `live_monitor.py:898-922`) | `funding_usd` | refresh, accrue at the close | Aster's income records | two writers with awaits | each payment counted once |
| Signed requests (`auth.py`, `exchange_client.py`) | last nonce, intents | sign, send, classify the answer | venues | lost answers, reordering, clock steps | the caller knows what it does not know |
| Telegram loop (`control_bot.py:224-320`) | update offset | fetch, dispatch, reply | Telegram | death between two steps | no command is forgotten |
| Scam screen (`scam_screen.py`) | alerted names, file | sweep, alert | operator | restart | one ping per window |

## 2. Modules

| module | models | composed with |
|---|---|---|
| `CommandLifecycle` | abstract: what the command channel promises | refined by `CommandQueue` |
| `CommandQueue` | the `commands` table, the bot, the engine's drain, crash, restart | |
| `EntryRun` | one position, its entry and add runs, and the two venues | |
| `EntryRecovery` | crashes of the engine and `recovery.reconcile` | extends `EntryRun`, refines `TwoLegs` |
| `TwoLegs` | abstract: what runs, crashes and restarts promise to whoever sees the account only | refined by `EntryRecovery` |
| `ExitRun` | the exit tasks, the registry, callers that replace and cancel, the venues | refines `LegsDown` |
| `LegsDown` | abstract: what closing a position promises to whoever sees the account only | refined by `ExitRun` |
| `StopGuard` | the safety loop's stops and hedge guard over one open position | tasks of `ExitRun`, `EntryRun` reduced to their fills |
| `Desk` | who may act on a position: commands, safety loop, auto-entry | tasks reduced to begin, work, die, end |
| `Ledger` | fills, the folded columns, `/recompute`, `/truefill` | |
| `Recon` | `/recon`, equity, the estimate of a close | extends `Ledger` |
| `Funding` | the two writers of `funding_usd` | |
| `Requests` | nonces, answers, intents, what the caller is told | |
| `Bot` | the loop over Telegram updates | |
| `Signals` | scan, board, alert episodes, recorded history, level | |
| `ScamScreen` | points, lists, alerted names | |
| `Sizing` | pure: depth walks, gates and targets | |
| `MCParts` | the last eight side by side, one at a time | |
| `CommandQueueProofs`, `EntryProofs`, `ExitProofs`, `ExitBookProofs`, `StopProofs`, `DeskProofs`, `LedgerProofs`, `PartsProofs` | theorems about the module they are named after, `ExitBookProofs` about `ExitRun`, `LedgerProofs` also about `Recon`, `PartsProofs` about `Funding`, `Bot`, `Requests`, `ScamScreen`, `Signals` and `Sizing` | each extends what it is about; `ExitBookProofs` extends `ExitProofs`, `PartsProofs` extends `LedgerProofs` for its facts about sums |

Conventions. A step is what the code does between two awaits (or two commits
that a crash can separate). Quantities are contracts with a multiplier of one.
What the code decides from prices and books (is there an edge, how much depth,
reprice or not, a level crossed) is a free choice within the limits the code
applies to the result, so a model has more behaviours than the code, never
fewer; `Sizing` and `Ledger`, whose subject is the arithmetic, have prices. A
constant named `...Faults` selects which of the listed faults may happen, so a
run can say under which a property holds. Timers and deadlines are choices;
where a property is about time (TTL, alert windows) a clock is a number.

### CommandQueue

`status`, `born` are the columns of the table; `reply` is what the bot told
the operator; `batch`, `asOf`, `current` are the locals of `_drain_commands`
and are lost in a crash; `begun` and `upSince` are history. Both processes run
on one host, so there is one clock. A handler that raises is turned into an
error text and resolves its row as `done`, as in the code.

### EntryRun, EntryRecovery

`t` is the coroutine of `_run_entry`: `t.pc` says at which await it is, the
other fields are its locals (`remaining`, `unhedged`, the resting order `oid`
and how much of it was `seen`, ...). The places are

    top -> placing -> hedge -> buy -> bought -> (top | unwind -> unwound -> ...)
    top -> cancel -> cancelled -> hedge -> ... -> finish -> idle

`EntryRecovery` adds `phase` (up, down, or how far `reconcile` has come), the
snapshot of the position that `reconcile` read at its beginning, its work
lists and its last lookup. `Crash` can fall anywhere, in `reconcile` too, and
the venue goes on while the engine is down. `room` is history: what the runs so
far set out to sell, less what their orders executed.

`TwoLegs` keeps the two legs, `room`, whether somebody is at work and whether
the operator was told. Nothing trades while nobody is at work, a sale takes
from `room`, the spot goes up to the perp and the perp down to the spot, and
the work ends only with equal legs or an operator who knows, which is
`NakedLegIsReported` of a restart. `EntryRecovery`
maps `working` to a position in mid-entry or an engine that is not up, so a run
that died is still at work until a restart has looked at it.

### ExitRun

`tasks[i]` is the i-th coroutine spawned, with its kind, place and locals;
`latest` is what the registry knows. The sale of a passive exit is a coroutine
of its own (`tasks[i].sale`), because the code shields it from cancellation.
`caller[c]` goes through the steps of `start_exit` and `cancel_exit`: write the
request, cancel the stops, cancel the old task and await it, spawn. `Cancelled`
is the `CancelledError` handler: cancel the resting order, absorb its last
fill, await the sale under way, sell what is unhedged, and only then die.
`Cancels` is the request itself, which may fail (`cancel_fails`): the run and its
handler drop the order's id all the same. `LastLookFails` is the `get_order` after
it that raises.

`LegsDown` keeps the two legs, whether somebody is at work (a task, a sale or a
caller on its way: `~AtRest`), whether a taker close has begun, whether the venue
closed contracts by itself, what the operator was told, and whether the position
is closed. Both legs only go down, and only while somebody works, but for what
the venue closes; until a taker close a sale leaves the spot that covers the
perp; a buy-back opens no long; the work ends with legs that match but for dust
or an operator who knows, which is `NakedSpotIsReported`; and it may end closed
only when both legs are dust, after which nobody goes to work again. A taker
close, which sells both legs at once, is exempt from the cover and from the word
at its end (`TakerNakedIsReported`, section 6). Once the venue has closed contracts
by itself, a rest of the perp within the hedge guard's tolerance counts as none,
a buy-back sized before may open a long, and the two conditions at the end of the
work are off, because the rows do not say what is at the venue.

### StopGuard

The sweep of the safety loop is one coroutine, `sw`; `sw.perp`, `sw.spot`,
`sw.open` are the row as it was read when the sweep reached the position, which
is what the code goes on using. `ord` are the protective orders at the venues,
`saved` and `known` their ids in the table and in memory. `Reduced` is a
liquidation or ADL: the venue closes contracts without an order of ours. `op` is a
close on its way to its task; `renew` is the operator's `/stops`, with the row it
read before it waited for the lock. The stop lock serves in order of arrival, so
who comes while `/stops` waits comes after it. Places where `/stops` meets a stop
that has fired, and adds that the hedge guard does not see, are behind the faults
`stops_cut_in` and `add_unseen`: both happen without anything failing, and both
break properties (section 6). `/remove`, which cancels every order of the position
without the lock, is not in this module; `Desk` has it.

### Desk

`at["op"]` is the command being handled, `at["sw"]` the safety loop, each with
the close it is in: request written, stops cancelled, waiting for the old task.
`tasks` may outlive their registration while they die. `owner`, `shots`,
`starts`, `dayStarts` and `twice` are history that the properties need.

### The small parts

`Ledger` keeps averages as fractions and compares them with `Derive`, the
walk over all fills that the code itself uses to repair. `Recon` reads the
venues' own trades off that history. `Requests` follows one order at a time
over the wire, with other signed requests overtaking it. `ScamScreen` takes a sweep
in the code's three steps, the plan in memory, the file, the message, and the
engine can die between any two; `pings` and `lost` are the messages sent and those
that died after their file. `Signals` keeps the scans since the level was set or the
engine started, against which what the two times of `AlertState` ring is judged. `Sizing` has no
steps: each book of `Depth` levels is an initial state, a level may be empty,
and a size is a sum over levels up to the first that breaks the bound.

## 3. Runs

| run | question | bounds and why they are enough |
|---|---|---|
| `MCCommandQueue` | no replay, final replies, TTL after an outage, refinement of `CommandLifecycle` (which includes the order of commands), every command settles | 3 commands, 2 crashes, clock to 3 with TTL 1: a command can age past the TTL in the queue, in a crash and in a drain, and a crash can cut short the drain after a crash |
| `MCEntryRun` | never oversold, rows equal venues, legs equal or reported; no venue fault | 3 contracts in up to 3 orders, dust limit 2, 2 attempts, an add or a new entry: partial fill, reprice, dust carried to the next fill, part hedge and part buy-back |
| `MCEntryRunFaults` | a run ends | 2 runs, 2 orders, all five faults |
| `MCRecovery` | spot never leads, nothing of ours rests after the sweep, refinement of `TwoLegs` (which includes `NakedLegIsReported`) | 2 crashes, the second inside `reconcile`; spot orders of unknown outcome, polls that end the task |
| `MCRecoveryFaults` | no fill is booked twice; a position leaves ENTERING | all faults of a restart, all faults of a run but the one that ends its task |
| `MCExit` | one task; spot covers perp; no order outlives its exit; rows match at rest; CLOSED is flat; refinement of `LegsDown` (which includes `NakedSpotIsReported`) | 3 contracts, dust limit 2, 3 requests, 3 tasks, 2 orders, one ADL, no fault (every cancel works): a run that replaces a run that replaced a run, each cut in mid-order or mid-sale, and rests too small to trade |
| `MCExitFaults` | a caller that cancels gets on; taker closes end | all nine faults, 2 requests, 2 tasks |
| `MCStops` | rows forget neither leg; a close is not locked; stops do not stack | 1 contract (2 after an add), 2 reductions, 4 stops, one command, one `/stops`, one restart, missed deadlines |
| `MCStopsLive` | a naked spot is met or reported | 2 contracts, 2 reductions: a second one while the first is handled |
| `MCDesk` | caps, one shot per arming, only working states trade, an operator's exit stands | one symbol, 3 commands against a sweep, one restart, 2 actions a day |
| `MCParts` | the nine properties of the small parts | 4 fills with 2 quantities and 2 prices; 3 payments; 4 requests of which the venue remembers 2 nonces; 4 updates and 2 deaths; 7 scans, evenly spaced, with one change of the level or restart: an alert, an absence, the next alert; 4 sweeps of a window that 2 or 3 of them outlast, and 2 deaths, between the file and the message too; all books of 3 levels with 4 prices and 3 quantities |
| `MCDeskOperator` | (violation) an operator's passive exit after an automatic one | one symbol, one fault |

The bounds are the smallest at which each mechanism meets itself: two orders
for a fill of a cancelled one beside its replacement; three tasks for a
replacement of a replacement; two contracts for a partial fill; the dust limit
is 2 where dust matters. Deadlock is not checked where a model stops at a
horizon (commands, clock, orders, runs used up) or in a state the code rests
in; the runs of `StopGuard` and `Desk` do check it.

The type invariants (`QueueTypeOK`, `EntryTypeOK`, `RecoveryTypeOK`) are part
of the inductive invariants below and not of the runs; `ExitTypeOK` can be
given to `MCExit` as one more INVARIANT. `InOrder` follows from
`ImplementsLifecycle` and is proved.

### Fairness

* `WF(Drain)`, `WF(Resolve)`: the command loop wakes every
  `COMMAND_POLL_SECONDS`, and the venue calls of a handler have timeouts.
* `WF(Restart)`, `WF(ReconcileStep)`: `deploy/basis-trade.service` says
  `Restart=on-failure`. The number of crashes is bounded in the models; without
  a bound an engine that always dies settles nothing.
* `WF(TaskStep)`, `WF(SaleStep)`, `WF(CallerGoesOn)`, `WF(SweepStep)`: the
  event loop runs a ready coroutine, and every request is answered or times
  out. `WF(VenueAnswers)`: the venue decides on an order it received. It owes
  no fill of a maker order.
* `WF(AskToStop)`: the entry deadline is a monotonic clock that the loop reads
  in every turn. `SF(UnwindTimesOut)`, `SF(Deadline)`: the same for loops that
  read their deadline once a turn; strong fairness stands for a deadline that
  has passed, because the turn after it takes this branch however often other
  turns came before.
* `SF(GuardActs)`, `SF(GraceLooks(TRUE))`, `SF(PollSpotStop)`: a confirmation
  or grace window is over some time, and a lookup that fails does not fail for
  ever. `WF(RefreshRisk)`: the slow scan polls positionRisk. `SF(CancelStops)`:
  the stop lock is fair; `SF(RenewGoesOn)`: to `/stops` too. `SF(TaskTrades)`, `WF(TaskEnds)`: `TakerEnds` shows it
  of the tasks `StopGuard` reduces to their fills. `WF(StopGoesOn)`: a perp
  stop that has triggered is a market order.

## 4. Proofs

The constants are any values their assumptions allow (`QueueAssumption`,
`EntryAssumption`, `RecoveryAssumption`, `ExitAssumption`, `StopAssumption`,
`DeskAssumption`, `FundingAssumption`, `BotAssumption`, `RequestAssumption`,
`LedgerAssumption`, `SizingAssumption`).
A theorem that needs some faults away names them; every other fault may happen.
Each of them is needed, alone or beside another: TLC shows the property violated
when it is let in (section 6), so a hypothesis is a statement about the code and
not a convenience. Every inductive invariant was checked by TLC, with the largest set
of faults the theorem allows, before it was proved.

**Command queue** (`CommandQueueProofs`). `QueueInv` is types, `AtMostOnce`,
`InOrder` and `ReplyIsFinal` strengthened by what makes them inductive: a row
was handed to its handler exactly when it was claimed (`ClaimedOnce`); the
engine's memory agrees with the table (`MemoryAgrees`); and a row newer than the
snapshot has a larger id than all of it (`Ordered`), without which a drain could
overtake. `QueueImplementsLifecycle` shows, action by action, that every step is
a step of `CommandLifecycle` or leaves the life cycle unchanged.
`OutageExpiresCommands` is an action property: a drain under way read its clock
after the engine came up (`DrainSinceUp`), so a row it claims was not older than
the TTL then.

**Entry, bookings** (`EntryProofs`). `NoDoubleBooking` says that what is booked
under an order never exceeds what it executed. The run books the difference
between the venue's figure and its local `seen`, recovery the difference between
a lookup and the rows. `RunInv` is what every step of a run keeps: `seen` equals
what is booked while an order is at hand, and an order not yet sent has executed
and booked nothing. `BookingInv` adds that a lookup never exceeds the executed
quantity and that there is no coroutine while the engine is down.
`FillsAreBookedOnce` holds under every fault.

**Entry, the hedge.** `SpotNeverLeads` says that the spot held never exceeds the
perp short. `HedgeInv` adds to the spot what the frame still owes it (`Owed`)
and what the order at hand executed unseen (`Unseen`): the sum never exceeds the
perp. A fill raises both sides, a poll turns unseen into owed, a hedge turns
owed into spot, a buy-back lowers owed and perp together. It needs `BookingInv`
and one assumption, that a buy-back's outcome is known; without it the theorem
is false (section 6).

**Entry, a run that is over.** `HandInv` says at which await the frame has an
order, `Tended` that every order that can still fill is the one at hand. With
them the rows lag the venues by exactly what is unseen or in a reply under way
(`RowsInv`), which gives `RowsMatchWhenOver`, and the legs differ by exactly what
is owed and unseen (`LegsInv`: `HedgeInv` as an equation), which gives
`LegsMatchWhenOver`. A hedge rounds down to spot lots and forgets the remainder,
so that theorem has lots of one. `RoomInv` bounds what the frame still wants
(`Wanted`: `remaining` less what is unseen) by `room`, and the open order by
what is wanted: `SellsNoMoreThanAsked`.

**Restarts.** `Findable`: every order that can fill is in doubt in the intents,
at hand, or of a position in mid-entry, so that a crash leaves nothing that
`reconcile` would not look for. `SweepInv` follows such an order through its work
lists: it leaves them only when it can fill no more. Where no place request is
given up for lost the listing alone finds them all (`SweepLists`), and the
lookups may fail. `NothingRests` is the conclusion of both. `NakedInv`: the legs
differ by what is owed, or the operator was told, or the position is in
mid-entry, or was just cancelled and is about to be compared with the venue;
`SnapInv` says that the state `reconcile` read is the state until it fixes it
up. `NakedLegIsTold` follows, with `Tended` for the fills of a position that is
in nobody's hands.

**The refinement.** `RunsAndRestartsAreTwoLegs` maps every step: a fill is a
`Sell` (`FillIsSale`: it happens only while somebody is at work, and takes from
`room`), hedges, buy-backs and ends are theirs (`RunIsLegs`), a crash is a
`Halt`, a comparison an `End` (`RestartIsLegs`), and what the account does not
show is a stutter (`QuietLegs`). The invariants above are what the guards of
those steps need; the hypotheses are theirs.

**Funding.** `FundingInv`: the loop's request looks at a window that is past,
and a close in flight that has read the row will set it to the whole of the
income since `opened_ms`. `FundingIsPaidOnce` assumes the three faults away,
each of which breaks it.

**Bot.** `PassedIsRun`: what Telegram has dropped, and what the loop has passed
of the batch it holds, ran; so did the command whose reply is still owed.
`ForgottenIsRun` needs that `sendMessage` does not raise.

**Requests.** `NoncesOnce`: every nonce that is on its way or remembered is
below the next one, and above the window's lower edge if it is on its way.
`FillsAccounted`: told and filled differ only by the order at hand, and its
quantity is what is still wanted. `RequestsAreTold` concludes `RequestsHold`.

**Scam screen.** `MapIsLastPing`: the map holds the last announcement of every
list as long as it is within the window. `PingIsDue`: a list about to ping has
not for longer than the window, and one the coin is on has, or is about to.
The map, the file and what is unsent differ only between the steps of one sweep,
and `doing` says how; what dies unsent stays in the file and counts as announced
from then on (`lost`), so no restart can ping twice. `CoinsPingOncePerWindow` lets the
engine die between the file and the message (`dies_unsent`), and assumes two
things away, each of which breaks it: a file torn by the death (`dies_writing`) and a
sweep that misses the coin (`unlisted`).

**Alerts.** `AlertState` keeps two times of a name. `Episode` says which scans
they are the times of: `above` is that of a high scan with no low one after it
(`RunBegan`) and no later than any scan since which all were high
(`RunIsWhole`); `last` is that of a high scan no earlier than any that rang, in the
episode of one that rang (`LastsIn`), and the next high scan, if there was one, came
more than `Rearm` later (`LastIsHigh`). So a scan that is quiet within `Rearm` of
`last` is in that episode, which is what `HeldIsHeard` asks of a held score that does
not ring.
`AlertsComeOncePerEpisode` concludes `AlertsHold`. The level may come from
`AutoLevel`, so the proof shows that this is a level: the least element of a set
of naturals exists (`LeastOfNaturals`, from the library's well-foundedness of
the naturals), and the recorded scores are bounded.

**Exit, the tasks** (`ExitProofs`). `RegistryInv`: a task that is not dead is
the latest, or somebody is waiting for it; who waits with the intent to spawn
waits for the only one. With `ShapeInv` (which parts a frame has at which
await; a cancelled task is in its cleanup; only a taker close works both legs)
it gives `OneTaskAtATime`. Its hypothesis is `[]OneReplacer`, that no two
callers replace the task at the same time: two callers awaiting the same old
task both spawn (section 6). With one caller the hypothesis is true in every
state.

**Exit, the books** (`ExitBookProofs`). `BookInv` ties four places where a
contract may be: executed at a venue, seen by the frame, booked in the row, and
closed by the venue without us (`Reduced`). Every live order is the one the
latest task holds (`NoOrphans`: without the faults `slow_stops`, `cut_request`,
`place_ambiguous`, `poll_fails` and `cancel_fails`, each of which leaves an order
behind). It yields `OrdersAreTakenDown`, `RowsAreExactAtRest` and, with `CloseInv`
(a position is closed in the rows only when both are dust and no task is left),
`ClosedIsFlatAtTheVenues`. All theorems about the books and the hedge of an exit
have `NoOrphans` as a hypothesis; section 6 says what happens without it.

**Exit, the hedge** (`ExitBookProofs`). `CoverInv`: while no taker close works
the spot in the row and what a sale under way may still sell cover the perp
still short. `NakedInv`: spot whose perp is gone is owed by some frame, or was
reported. `NakedSpotIsNeverSilent` needs in addition that no stop LIMIT stays
(`stops_stay`).

**Exit, the refinement** (`ExitBookProofs`). `ExitsAreLegsDown` maps every step,
with the properties above as the guards of the abstract steps: a fill of a
maker buy-back finds a task at work (`NoOrderOutlivesExit`) and opens no long
(`BuyBackIsLegs`); a sale leaves the spot that covers the perp (`SellIsLegs`);
the accrual that closes the position is an `End` with both legs dust and nobody
else at work (`ClosingIsLegs`); a step that trades nothing is a `Begin`, a
`Tell`, an `End` or a stutter (`QuietLegs`); a closed position is at rest for
ever (`ClosedRests`). Of the faults only `adl_midway` is let in; each of the other
eight alone breaks `ImplementsLegsDown`.

**Ledger and reconstruction** (`LedgerProofs`). What `record_fill` folds, what
`_derive_legs` walks and what the venues paid are three recursions over the
fills, and the theorems say that they agree for every sequence of fills. The
prover has no induction over an operator, so each fact about a walk or a sum is
shown of a smallest counterexample: the set of prefixes at which it fails would
have a least element, by the well-foundedness of the naturals in the library,
and the definition of the step refutes that one. `LedgerInv` is the property with
the types and two facts of every prefix: the walk has seen every exit, and has
kept every entry of a leg that was never unwound (`Folds`). It gives
`RowFollowsFills`. `MoneyInv` adds a second table, the fills at the prices that
the venues have them down for (`TrueTab`): it has one for every buy (`Mirrors`),
it differs from the kept table in the guessed prices only (`Honest`), the cash is
its sum, no more goes out than is held (`NoneOver`), and a closed position has
booked the P&L of its fills (`Booked`). With no guess left the two tables are
one, and `WhatIsRealisedIsCash` follows. `ReconInv` adds that the average-cost
replay of the venues' trades follows the walk of the true table (`FollowsAll`),
and what a leg is before its first exit (`OnlyOpened`); `WhatIsShownIsCash` is
then arithmetic over fractions with positive denominators.

**Sizing** (`PartsProofs`). There are no steps to induct over; the content is in
the sums. No level before the first that breaks the bound is on its wrong side,
so what they leave is a natural number (`SlackIsNatural`), a size within them
clears the gate (`WithinClears`), and one that goes into the breaking level
clears it exactly as far as the slack pays (`BeyondClears`, and `QuotientReaches`
for the quotient that the planner computes). `CapIsBeyond` says to which side
rounding to ticks moves the limit of a hedge. `TwiceComputedAgree` has no hypothesis but the
assumption on the constants.

**Desk** (`DeskProofs`). `ArmedFiresOnce` holds under every fault: a shot is
fired only from an armed row and disarms it in the same step. `BudgetInv` counts
what is open, what was entered today and what the callers are about to enter;
it needs that `/adopt` is not overtaken. `TradeInv` says where the two callers
and the tasks may be together: `TasksFit` (at most one task trades, with a row
state that says so), `CallsFit` (what a caller assumes between its steps is
still true), `CallsApart` (the two do not close the same position), `RowFits`.
`OwnInv` follows the mark of an automatic exit from the row to the sweep that
reads it.

**Stops** (`StopProofs`), one invariant for each property:

* `PerpInv`: contracts confirmed as gone are gone, and the row the sweep holds is
  the row. The snapshot is later than the guard's first sight; that it is later than
  the last add too is not in the code, and holds while the guard confirms or acts
  (`Watches`) only because `add_unseen` is assumed away.
* `SpotFree`: the sell LIMITs that rest are the one memory names, or the one in
  the grace window, or the frame of the sweep knows them, or there are none; and
  there are none from the moment a close holds the lock until its task is over.
* `PerpSingle`: the same for the orders of the perp leg, so none is placed
  beside another.
* `Apart` (`ApartInvariance`): `/stops` under way and a stop that fired, a close past
  the lock, or a run that sells, do not meet. It is where `stops_cut_in` is assumed
  away for the two above and for `SpotInv`.
* `SpotInv`, over `Named` (orders are placed in turn and only spot orders are
  called spot stops): for each of the four observers of a sale, the poll, the
  guard, the grace window and the balance check, what its order executed and
  nobody booked is still in the row (`Unsold`). A fill takes the same from the
  wallet and adds it to the executed quantity; a booking takes it from the row,
  and takes the order from memory or remembers in the grace window how much of
  it was booked.

Only model-checked is liveness (`EveryCommandSettles`, `RunEnds`, `EntrySettles`,
`CancelSettles`, `TakerEnds`, `NakedSpotIsMet`): the prover has neither `ENABLED`
nor fairness. Every safety property and every refinement that a passing run
checks is a theorem.

## 5. Plan

Every component of the inventory that trades or books is modelled at least in
part. Left, in this order:

1. The sweep of exit orders in `EntryRecovery`, which needs the rows of an exit
   in the same module.
2. Two symbols in `Desk`, where the caps of different symbols meet. One symbol
   has all interleavings of one position; the caps count over symbols.

## 6. Statements that do not hold

What the repository says of itself and the models contradict. One of these is
a run. `MCDeskOperator`: `_cmd_exit` clears `exit_auto` but leaves the symbol in
`_auto_passive`, so an operator's `/exit passive` of a position that was closing
passively by itself is still escalated or stood down; live_monitor.py:4036 says
operator exits "keep their no-auto-escalation guarantee".

The others are written down as properties and fault constants; each fails when
TLC is given the property with the fault (or constants) named. They are the
reason why the passing runs leave these faults out.

Commands:

* `NoStaleExecution`: config.py:567 drops old commands "before executing them";
  the clock is read once per drain, so a command behind a slow handler runs
  older than the TTL. `MaxCommands = 2`, `MaxCrashes = 0`.
* Bot, `send_fails`: an exception in `_send` aborts the batch after the offset
  has moved past it (control_bot.py:247-257, 273): `ConfirmedIsRun` fails, later
  commands are silently lost. A bot that dies in mid-batch gets the whole batch
  again, so a command may run twice.

Entries (`EntryRun`, one contract and one order unless noted):

* `place_ambiguous`, 2 contracts in 2 orders: `NeverOversold` fails; the loop
  catches every `ExchangeError` of a place request as a refusal
  (executor.py:1215), the ambiguous one included.
* `cancel_fails`: `NoOrderOutlivesRun` fails; `cancel_perp_order` swallows every
  failure (executor.py:248) and its callers forget the id (1161, 1242), against
  executor.py:249, "Already filled/cancelled is fine; final status comes from
  get_order."
* `poll_fails`: `DeadRunLeavesNothingNaked` fails; an error of `get_order` ends
  the task with a fill unhedged, and nobody is told until the next restart.
* `unwind_ambiguous`, an add: `SpotNeverLeads` fails; `_unwind_perp` sends again
  (executor.py:912).
* `place_ambiguous`, `cancel_fails`, `spot_ambiguous` and `unwind_ambiguous` each
  break `RowsMatchVenues`: an order nobody reads fills, or the fill of a taker
  whose reply was lost is not booked. All but `spot_ambiguous`, which the operator
  is told of, break `LegsMatchOrWarned` too, and `cancel_fails` also
  `NeverOversold`. `poll_fails` breaks none: the position stays in mid-entry.
* `SpotStep = 2`, 2 orders: `LegsMatchOrWarned` fails; `_hedge_spot` rounds each
  increment down (837), and the remainders make a lot nobody hedges.
* `RevertedMeansUnchanged`: executor.py:1289 says "Position unchanged."; an add
  whose first clip stayed and whose second was bought back takes that branch
  with one contract more. `Target = 2`, `Pre = 1`.

Recovery (`EntryRecovery`, one crash, no faults):

* `CancelledHoldsNothing`: the fix-up uses the positions read before the sweep
  booked fills (recovery.py:86) and cancels one that has exposure.
* `LateFillsAreBooked`: an order that filled entirely while the engine was down
  is neither listed as open nor in doubt.
* `SpotMismatchIsReported`: recovery.py:14 names "MEXC balances"; the comparison
  looks at the perp leg only.
* A venue call of the restart itself fails: `reconcile` logs it, tells nobody and
  goes on. `NakedLegIsReported` fails under `listing_fails`, `sweep_fails` and
  `risk_fails`; `NothingRestsAfterSweep` under the first two, and under
  `lookup_fails` together with `place_ambiguous`.

Exits (`ExitRun`):

* two `Callers`, `MaxTasks = 3`: `OneTask` fails; both await the same old task
  and both spawn (executor.py:464-466), against the doc of `_cancel_task`
  (566-570).
* `slow_stops`: `NoOrderOutlivesExit` fails; `/exit now` writes the new mode,
  then waits for the stops to be cancelled (live_monitor.py:2526-2527); the
  passive task reads the mode at its next poll and leaves its loop with its
  buy-back resting (1641-1645), and there is no task left to cancel.
* `stops_stay`: `NakedSpotIsReported` fails; the last sale of a cancelled exit
  finds the balance locked by a stop LIMIT, frees it, says "cancelled them,
  retrying" (executor.py:1611), and the task is over.
* `cut_request`, `place_ambiguous`, `poll_fails`: `NoOrderOutlivesExit` fails; a
  cancellation or an error at the await of the venue ends the task with an order
  whose id nobody has, or nobody uses.
* `cancel_fails`: `NoOrderOutlivesExit`, `RowsMatchAtRest`, `ClosedMeansFlat` and
  `ImplementsLegsDown` fail; `cancel_perp_order` swallows a failed cancel
  (executor.py:245-251) and the run drops the id whatever `get_order` then says, at
  the end of the passive phase (1652-1653), for a repricing (1772-1776) and in the
  handler of CancelledError (1791-1798), against 249, "final status comes from
  get_order". What such an order fills later nobody books or sells the spot of, and
  the position can be CLOSED with it on the book. Everything said of exits above,
  but `OneTask`, `SpotCoversPerp` and the two liveness properties, rests on cancels
  that work.
* `sale_ambiguous`: `SpotCoversPerp` fails, a cleanup sells what may have sold.
  The property leaves out a perp within the hedge guard's tolerance: after an ADL
  the guard sells down to no spot at all (live_monitor.py:1637), so up to
  `Tolerance` contracts stay short without spot.
* `leg_ambiguous`: `RowsMatchAtRest` fails; the first ambiguous leg returns before
  the other's fill is recorded (1459).
* `TakerNakedIsReported`: cancelling an aggressive exit between its legs leaves
  the position OPEN with unequal legs and says nothing. A maker buy-back is not
  reduce-only, so after an ADL it can open a long.

Stops (`StopGuard`):

* `check_first`, `refound`: `SpotNotForgotten` fails; the hedge guard books the
  whole executed quantity of a spot stop that spot integrity (2039), or an
  earlier deficit, has booked (1626-1637; the poll at 1814 does subtract).
* `refused`, `lost_reply`: `SpotNotForgotten` fails; the stop stays on record
  until its buy-back is placed, and an add in between has its sale booked a
  second time (1809-1818). With `lost_reply` two buy-backs rest
  (`StopsDoNotStack`).
* `row_moves`: `SpotNotForgotten` fails, and `risk_stalls`: `PerpNotForgotten`;
  the guard acts on a row or a snapshot from before (3795-3820, 1506-1513).
* `dies_between`: `SpotNotForgotten` fails; a restart between a change at the
  venue and the `stop_orders` row that records it.
* `cancel_fails`: `ExitNotLocked` fails when neither a cancel nor the listing
  works.
* `MaxRestarts = 1`: `NakedSpotIsMet` fails; a crash after the guard booked the
  deficit and before its exit or grace state leaves an OPEN position with no
  perp and naked spot, and no alert (1478-1481 says it is rebalanced). A crash
  between `set_exit_request` and the task leaves OPEN with `exit_mode` set, for
  which stops are never wanted again (1923-1935).
* `stops_cut_in` (nothing fails: `_cmd_stops`, 3082-3113, looks at neither the task
  nor a stop that fired, and reads the row before it waits for the lock and not
  again): `StopsDoNotStack` fails: the poll of a spot stop that filled asks for the
  perp stop, finds it cancelled by a `/stops` that came meanwhile and has placed a new
  one, and sends its buy-back beside it, against 1810, "can't risk two buy-backs"
  (`MaxRenewals = 1` alone, with no command, reduction or restart, shows it).
  `ExitNotLocked` fails: what the hedge guard left to the resting spot LIMIT is
  cancelled by `/stops`, the next sweep sells it by a run of its own, and `/stops` then
  locks it again.
* `add_unseen` (nothing fails either): `PerpNotForgotten` fails; an add that begins
  and ends between two sweeps leaves the confirmation window running, and the guard
  takes a snapshot from before the add for a confirmation: it asks that the snapshot
  be under 45 s old and taken after `opened_ms`, which an add does not move
  (1506-1513).
* A sell-down with a floor that meets its deadline goes OPEN in silence; a
  partly filled perp stop that rests keeps the guard waiting; the partial fill
  of a perp stop that is cancelled is not booked.

Desk:

* `stale_row`: `OnlyWorkingStatesTrade` and `OperatorExitStands` fail; a stand-down
  with an EXITING row read earlier revives a CLOSED position.
* `two_closes`, `done_first` (2526-2529 against executor.py:1839), `add_races`
  (2243, two adds in one batch spawn two tasks), `cancel_races` (`/remove` takes
  no lock): `OnlyWorkingStatesTrade` fails.
* `marks_late` (3695-3702: the automatic mark is set after an await):
  `OperatorExitStands` fails.
* `adopt_races` (3329 checks, 3375 creates, the venues are asked between):
  `ExposureIsBounded` fails.
* Passive exits by convergence are not managed after a restart; `/flatten` skips
  passive exits under way; the state UNWINDING is tested for and never set.

Small parts:

* `Ledger`, `dies_between`: `RowIsDerived` fails until the next `/recompute`.
  `other_buys`: two fills booked at mark in one window are given the same venue
  trades. `/truefill` writes the realised P&L of a position that is OPEN
  (3065-3066).
* `Funding`, `books_late`: the loop's answer, asked for while OPEN, is written
  after the close has read the row (executor.py:1952-1957). `income_fails`: the
  close falls back to an estimate, against 1944, "Live: exact amounts from Aster
  income history". `pays_entering`: what is settled before `opened_ms` is lost,
  against live_monitor.py:899, "over the trade's life".
* `Requests`, `starts_back`: auth.py:51 promises monotonic nonces "even across a
  backward clock step"; a restart forgets the last one.
* `Signals`, `off_board`: score_alerts.py:22-26 says "without a break"; a name
  that leaves the board keeps its clock. `snapshot_fails`: the steps of the slow
  scan are isolated, so a failed snapshot has the old board judged again.
* `ScamScreen`: the file is written before the message is sent (live_monitor.py:882-886),
  so a message that dies between the two is never sent and the coin is quiet for the
  window as if it had been (`dies_unsent`, in the run). `PingsOncePerWindow` allows
  this, as `lost`, and states what follows: no second ping, and the next one when the
  window is over. `dies_writing`: the file is written in place, so a death within
  leaves one that does not parse, which is read as an empty map, and the property
  fails: coins of the window ping twice. `unlisted`: it fails; a name missing from one
  sweep is forgotten at once, inside its window.
* `Sizing`: the sizes stop at the first level that breaks the bound although the
  average has room (executor.py:149-163).

## 7. Not modelled

* `/remove` in `StopGuard`: it cancels all our orders of a position without the stop
  lock. `Desk` has what it does to the position; its meeting with a sweep that
  places stops is not checked.
* Several positions on one symbol, multipliers other than one, decimal
  rounding (fractions in `Ledger`, ticks in `Sizing`).
* `PaperTrader`, which keeps its orders in memory and meets no venue.
* HTTP, signatures, WebSocket streams, Telegram menus, logging and the texts of
  alerts (an alert is the flag `warned` or a history variable).
* The screener and the research scripts: floating-point statistics over quotes
  without state that an interleaving can break. What the board feeds is in
  `Signals`.
* Graceful stops of the engine, after which systemd does not restart it; the
  pruning of old rows.
