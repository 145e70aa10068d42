--------------------------------- MODULE Signals ---------------------------------
(***************************************************************************)
(* The alerts that start trades: the score of one name on one board, judged*)
(* at every slow scan on the depth another loop fetches (live_monitor.py,  *)
(* score_alerts.AlertState), recorded now and then, and replayed to choose *)
(* the level (/alert auto, /scores).  What an alert starts is Desk's       *)
(* concern, and so is which names the screener ranks.                      *)
(***************************************************************************)
EXTENDS Integers, SequencesExt

CONSTANTS
    Score,        \* scores a name can have
    Levels,       \* levels the operator sets by hand
    Gaps,         \* times between two scans
    Every,        \* SCORE_HISTORY_SECONDS
    Sustain,      \* SCORE_ALERT_SUSTAIN_SECONDS
    Rearm,        \* SCORE_ALERT_REARM_MINUTES
    PerDay,       \* alerts auto_level accepts over the history
    MaxScans, MaxChanges,  \* scans, and changes of the level or restarts, in a behaviour
    SignalFaults  \* which of SignalFaultKinds may happen

SignalFaultKinds ==
    {"off_board",       \* a name leaves the board while its score is held
     "snapshot_fails"}  \* the screener's snapshot raises: the board is the last scan's

ASSUME SignalAssumption ==
    /\ Score \subseteq Nat /\ Levels \subseteq Nat /\ Gaps \subseteq Nat \ {0}
    /\ {Every, Sustain, Rearm, PerDay} \subseteq Nat
    /\ {MaxScans, MaxChanges} \subseteq Nat /\ SignalFaults \subseteq SignalFaultKinds

VARIABLES
    clock,    \* of the last scan
    level,    \* setting "score_alert": the operator's level, Unset when off
    seen,     \* _score_alert_levels: the level the last scan went by
    state,    \* AlertState: _above_since and _last_above of the name, Unset when absent
    board,    \* _board_rows: the name's score and what it is judged on
    depth,    \* watched: _depth_watch_*; known: its five levels are in md.mexc_ask_depth
    recorded, \* _last_score_record
    history,  \* the score_history table, oldest first
    scans,    \* what each scan since the last reset saw, and whether it rang (history)
    looked, changes   \* scans and changes so far, for the bounds

signalVars == <<clock, level, seen, state, board, depth, recorded, history, scans, looked, changes>>

Unset == -1
Fresh == [above |-> Unset, last |-> Unset]
\* What a scan sees of the name that is no score: a row without its real depth, which
\* is not judged, or no row.
Shallow == -2
Off == -3
NoBoard == [row |-> Off, score |-> Unset]
NoDepth == [watched |-> FALSE, known |-> FALSE]

SignalsInit ==
    /\ clock = 0 /\ level \in Levels \cup {Unset} /\ seen = Unset /\ state = Fresh
    /\ board = NoBoard /\ depth = NoDepth /\ recorded = Unset
    /\ history = <<>> /\ scans = <<>> /\ looked = 0 /\ changes = 0

-------------------------------------------------------------------------------
\* AlertState.observe.

\* Deviation: a name that has rung does not re-arm.
ObserveOnce(s, at, score, lv) ==
    LET since == IF s.above = Unset THEN at ELSE s.above
        quiet == s.last # Unset
        rings == ~quiet /\ at - since >= Sustain
    IN IF score < lv THEN [s |-> [s EXCEPT !.above = Unset], rings |-> FALSE]
       ELSE [s |-> [above |-> since, last |-> IF quiet \/ rings THEN at ELSE s.last], rings |-> rings]

Observe(s, at, score, lv) ==
    LET since == IF s.above = Unset THEN at ELSE s.above
        quiet == s.last # Unset /\ at - s.last <= Rearm
        rings == ~quiet /\ at - since >= Sustain
    IN IF score < lv THEN [s |-> [s EXCEPT !.above = Unset], rings |-> FALSE]
       ELSE [s |-> [above |-> since, last |-> IF quiet \/ rings THEN at ELSE s.last], rings |-> rings]

\* simulate: how often the recorded scores would have rung at a level.
Simulate(lv) ==
    FoldLeft(LAMBDA acc, row :
                 LET o == Observe(acc.s, row.at, row.score, lv)
                 IN [s |-> o.s, rings |-> acc.rings + (IF o.rings THEN 1 ELSE 0)],
             [s |-> Fresh, rings |-> 0], history).rings

\* auto_level: from the highest score down, until a level is too noisy.
AutoLevel ==
    LET candidates == {history[i].score : i \in DOMAIN history}
        calm(lv) == Simulate(lv) <= PerDay
        walked == {lv \in candidates : \A c \in candidates : c >= lv => calm(c)}
    IN IF Len(history) < 2 THEN Unset
       ELSE IF walked = {} THEN Max(candidates) + 1 ELSE Min(walked)

-------------------------------------------------------------------------------

\* _refresh_ask_depth: a name no board watches is dropped, one that is watched has its
\* levels fetched, and a failed fetch keeps what there was.
RefreshDepth(fetched) ==
    /\ depth' = [depth EXCEPT !.known = depth.watched /\ (fetched \/ @)]
    /\ UNCHANGED <<clock, level, seen, state, board, recorded, history, scans, looked, changes>>

\* _write_screener_snapshot, of this name: a row that has not got its depth yet has a
\* score all the same.
BoardRow(score, on) ==
    IF ~on THEN NoBoard
    ELSE [row |-> IF depth.known THEN score ELSE Shallow, score |-> score]

\* _record_scores: every row of the board, judged or not.
Recorded(rows, at) ==
    IF rows = NoBoard THEN history ELSE Append(history, [at |-> at, score |-> rows.score])

\* _check_score_alerts: a changed level forgets the episodes first.
Judged(rows, at) ==
    LET before == IF level # seen THEN Fresh ELSE state
    IN IF level = Unset \/ rows.row < 0 THEN [s |-> before, rings |-> FALSE]
       ELSE Observe(before, at, rows.row, level)

\* _slow_scan: its steps are isolated, so the scores are judged and recorded although
\* the snapshot that should have renewed the board failed.
Scan(gap, score, on, near, fails) ==
    LET at == clock + gap
        saw == BoardRow(score, on)
        rows == IF fails THEN board ELSE saw
        o == Judged(rows, at)
        due == recorded = Unset \/ at - recorded >= Every
    IN
    /\ looked < MaxScans /\ looked' = looked + 1
    /\ fails => "snapshot_fails" \in SignalFaults
    /\ (~on => score = Max(Score)) /\ (on => near)
    /\ ~on /\ level = seen /\ state.above # Unset => "off_board" \in SignalFaults
    /\ board' = rows /\ depth' = IF fails THEN depth ELSE [depth EXCEPT !.watched = near]
    /\ clock' = at /\ seen' = level /\ state' = o.s
    /\ recorded' = IF due THEN at ELSE recorded
    /\ history' = IF due THEN Recorded(rows, at) ELSE history
    /\ scans' = Append(IF level # seen THEN <<>> ELSE scans,
                       [at |-> at, row |-> saw.row, rang |-> o.rings])
    /\ UNCHANGED <<level, changes>>

\* /alert: the bot writes the setting, the next scan finds it changed.
SetLevel(lv) ==
    /\ changes < MaxChanges /\ changes' = changes + 1
    /\ lv # level /\ level' = lv
    /\ UNCHANGED <<clock, seen, state, board, depth, recorded, history, scans, looked>>

\* The engine restarts: all but the tables was in memory.
RestartScans ==
    /\ changes < MaxChanges /\ changes' = changes + 1
    /\ state' = Fresh /\ seen' = Unset /\ scans' = <<>>
    /\ board' = NoBoard /\ depth' = NoDepth /\ recorded' = Unset
    /\ UNCHANGED <<clock, level, history, looked>>

SignalsNext ==
    \/ \E gap \in Gaps, score \in Score, on, near, fails \in BOOLEAN : Scan(gap, score, on, near, fails)
    \/ \E fetched \in BOOLEAN : RefreshDepth(fetched)
    \/ \E lv \in Levels \cup {Unset} : SetLevel(lv)
    \/ AutoLevel # Unset /\ SetLevel(AutoLevel)
    \/ RestartScans

SignalsSpec == SignalsInit /\ [][SignalsNext]_signalVars

-------------------------------------------------------------------------------
\* What must hold, of the scans since the level was set or the engine started.

High(i) == scans[i].row >= seen
Low(i) == scans[i].row # Shallow /\ scans[i].row < seen

\* A score that rings has been at or above the level, without a scan that saw it
\* below, for Sustain or longer.
HeldLongEnough ==
    \A j \in DOMAIN scans : scans[j].rang =>
        \E i \in 1..j : /\ High(i) /\ scans[j].at - scans[i].at >= Sustain
                        /\ \A k \in i..j : ~Low(k)

\* Between two alerts of a name it was away from the level for more than Rearm: a
\* score hovering on the line does not ring at every crossing.
AwayBetween ==
    \A i, j \in DOMAIN scans : i < j /\ scans[i].rang /\ scans[j].rang =>
        \E a, b \in i..j : /\ High(a) /\ High(b) /\ scans[b].at - scans[a].at > Rearm
                           /\ \A k \in a + 1 .. b - 1 : ~High(k)

\* The episode of an alert lasts while the next high scan comes within Rearm of the last.
Lasts(k, j) ==
    \A a, b \in k..j :
        a < b /\ High(a) /\ High(b) /\ (\A c \in a + 1 .. b - 1 : ~High(c))
        => scans[b].at - scans[a].at <= Rearm

\* A score that holds is not missed: once it has been held for Sustain it rings, or it
\* is still in the episode of an alert.  A name that was away for longer than Rearm is
\* in none, and rings again.
HeldIsHeard ==
    \A i, j \in DOMAIN scans :
        /\ i <= j /\ High(j) /\ scans[j].at - scans[i].at >= Sustain
        /\ \A k \in i..j : High(k)
        => \E k \in 1..j : scans[k].rang /\ Lasts(k, j)

AlertsHold == seen # Unset => HeldLongEnough /\ AwayBetween /\ HeldIsHeard
================================================================================
