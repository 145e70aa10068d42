-------------------------------- MODULE ScamScreen --------------------------------
(***************************************************************************)
(* The hourly scam screen of one coin (live_monitor.py _scam_loop,         *)
(* scam_screen.py): points for what is known of the coin, the two lists it *)
(* can be on, and the map that keeps a name from pinging every sweep.  A   *)
(* sweep plans in memory, writes the map to a file, and then sends the     *)
(* message; the engine can die between any two of these.                   *)
(***************************************************************************)
EXTENDS Integers, FiniteSets

CONSTANTS
    SweepGaps,   \* times between two sweeps
    AlertAge,    \* SCAM_ALERT_REARM_HOURS
    AlertScore,  \* SCAM_ALERT_SCORE
    MaxSweeps, MaxDeaths,
    ScamFaults   \* which of ScamFaultKinds may happen

ScamFaultKinds ==
    {"dies_unsent",   \* the engine dies between the file and the message
     "dies_writing",  \* ... or in the middle of the file, which then does not parse
     "unlisted"}      \* the coin is missing from a sweep, and comes back

ASSUME ScamAssumption ==
    /\ SweepGaps \subseteq Nat \ {0} /\ {AlertAge, AlertScore, MaxSweeps, MaxDeaths} \subseteq Nat
    /\ ScamFaults \subseteq ScamFaultKinds

VARIABLES
    hour,     \* of the last sweep
    alerted,  \* when each list last pinged the coin, Never for no entry
    stored,   \* the same in the snapshot file
    doing,    \* what comes next: the sleep, the file, the message
    unsent,   \* lists of a message not sent yet
    hits,     \* the lists the coin qualified for in the last sweep, if it
              \* was not cut short before its file (history)
    pings,    \* the messages, list and time (history)
    lost,     \* those that were in the file when the engine died unsent (history)
    sweeps, deaths

scamVars == <<hour, alerted, stored, doing, unsent, hits, pings, lost, sweeps, deaths>>

List == {"score", "neg"}
Never == -1
Empty == [l \in List |-> Never]

ScamInit ==
    /\ hour = 0 /\ alerted = Empty /\ stored = Empty /\ unsent = {}
    /\ doing = "rest" /\ hits = {} /\ pings = {} /\ lost = {} /\ sweeps = 0 /\ deaths = 0

-------------------------------------------------------------------------------
\* score.  What a sweep finds out of a coin, each either unknown, plain or worse.

\* Funding paid by longs is above zero; paid by shorts it is below: a little, enough
\* for the second list, and more.
Band == [oi : 0..2, flow : 0..2, funding : {-3, -2, -1, 0, 2, 3}, age : 0..2, cap : 0..2,
         float : 0..1, pumped : 0..1, ran : 0..1]

Points(m) ==
    LET funding == IF m.funding >= 0 THEN m.funding ELSE IF m.funding = -3 THEN 2 ELSE 1
        again == IF m.pumped = 1 /\ m.funding > 0 THEN 1 ELSE 0
    IN m.oi + m.flow + funding + m.age + m.cap + m.float + m.pumped + m.ran + again

\* The coins the sweeps are tried on: some a mark short of the alert score, some at it.
Coins == {m \in Band : /\ m.oi = 2 /\ m.cap = 2 /\ m.float = 0 /\ m.ran = 0 /\ m.flow = 0
                       /\ Points(m) \in {AlertScore - 1, AlertScore}}

\* plan_alert: the lists the coin qualifies for.
Qualifies(m, held) ==
    {l \in List : IF l = "score" THEN Points(m) >= AlertScore
                  ELSE m.funding <= -2 /\ (Points(m) >= AlertScore \/ held)}

\* Deviation: an entry goes as soon as the name stops qualifying.
KeptWhileHit(now, hit, l) == IF l \in hit THEN alerted[l] ELSE Never
\* What stays of an entry that does not ping.
Kept(now, hit, l) ==
    IF l \in hit \/ (alerted[l] # Never /\ now - alerted[l] <= AlertAge) THEN alerted[l] ELSE Never

\* One sweep of _scam_loop, up to the file.
Sweep(gap, listed, hit) ==
    LET now == hour + gap
        new == {l \in hit : alerted[l] = Never \/ now - alerted[l] > AlertAge}
        keep == [l \in List |-> IF l \in new THEN now ELSE IF listed THEN Kept(now, hit, l) ELSE Never]
    IN
    /\ ~listed => "unlisted" \in ScamFaults /\ hit = {}
    /\ doing = "rest" /\ doing' = "file" /\ sweeps < MaxSweeps /\ sweeps' = sweeps + 1
    /\ hour' = now /\ hits' = hit /\ unsent' = new
    /\ alerted' = keep
    /\ UNCHANGED <<stored, pings, lost, deaths>>

WriteMap ==
    /\ doing = "file"
    /\ stored' = alerted
    /\ doing' = IF unsent = {} THEN "rest" ELSE "message"
    /\ UNCHANGED <<hour, alerted, unsent, hits, pings, lost, sweeps, deaths>>

Messages == {[list |-> l, at |-> hour] : l \in unsent}
Ping ==
    /\ doing = "message" /\ doing' = "rest" /\ unsent' = {}
    /\ pings' = pings \cup Messages
    /\ UNCHANGED <<hour, alerted, stored, hits, lost, sweeps, deaths>>

\* The engine restarts and loads the map; a file that does not parse is an empty map.
Reload(map) ==
    /\ deaths < MaxDeaths /\ deaths' = deaths + 1
    /\ doing = "message" => "dies_unsent" \in ScamFaults
    /\ map # stored => map = Empty /\ doing = "file" /\ "dies_writing" \in ScamFaults
    /\ alerted' = map /\ stored' = map /\ unsent' = {} /\ doing' = "rest"
    /\ hits' = IF doing = "file" THEN {} ELSE hits
    /\ lost' = IF doing = "message" THEN lost \cup Messages ELSE lost
    /\ UNCHANGED <<hour, pings, sweeps>>

ScamNext ==
    \/ \E gap \in SweepGaps, listed, held \in BOOLEAN, m \in Coins :
           Sweep(gap, listed, Qualifies(m, held))
    \/ WriteMap \/ Ping \/ (\E map \in {stored, Empty} : Reload(map))

ScamSpec == ScamInit /\ [][ScamNext]_scamVars

-------------------------------------------------------------------------------
\* A list pings a coin at most once per AlertAge, through gaps in which the coin does
\* not qualify and through restarts, one between the file and the message included.
NotTwice == \A p, q \in pings : p.list = q.list /\ p.at < q.at => q.at - p.at > AlertAge

\* After a sweep, a coin that is on a list has been pinged about within AlertAge, unless
\* the engine died with that message in its file, after which the coin is quiet as if
\* it had been sent.
NotMissed ==
    doing = "rest" => \A l \in hits : \E p \in pings \cup lost : p.list = l /\ hour - p.at <= AlertAge

\* The two together: plan_alert's "stays quiet for" the window, and no longer.
PingsOncePerWindow == NotTwice /\ NotMissed
================================================================================
