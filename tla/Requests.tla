--------------------------------- MODULE Requests ---------------------------------
(***************************************************************************)
(* The orders of one leg as they go over the wire: the nonce an Aster      *)
(* request is signed with (auth.py), what an answer is taken to mean       *)
(* (exchange_client.py), the write-ahead intent, and what the caller is    *)
(* told of its order (executor.py LiveTrader).  The caller is a loop that  *)
(* orders what it still wants, and stops when it cannot tell.              *)
(***************************************************************************)
EXTENDS Integers, FiniteSetsExt

CONSTANTS
    Wanted,        \* quantity the caller wants
    Steps,         \* what the wall clock does between two signatures
    Remembered,          \* nonces Aster remembers
    MaxSigned,     \* signed requests in a behaviour
    RequestFaults  \* which of RequestFaultKinds may happen

RequestFaultKinds ==
    {"starts_back",  \* the first nonce after a restart is on a clock that stepped back
     "overtaken"}    \* a request arrives after Remembered later ones

ASSUME RequestAssumption ==
    /\ {Wanted, MaxSigned} \subseteq Nat /\ Remembered \in Nat \ {0} /\ Steps \subseteq Int
    /\ RequestFaults \subseteq RequestFaultKinds

VARIABLES
    leg,      \* "perp": Aster; "spot": MEXC
    wall,     \* the wall clock, in nonces
    lastNonce,\* _last_nonce
    known,    \* external: the nonces Aster remembers
    polls,    \* nonces of other signed requests on their way
    refused,  \* a request was refused for its nonce (history)
    signed,   \* requests signed so far, for the bound
    order,    \* the order request: quantity, nonce, where it is and what it filled
    intent,   \* status of its row in the intents table
    told,     \* quantity the caller was told it filled, over all its orders
    venue     \* external: quantity the orders of the caller filled

requestVars == <<leg, wall, lastNonce, known, polls, refused, signed, order, intent, told, venue>>
wire == <<wall, lastNonce, known, polls, refused, signed>>

NoOrder == [qty |-> 0, nonce |-> 0, at |-> "none", filled |-> 0]

RequestInit ==
    /\ leg \in {"perp", "spot"} /\ wall = 2 /\ lastNonce = 0
    /\ known = {} /\ polls = {} /\ refused = FALSE /\ signed = 0
    /\ order = NoOrder /\ intent = "none" /\ told = 0 /\ venue = 0

-------------------------------------------------------------------------------
\* Signing.

\* next_nonce_us.
NextNonce(now) == Max({now, lastNonce + 1})

\* External: Aster keeps the highest nonces and takes none it has seen or below them.
Takes(nonce) ==
    nonce \notin known /\ (Cardinality(known) >= Remembered => \E k \in known : k < nonce)
Remember(nonce) ==
    LET all == known \cup {nonce} IN IF Cardinality(all) > Remembered THEN all \ {Min(all)} ELSE all

OnWay == polls \cup (IF leg = "perp" /\ order.at = "way" THEN {order.nonce} ELSE {})

\* aster_sign: nobody awaits between the nonce and the request.
Signs(now) ==
    /\ signed < MaxSigned /\ signed' = signed + 1
    /\ now \in {wall + s : s \in Steps} /\ now > 0 /\ wall' = now
    /\ lastNonce = 0 /\ (\E n \in known \cup OnWay : n >= now) => "starts_back" \in RequestFaults
    /\ lastNonce' = NextNonce(now)
    /\ UNCHANGED <<known, refused>>

\* A request arrives, in whatever order.
Delivered(nonce) ==
    /\ Cardinality({n \in known : n > nonce}) >= Remembered => "overtaken" \in RequestFaults
    /\ known' = IF Takes(nonce) THEN Remember(nonce) ELSE known
    /\ refused' = (refused \/ ~Takes(nonce))
    /\ UNCHANGED <<wall, lastNonce, signed>>

\* A poll, a cancel or any other signed request.
SendPoll ==
    /\ leg = "perp" /\ Cardinality(polls) < Remembered
    /\ \E now \in {wall + s : s \in Steps} : Signs(now)
    /\ polls' = polls \cup {lastNonce'}
    /\ UNCHANGED <<leg, order, intent, told, venue>>

PollArrives(nonce) ==
    /\ Delivered(nonce) /\ polls' = polls \ {nonce}
    /\ UNCHANGED <<leg, order, intent, told, venue>>

\* The engine restarts, which takes longer than a nonce: the last one was in memory, and
\* requests on their way may still arrive.
WireRestart ==
    /\ leg = "perp" /\ order = NoOrder /\ lastNonce # 0 /\ lastNonce' = 0
    /\ wall' = Max({wall, lastNonce})
    /\ UNCHANGED <<leg, known, polls, refused, signed, order, intent, told, venue>>

-------------------------------------------------------------------------------
\* perp_taker, spot_taker.

\* The intent is written, the request signed and sent.
SendOrder ==
    /\ order = NoOrder /\ intent # "ambiguous" /\ told < Wanted
    /\ IF leg = "perp" THEN (\E now \in {wall + s : s \in Steps} : Signs(now)) /\ UNCHANGED polls
       ELSE signed < MaxSigned /\ signed' = signed + 1 /\ UNCHANGED <<wall, lastNonce, known, polls, refused>>
    /\ intent' = "pending"
    /\ order' = [qty |-> Wanted - told, nonce |-> lastNonce', at |-> "way", filled |-> 0]
    /\ UNCHANGED <<leg, told, venue>>

\* External: the request reaches the venue, which executes it, or refuses it for its
\* nonce, its size, its rate.
Lands(filled) ==
    /\ order.at = "way"
    /\ IF leg = "perp" THEN Delivered(order.nonce) /\ UNCHANGED polls ELSE UNCHANGED wire
    /\ order' = [order EXCEPT !.at = "done", !.filled = filled]
    /\ filled <= order.qty /\ (leg = "perp" => Takes(order.nonce))
    /\ venue' = venue + filled
    /\ UNCHANGED <<leg, intent, told>>

Bounces ==
    /\ order.at = "way"
    /\ IF leg = "perp" THEN Delivered(order.nonce) /\ UNCHANGED polls ELSE UNCHANGED wire
    /\ order' = [order EXCEPT !.at = "bounced"]
    /\ UNCHANGED <<leg, intent, told, venue>>

\* External: what comes back.  Anything may be lost on either way or be a gateway's
\* page; an order's own answer need not say what it filled (MEXC).
Answers ==
    {"lost", "5xx", "page"}
        \cup (IF order.at = "bounced" THEN {"429", "4xx", "code"} ELSE {})
        \cup (IF order.at = "done" THEN {"result"} ELSE {})
        \cup (IF order.at = "done" /\ leg = "spot" THEN {"bare"} ELSE {})

\* Deviation: a 5xx is an error like another.
Means5xxFailed(answer) ==
    CASE answer \in {"429", "4xx", "code", "5xx"} -> "failed"
      [] answer \in {"page", "lost"} -> "ambiguous"
      [] answer = "result" -> "done"
      [] answer = "bare" -> "asks"

\* _request on an order endpoint, and the exception the caller sees.
Means(answer) ==
    CASE answer \in {"429", "4xx", "code"} -> "failed"
      [] answer \in {"5xx", "page", "lost"} -> "ambiguous"
      [] answer = "result" -> "done"
      [] answer = "bare" -> "asks"

\* The caller hears: of a failure it may order again, of an ambiguous order never.
Hears(verdict) ==
    /\ intent' = verdict
    /\ told' = IF verdict = "done" THEN told + order.filled ELSE told
    /\ order' = IF verdict = "ambiguous" THEN order ELSE NoOrder
    /\ UNCHANGED <<leg, venue>> /\ UNCHANGED wire

Hear(answer) ==
    /\ intent = "pending" /\ order.at # "asked" /\ answer \in Answers
    /\ IF Means(answer) = "asks"
       THEN order' = [order EXCEPT !.at = "asked"] /\ UNCHANGED <<leg, intent, told, venue>> /\ UNCHANGED wire
       ELSE Hears(Means(answer))

\* get_order, when the answer did not say: its failure of any kind is not "nothing filled".
HearFill(answered) ==
    /\ intent = "pending" /\ order.at = "asked"
    /\ Hears(IF answered THEN "done" ELSE "ambiguous")

RequestNext ==
    \/ SendPoll \/ (\E nonce \in polls : PollArrives(nonce)) \/ WireRestart
    \/ SendOrder \/ (\E filled \in 0..Wanted : Lands(filled)) \/ Bounces
    \/ (\E answer \in {"lost", "5xx", "page", "429", "4xx", "code", "result", "bare"} : Hear(answer))
    \/ (\E answered \in BOOLEAN : HearFill(answered))

RequestSpec == RequestInit /\ [][RequestNext]_requestVars

-------------------------------------------------------------------------------
\* What must hold.

\* The caller has been told of every unit its orders filled, unless it knows that it
\* does not know: retries after refusals, late landings and answers without a quantity
\* never make it buy more than it wanted.
ToldIsSo ==
    /\ order = NoOrder => told = venue
    /\ venue <= Wanted

\* A signed request is not refused for its nonce when the clock steps back or requests
\* overtake each other.
NoncesAreTaken == ~refused

RequestsHold == ToldIsSo /\ NoncesAreTaken
================================================================================
