------------------------------ MODULE PartsProofs ------------------------------
(***************************************************************************)
(* Proofs about six small parts of the system.                             *)
(*                                                                         *)
(* Funding: for any payments and any number of them, of crashes, sweeps    *)
(* and partial exits, a closed position has booked and counted what it was *)
(* paid, once: when the venue answers the close, the loop's answers do not *)
(* come after it has begun, and nothing is paid before the entry is done.  *)
(*                                                                         *)
(* Requests: for any quantities, clock steps and number of requests, the   *)
(* caller is told what its orders filled or that this is not known, and no *)
(* request is refused for its nonce: when a restart does not sign behind   *)
(* the nonces before it, and no request is overtaken by as many as Aster   *)
(* remembers.                                                              *)
(*                                                                         *)
(* Bot: for any number of updates and of deaths of the bot, Telegram       *)
(* forgets no command that was not run, as long as sending a reply does    *)
(* not raise.                                                              *)
(*                                                                         *)
(* ScamScreen: for any points, sweeps, restarts and window, a list pings a *)
(* coin at most once per window, wherever the engine dies; and a coin on a *)
(* list was announced within it, or the engine died with the message: when *)
(* every sweep has all coins and no file is torn.                          *)
(*                                                                         *)
(* Signals: for any scores, levels, scan times, windows and restarts, a    *)
(* score that is held long enough rings, or is in an episode that lasts,   *)
(* and rings again after it was away: when the snapshot works and no name  *)
(* leaves the board meanwhile.                                             *)
(*                                                                         *)
(* Sizing: for books of any depth and any prices, quantities and bounds,   *)
(* what is computed twice agrees: the plan of an entry with the gate of    *)
(* its hedge, and the target of an exit with the opportunity it answers.   *)
(***************************************************************************)
EXTENDS LedgerProofs, Funding, Requests, Bot, ScamScreen, Signals, Sizing, SequenceTheorems

FundingTypes ==
    /\ stage \in {"ENTERING", "OPEN", "EXITING", "CLOSED"}
    /\ paid \in Seq(Int) /\ booked \in Int
    /\ sweep \in [until : Int, held : Int] /\ accrual \in [until : Int, held : Int]

\* Nothing is paid before the first OPEN, so the window begins with the life.
OpenedFirst ==
    /\ opened = IF stage = "ENTERING" THEN Nothing ELSE 0
    /\ stage = "ENTERING" => paid = <<>>

\* The loop asks for records there are.
SweepIsPast == sweep # Idle => stage # "ENTERING" /\ sweep.until \in 0..Len(paid)

\* The close works on the row as it is and asks for all there is; what it leaves on the
\* row is all there is.
CloseIsWhole ==
    /\ accrual # Idle => /\ stage = "EXITING"
                         /\ accrual.held = booked /\ accrual.until = Len(paid)
    /\ stage = "CLOSED" => accrual = Idle /\ booked = Total(Len(paid)) /\ counted = booked

FundingInv == FundingTypes /\ OpenedFirst /\ SweepIsPast /\ CloseIsWhole

\* A running total is an integer.
LEMMA TotalIsInt == ASSUME paid \in Seq(Int), NEW n \in 0..Len(paid) PROVE Total(n) \in Int
  BY DEF Total

LEMMA FundingInvInit == FundingInit => FundingInv
  BY DEF FundingInit, FundingInv, FundingTypes, OpenedFirst, SweepIsPast, CloseIsWhole,
         Idle, Nothing

\* Without the three faults every step keeps the books whole.
LEMMA FundingInvStep ==
    ASSUME FundingFaults = {}, FundingInv, [FundingNext]_fundingVars
    PROVE  FundingInv'
<1> USE FundingAssumption DEF FundingInv, FundingTypes, OpenedFirst, SweepIsPast, CloseIsWhole
<1>1. ASSUME NEW amount \in Payment, Pays(amount) PROVE FundingInv'
  <2>1. /\ accrual = Idle /\ accrual' = Idle /\ stage \notin {"CLOSED", "ENTERING"}
        /\ UNCHANGED <<stage, opened, booked, sweep, counted>>
    BY <1>1 DEF Pays
  <2>2. Total(Len(paid)) + amount \in Int
    BY TotalIsInt
  <2>3. paid' \in Seq(Int) /\ Len(paid') = Len(paid) + 1
    BY <1>1, <2>2 DEF Pays
  <2> QED
    BY <2>1, <2>3
<1>2. ASSUME NEW to \in {"OPEN", "EXITING"}, Moves(to) PROVE FundingInv'
  BY <1>2 DEF Moves, Nothing
<1>3. CASE AsksIncome
  BY <1>3 DEF AsksIncome
<1>4. ASSUME NEW answered \in BOOLEAN, SetsFunding(answered) PROVE FundingInv'
  <2>1. Income(sweep.until) \in Int
    BY <1>4, TotalIsInt DEF SetsFunding, Income
  <2> QED
    BY <1>4, <2>1 DEF SetsFunding, Idle
<1>5. CASE Closes
  BY <1>5 DEF Closes
<1>6. ASSUME NEW figure, NEW dies \in BOOLEAN, Accrues(figure, dies) PROVE FundingInv'
  <2>1. /\ figure = Income(Len(paid)) /\ opened = 0
        /\ stage = "EXITING" /\ accrual.held = booked
    BY <1>6 DEF Accrues
  <2>2. figure = Total(Len(paid)) /\ figure \in Int
    BY <2>1, TotalIsInt DEF Income, Total
  <2>3. booked' = Total(Len(paid)) /\ booked' \in Int
    BY <1>6, <2>1, <2>2 DEF Accrues
  <2>4. Total(Len(paid))' = Total(Len(paid))
    BY <1>6 DEF Accrues, Total
  <2> QED
    BY <1>6, <2>1, <2>3, <2>4 DEF Accrues, Idle, Nothing
<1>7. CASE FundingRestart
  BY <1>7 DEF FundingRestart, Idle, Nothing, Total
<1>8. CASE UNCHANGED fundingVars
  BY <1>8 DEF fundingVars, Total
<1> QED
  BY <1>1, <1>2, <1>3, <1>4, <1>5, <1>6, <1>7, <1>8 DEF FundingNext

\* Every payment of a closed position's life is on its row and in its realised P&L,
\* once, for any payments, crashes, sweeps and partial exits.
THEOREM FundingIsPaidOnce == FundingFaults = {} /\ FundingSpec => []FundingIsPaid
<1> SUFFICES ASSUME FundingFaults = {} PROVE FundingSpec => []FundingIsPaid
  OBVIOUS
<1>1. FundingInv => FundingIsPaid
  BY DEF FundingInv, CloseIsWhole, FundingIsPaid
<1>2. FundingInv /\ [FundingNext]_fundingVars => FundingInv'
  BY FundingInvStep
<1> QED
  BY <1>1, <1>2, FundingInvInit, PTL DEF FundingSpec

-------------------------------------------------------------------------------
OrderType == [qty : Int, nonce : Int, at : {"none", "way", "done", "bounced", "asked"}, filled : Int]

RequestTypes ==
    /\ wall \in Int /\ lastNonce \in Nat /\ known \subseteq Int /\ polls \subseteq Int
    /\ order \in OrderType /\ told \in Int /\ venue \in Int

\* Every nonce is used once: none on its way has arrived, and the next one is above all,
\* unless the engine has forgotten the last.
NoncesOnce ==
    /\ known \cap polls = {}
    /\ leg = "perp" /\ order.at = "way" => order.nonce \notin known \cup polls
    /\ lastNonce # 0 => \A n \in known \cup OnWay : n <= lastNonce
    /\ ~refused

\* What the venue has filled and the caller was not told is the order at hand.
FillsAccounted ==
    /\ told + (IF order.at \in {"done", "asked"} THEN order.filled ELSE 0) = venue
    /\ told <= Wanted /\ venue <= Wanted
    /\ order.at = "none" <=> order = NoOrder
    /\ order.at # "none" => order.qty = Wanted - told

RequestInv == RequestTypes /\ NoncesOnce /\ FillsAccounted

LEMMA LargerOfTwo ==
    ASSUME NEW a \in Int, NEW b \in Int
    PROVE  Max({a, b}) \in Int /\ Max({a, b}) >= a /\ Max({a, b}) >= b
<1>1. \E x \in {a, b} : \A y \in {a, b} : x >= y
  OBVIOUS
<1> QED
  BY <1>1 DEF Max

LEMMA RequestInvInit == RequestInit => RequestInv
  BY RequestAssumption
  DEF RequestInit, RequestInv, RequestTypes, NoncesOnce, FillsAccounted, NoOrder, OrderType, OnWay

\* A signature is above everything Aster has or will have seen.
LEMMA SignsAbove ==
    ASSUME RequestFaults = {}, RequestInv, NEW now, Signs(now)
    PROVE  /\ lastNonce' \in Nat \ {0} /\ wall' \in Int
           /\ \A n \in known \cup OnWay : n < lastNonce'
<1>1. now \in Int /\ now > 0 /\ lastNonce \in Nat /\ known \cup OnWay \subseteq Int
  <2>1. order.nonce \in Int
    BY DEF RequestInv, RequestTypes, OrderType
  <2>2. now \in Int
    BY RequestAssumption DEF Signs, RequestInv, RequestTypes
  <2> QED
    BY <2>1, <2>2 DEF Signs, RequestInv, RequestTypes, OnWay
<1>2. lastNonce' >= now /\ lastNonce' >= lastNonce + 1 /\ lastNonce' \in Int
  <2>1. lastNonce' = Max({now, lastNonce + 1})
    BY DEF Signs, NextNonce
  <2>2. lastNonce + 1 \in Int
    BY <1>1
  <2> QED
    BY <1>1, <2>1, <2>2, LargerOfTwo
<1>3. CASE lastNonce = 0
  BY <1>1, <1>2, <1>3 DEF Signs
<1>4. CASE lastNonce # 0
  BY <1>1, <1>2, <1>4 DEF RequestInv, NoncesOnce, Signs
<1> QED
  BY <1>1, <1>2, <1>3, <1>4 DEF Signs

\* A request that was not overtaken by as many as Aster remembers is not refused.
LEMMA DeliveredIsTaken ==
    ASSUME RequestFaults = {}, RequestInv, NEW nonce \in Int \ known, Delivered(nonce)
    PROVE  /\ Takes(nonce) /\ ~refused' /\ known' \subseteq known \cup {nonce}
           /\ UNCHANGED <<wall, lastNonce, signed>>
<1>1. ASSUME \E k \in known : k < nonce PROVE Takes(nonce)
  BY <1>1 DEF Takes
<1>2. ASSUME ~ \E k \in known : k < nonce PROVE Takes(nonce)
  <2>1. ASSUME NEW n \in known PROVE n > nonce
    <3>1. n \in Int /\ nonce \in Int /\ n # nonce /\ ~(n < nonce)
      BY <1>2 DEF RequestInv, RequestTypes
    <3> QED
      BY <3>1
  <2>2. {n \in known : n > nonce} = known
    BY <2>1
  <2> QED
    BY <2>2 DEF Delivered, Takes
<1>3. Takes(nonce)
  BY <1>1, <1>2
<1> QED
  BY <1>3 DEF Delivered, Remember, RequestInv, NoncesOnce

\* Signing and arriving keep nonces used once.
LEMMA NonceStep ==
    ASSUME RequestFaults = {}, RequestInv, [RequestNext]_requestVars
    PROVE  NoncesOnce' /\ (wall \in Int /\ lastNonce \in Nat /\ known \subseteq Int /\ polls \subseteq Int)'
<1> USE DEF RequestInv, RequestTypes, OrderType
<1>1. CASE SendPoll
  <2>1. PICK now \in {wall + s : s \in Steps} : Signs(now)
    BY <1>1 DEF SendPoll
  <2>2. /\ lastNonce' \in Nat \ {0} /\ wall' \in Int
        /\ \A n \in known \cup OnWay : n < lastNonce'
    BY <2>1, SignsAbove
  <2>3. /\ known' = known /\ refused' = refused /\ polls' = polls \cup {lastNonce'}
        /\ UNCHANGED <<leg, order>>
    BY <1>1, <2>1 DEF SendPoll, Signs
  <2>4. lastNonce' \notin known \cup OnWay
    BY <2>2
  <2>5. /\ known' \cap polls' = {} /\ ~refused'
        /\ leg' = "perp" /\ order'.at = "way" => order'.nonce \notin known' \cup polls'
    BY <2>3, <2>4 DEF NoncesOnce, OnWay
  <2>6. ASSUME NEW n \in known' \cup OnWay' PROVE n <= lastNonce'
    <3>1. n \in known \cup OnWay \/ n = lastNonce'
      BY <2>3, <2>6 DEF OnWay
    <3>2. known \cup OnWay \subseteq Int
      BY DEF OnWay
    <3> QED
      BY <2>2, <3>1, <3>2
  <2>7. NoncesOnce'
    BY <2>5, <2>6 DEF NoncesOnce
  <2> QED
    BY <2>2, <2>3, <2>7
<1>2. ASSUME NEW nonce \in polls, PollArrives(nonce)
      PROVE  NoncesOnce' /\ (wall \in Int /\ lastNonce \in Nat /\ known \subseteq Int /\ polls \subseteq Int)'
  <2>1. nonce \in Int \ known
    BY DEF NoncesOnce
  <2>2. /\ ~refused' /\ known' \subseteq known \cup {nonce}
        /\ UNCHANGED <<wall, lastNonce>>
    BY <1>2, <2>1, DeliveredIsTaken DEF PollArrives
  <2>3. polls' = polls \ {nonce} /\ UNCHANGED <<leg, order>>
    BY <1>2 DEF PollArrives
  <2> QED
    BY <2>1, <2>2, <2>3 DEF NoncesOnce, OnWay
<1>3. CASE WireRestart
  <2>1. wall \in Int /\ lastNonce \in Int /\ wall' = Max({wall, lastNonce})
    BY <1>3 DEF WireRestart
  <2>2. wall' \in Int
    BY <2>1, LargerOfTwo
  <2> QED
    BY <1>3, <2>2 DEF WireRestart, NoncesOnce, NoOrder
<1>4. CASE SendOrder
  <2>1. CASE leg = "perp"
    <3>1. PICK now \in {wall + s : s \in Steps} : Signs(now)
      BY <1>4, <2>1 DEF SendOrder
    <3>2. /\ lastNonce' \in Nat \ {0} /\ wall' \in Int
          /\ \A n \in known \cup OnWay : n < lastNonce'
      BY <3>1, SignsAbove
    <3>3. /\ known' = known /\ refused' = refused /\ polls' = polls /\ leg' = leg
          /\ order'.at = "way" /\ order'.nonce = lastNonce'
      BY <1>4, <2>1, <3>1 DEF SendOrder, Signs
    <3>4. lastNonce' \notin known \cup OnWay
      BY <3>2
    <3>5. /\ known' \cap polls' = {} /\ ~refused'
          /\ order'.nonce \notin known' \cup polls'
      BY <3>3, <3>4 DEF NoncesOnce, OnWay
    <3>6. ASSUME NEW n \in known' \cup OnWay' PROVE n <= lastNonce'
      <4>1. n \in known \cup OnWay \/ n = lastNonce'
        BY <3>3, <3>6 DEF OnWay
      <4>2. known \cup OnWay \subseteq Int
        BY DEF OnWay
      <4> QED
        BY <3>2, <4>1, <4>2
    <3>7. NoncesOnce'
      BY <3>5, <3>6 DEF NoncesOnce
    <3> QED
      BY <3>2, <3>3, <3>7
  <2>2. CASE leg # "perp"
    BY <1>4, <2>2 DEF SendOrder, NoncesOnce, OnWay
  <2> QED
    BY <2>1, <2>2
<1>5. ASSUME (\E filled \in 0..Wanted : Lands(filled)) \/ Bounces
      PROVE  NoncesOnce' /\ (wall \in Int /\ lastNonce \in Nat /\ known \subseteq Int /\ polls \subseteq Int)'
  <2>1. /\ order.at = "way" /\ order'.at \in {"done", "bounced"} /\ leg' = leg
        /\ IF leg = "perp" THEN Delivered(order.nonce) /\ UNCHANGED polls ELSE UNCHANGED wire
    BY <1>5 DEF Lands, Bounces
  <2>2. CASE leg = "perp"
    <3>1. order.nonce \in Int \ known
      BY <2>1, <2>2 DEF NoncesOnce
    <3>2. /\ ~refused' /\ known' \subseteq known \cup {order.nonce}
          /\ UNCHANGED <<wall, lastNonce>>
      BY <2>1, <2>2, <3>1, DeliveredIsTaken
    <3> QED
      BY <2>1, <2>2, <3>1, <3>2 DEF NoncesOnce, OnWay
  <2>3. CASE leg # "perp"
    BY <2>1, <2>3 DEF NoncesOnce, OnWay, wire
  <2> QED
    BY <2>2, <2>3
<1>6. ASSUME UNCHANGED <<leg, wire>>, order'.at # "way" \/ UNCHANGED order
      PROVE  NoncesOnce' /\ (wall \in Int /\ lastNonce \in Nat /\ known \subseteq Int /\ polls \subseteq Int)'
  BY <1>6 DEF NoncesOnce, OnWay, wire
<1>7. ASSUME NEW answer, Hear(answer)
      PROVE  UNCHANGED <<leg, wire>> /\ (order'.at # "way" \/ UNCHANGED order)
  BY <1>7 DEF Hear, Hears, NoOrder
<1>8. ASSUME NEW answered, HearFill(answered)
      PROVE  UNCHANGED <<leg, wire>> /\ (order'.at # "way" \/ UNCHANGED order)
  BY <1>8 DEF HearFill, Hears, NoOrder
<1>9. UNCHANGED requestVars => UNCHANGED <<leg, wire, order>>
  BY DEF requestVars, wire
<1> QED
  BY <1>1, <1>2, <1>3, <1>4, <1>5, <1>6, <1>7, <1>8, <1>9 DEF RequestNext

\* The last nonce stays a number, whoever signs.
LEMMA SignedIsInt ==
    ASSUME RequestInv, SendOrder PROVE lastNonce' \in Int
<1>1. CASE leg = "perp"
  <2>1. PICK now \in {wall + s : s \in Steps} : Signs(now)
    BY <1>1 DEF SendOrder
  <2>2. now \in Int /\ lastNonce + 1 \in Int
    BY <2>1, RequestAssumption DEF RequestInv, RequestTypes
  <2> QED
    BY <2>1, <2>2, LargerOfTwo DEF Signs, NextNonce
<1>2. CASE leg # "perp"
  BY <1>2 DEF SendOrder, RequestInv, RequestTypes
<1> QED
  BY <1>1, <1>2

\* What the caller is told, and when it is not, follows what the order at hand filled.
LEMMA FillStep ==
    ASSUME RequestInv, [RequestNext]_requestVars
    PROVE  FillsAccounted' /\ (order \in OrderType /\ told \in Int /\ venue \in Int)'
<1> USE RequestAssumption DEF RequestInv, RequestTypes, OrderType, FillsAccounted
<1> DEFINE Accounted == FillsAccounted /\ order \in OrderType /\ told \in Int /\ venue \in Int
<1>1. ASSUME UNCHANGED <<order, told, venue>> PROVE Accounted'
  BY <1>1
<1>2. SendPoll \/ WireRestart \/ (\E nonce \in polls : PollArrives(nonce)) \/ UNCHANGED requestVars
        => UNCHANGED <<order, told, venue>>
  BY DEF SendPoll, WireRestart, PollArrives, requestVars
<1>3. CASE SendOrder
  <2>1. order = NoOrder /\ told = venue /\ told < Wanted /\ UNCHANGED <<told, venue>>
    BY <1>3 DEF SendOrder, NoOrder
  <2>2. lastNonce' \in Int
    BY <1>3, SignedIsInt DEF SendOrder
  <2>3. order' = [qty |-> Wanted - told, nonce |-> lastNonce', at |-> "way", filled |-> 0]
    BY <1>3 DEF SendOrder
  <2>4. Wanted \in Int /\ order' \in OrderType
    BY <2>2, <2>3
  <2> QED
    BY <2>1, <2>3, <2>4 DEF NoOrder
<1>4. ASSUME NEW filled \in 0..Wanted, Lands(filled) PROVE Accounted'
  <2>1. order.at = "way" /\ filled <= order.qty /\ venue' = venue + filled /\ told' = told
    BY <1>4 DEF Lands
  <2>2. order' = [order EXCEPT !.at = "done", !.filled = filled]
    BY <1>4 DEF Lands
  <2>3. order' \in OrderType /\ order'.at = "done" /\ order'.filled = filled /\ order'.qty = order.qty
    <3>1. filled \in Int
      OBVIOUS
    <3> QED
      BY <2>2, <3>1
  <2> QED
    BY <2>1, <2>3 DEF NoOrder
<1>5. CASE Bounces
  <2>1. /\ order.at = "way" /\ UNCHANGED <<told, venue>>
        /\ order' = [order EXCEPT !.at = "bounced"]
    BY <1>5 DEF Bounces
  <2>2. order' \in OrderType /\ order'.at = "bounced" /\ order'.qty = order.qty
    BY <2>1
  <2> QED
    BY <2>1, <2>2 DEF NoOrder
<1>6. ASSUME NEW verdict, Hears(verdict), order.at # "none",
             verdict = "done" => order.at \in {"done", "asked"},
             verdict = "failed" => order.at = "bounced",
             verdict \in {"done", "failed", "ambiguous"}
      PROVE  Accounted'
  <2>1. venue' = venue
    BY <1>6 DEF Hears
  <2>2. CASE verdict = "done"
    <3>1. told' = told + order.filled /\ order' = NoOrder
      BY <1>6, <2>2 DEF Hears
    <3> QED
      BY <1>6, <2>1, <2>2, <3>1 DEF NoOrder
  <2>3. CASE verdict = "failed"
    <3>1. told' = told /\ order' = NoOrder
      BY <1>6, <2>3 DEF Hears
    <3> QED
      BY <1>6, <2>1, <2>3, <3>1 DEF NoOrder
  <2>4. CASE verdict = "ambiguous"
    BY <1>6, <2>1, <2>4, <1>1 DEF Hears
  <2> QED
    BY <1>6, <2>2, <2>3, <2>4
<1>7. ASSUME NEW answer \in {"lost", "5xx", "page", "429", "4xx", "code", "result", "bare"}, Hear(answer)
      PROVE  Accounted'
  <2>1. CASE answer = "bare"
    <3>1. Means(answer) = "asks"
      BY <2>1 DEF Means
    <3>2. /\ order.at = "done" /\ UNCHANGED <<told, venue>>
          /\ order' = [order EXCEPT !.at = "asked"]
      BY <1>7, <2>1, <3>1 DEF Hear, Answers
    <3>3. order' \in OrderType /\ order'.at = "asked" /\ order'.qty = order.qty
          /\ order'.filled = order.filled
      BY <3>2
    <3> QED
      BY <3>2, <3>3 DEF NoOrder
  <2>2. CASE answer = "result"
    <3>1. Means(answer) = "done" /\ order.at = "done" /\ Hears("done")
      BY <1>7, <2>2 DEF Hear, Answers, Means
    <3> QED
      BY <1>6, <3>1
  <2>3. CASE answer \in {"429", "4xx", "code"}
    <3>1. Means(answer) = "failed" /\ order.at = "bounced" /\ Hears("failed")
      BY <1>7, <2>3 DEF Hear, Answers, Means
    <3> QED
      BY <1>6, <3>1
  <2>4. CASE answer \in {"lost", "5xx", "page"}
    <3>1. Means(answer) = "ambiguous" /\ Hears("ambiguous")
      BY <1>7, <2>4 DEF Hear, Means
    <3> QED
      BY <1>1, <3>1 DEF Hears
  <2> QED
    BY <2>1, <2>2, <2>3, <2>4
<1>8. ASSUME NEW answered \in BOOLEAN, HearFill(answered) PROVE Accounted'
  BY <1>6, <1>8 DEF HearFill
<1> QED
  BY <1>1, <1>2, <1>3, <1>4, <1>5, <1>7, <1>8 DEF RequestNext

\* Of any order the caller is told what it filled, or that nobody knows; of any signed
\* request Aster takes the nonce.
THEOREM RequestsAreTold == RequestFaults = {} /\ RequestSpec => []RequestsHold
<1> SUFFICES ASSUME RequestFaults = {} PROVE RequestSpec => []RequestsHold
  OBVIOUS
<1>1. RequestInv => RequestsHold
  BY DEF RequestInv, RequestTypes, NoncesOnce, FillsAccounted, RequestsHold, ToldIsSo,
         NoncesAreTaken, NoOrder
<1>2. RequestInv /\ [RequestNext]_requestVars => RequestInv'
  <2> SUFFICES ASSUME RequestInv, [RequestNext]_requestVars PROVE RequestInv'
    OBVIOUS
  <2> QED
    BY NonceStep, FillStep DEF RequestInv, RequestTypes
<1> QED
  BY <1>1, <1>2, RequestInvInit, PTL DEF RequestSpec

-------------------------------------------------------------------------------
BotTypes ==
    /\ inbox \in Seq(UpdateKinds) /\ ran \in Seq(Nat) /\ Len(ran) = Len(inbox)
    /\ confirmed \in 0..Len(inbox) /\ offset \in 0..Len(inbox)
    /\ todo \in Nat \ {0}

\* What Telegram has dropped, and what the loop has passed of the batch it holds, ran;
\* so did the command whose reply is still to be sent.
PassedIsRun ==
    /\ \A u \in 1..Len(inbox) :
           (u <= confirmed \/ (u <= offset /\ u < todo)) /\ Acts(u) => ran[u] > 0
    /\ owed => todo <= offset /\ ran[todo] > 0

BotInv == BotTypes /\ PassedIsRun

LEMMA BotInvInit == BotInit => BotInv
<1> SUFFICES ASSUME BotInit PROVE BotInv
  OBVIOUS
<1>1. Len(inbox) = 0 /\ Len(ran) = 0
  BY DEF BotInit
<1>2. BotTypes
  BY <1>1 DEF BotInit, BotTypes
<1>3. PassedIsRun
  BY <1>1 DEF BotInit, PassedIsRun
<1> QED
  BY <1>2, <1>3 DEF BotInv

LEMMA BotInvStep ==
    ASSUME "send_fails" \notin BotFaults, BotInv, [BotNext]_botVars
    PROVE  BotInv'
<1> USE DEF BotInv, BotTypes, PassedIsRun, Acts
<1>1. ASSUME NEW kind \in UpdateKinds, Arrive(kind) PROVE BotInv'
  <2>1. /\ inbox' = Append(inbox, kind) /\ ran' = Append(ran, 0)
        /\ UNCHANGED <<confirmed, offset, todo, owed>>
    BY <1>1 DEF Arrive
  <2>2. BotTypes'
    BY <2>1
  <2>3. \A u \in 1..Len(inbox) : inbox'[u] = inbox[u] /\ ran'[u] = ran[u]
    BY <2>1
  <2>4. Len(inbox') = Len(inbox) + 1
    BY <2>1
  <2>5. PassedIsRun'
    BY <2>1, <2>2, <2>3, <2>4
  <2> QED
    BY <2>2, <2>5
<1>2. ASSUME NEW dropped \in BOOLEAN, GetUpdates(dropped) PROVE BotInv'
  BY <1>2 DEF GetUpdates
<1>3. CASE Dispatch
  <2>1. todo \in 1..Len(inbox) /\ todo <= offset /\ ~owed
    BY <1>3 DEF Dispatch
  <2>2. CASE inbox[todo] # "ignored"
    <3>1. /\ ran' = [ran EXCEPT ![todo] = @ + 1] /\ owed' = TRUE
          /\ UNCHANGED <<inbox, confirmed, offset, todo>>
      BY <1>3, <2>2 DEF Dispatch
    <3>2. BotTypes' /\ ran'[todo] > 0 /\ \A u \in 1..Len(inbox) : ran'[u] >= ran[u]
      BY <2>1, <3>1
    <3> QED
      BY <2>1, <3>1, <3>2
  <2>3. CASE inbox[todo] = "ignored"
    BY <1>3, <2>1, <2>3 DEF Dispatch
  <2> QED
    BY <2>2, <2>3
<1>4. ASSUME NEW fails \in BOOLEAN, Reply(fails) PROVE BotInv'
  <2>1. /\ owed /\ owed' = FALSE /\ todo' = todo + 1
        /\ UNCHANGED <<inbox, ran, confirmed, offset>>
    BY <1>4 DEF Reply
  <2>2. BotTypes'
    BY <2>1
  <2>3. PassedIsRun'
    BY <2>1
  <2> QED
    BY <2>2, <2>3
<1>5. CASE Kill
  <2>1. /\ offset' = 0 /\ todo' = 1 /\ owed' = FALSE
        /\ UNCHANGED <<inbox, ran, confirmed>>
    BY <1>5 DEF Kill
  <2>2. BotTypes'
    BY <2>1
  <2>3. PassedIsRun'
    BY <2>1
  <2> QED
    BY <2>2, <2>3
<1>6. CASE UNCHANGED botVars
  BY <1>6 DEF botVars
<1> QED
  BY <1>1, <1>2, <1>3, <1>4, <1>5, <1>6 DEF BotNext

\* Whenever the bot dies and however often, every command Telegram no longer holds has
\* been run.
THEOREM ForgottenIsRun == "send_fails" \notin BotFaults /\ BotSpec => []ConfirmedIsRun
<1> SUFFICES ASSUME "send_fails" \notin BotFaults PROVE BotSpec => []ConfirmedIsRun
  OBVIOUS
<1>1. BotInv => ConfirmedIsRun
  BY DEF BotInv, BotTypes, PassedIsRun, ConfirmedIsRun
<1>2. BotInv /\ [BotNext]_botVars => BotInv'
  BY BotInvStep
<1> QED
  BY <1>1, <1>2, BotInvInit, PTL DEF BotSpec
-------------------------------------------------------------------------------
ScamTypes ==
    /\ hour \in Nat /\ alerted \in [List -> Nat \cup {Never}] /\ stored \in [List -> Nat \cup {Never}]
    /\ unsent \subseteq List /\ hits \subseteq List
    /\ pings \subseteq [list : List, at : Nat] /\ lost \subseteq [list : List, at : Nat]
    /\ doing \in {"rest", "file", "message"}
    /\ doing = "rest" => unsent = {}
    /\ doing # "file" => stored = alerted

\* The messages, the lost ones as if they had been sent.
Marks == pings \cup lost

\* A map holds the last message of each list, those not sent yet included, until it is
\* older than the window.
Tells(map, open) ==
    /\ \A l \in List : map[l] # Never /\ l \notin open => [list |-> l, at |-> map[l]] \in Marks
    /\ \A p \in Marks : IF map[p.list] = Never THEN hour - p.at > AlertAge ELSE p.at <= map[p.list]

\* The map in memory does; the file, until it is written, without the new messages.
MapIsLastPing == Tells(alerted, unsent) /\ (doing = "file" => Tells(stored, {}))

\* A list that is about to ping has not for longer than the window; one the coin is on
\* has, or is about to.
PingIsDue ==
    /\ \A l \in unsent : alerted[l] = hour
    /\ \A p \in Marks : p.list \in unsent => hour - p.at > AlertAge
    /\ \A l \in hits : alerted[l] # Never /\ hour - alerted[l] <= AlertAge

PingsApart == \A p, q \in Marks : p.list = q.list /\ p.at < q.at => q.at - p.at > AlertAge

ScamInv == ScamTypes /\ MapIsLastPing /\ PingIsDue /\ PingsApart

LEMMA ScamInvInit == ScamInit => ScamInv
  BY DEF ScamInit, ScamInv, ScamTypes, MapIsLastPing, Tells, Marks, PingIsDue, PingsApart, Empty

LEMMA SweepKeeps ==
    ASSUME "unlisted" \notin ScamFaults, ScamInv, NEW gap \in SweepGaps, NEW listed \in BOOLEAN,
           NEW hit \in SUBSET List, Sweep(gap, listed, hit)
    PROVE  ScamInv'
<1> DEFINE now == hour + gap
           new == {l \in hit : alerted[l] = Never \/ now - alerted[l] > AlertAge}
<1>0. /\ now \in Nat /\ now > hour /\ hour \in Nat /\ AlertAge \in Nat
      /\ \A l \in List : alerted[l] \in Nat \cup {Never}
      /\ \A p \in Marks : p.list \in List /\ p.at \in Nat
  BY ScamAssumption DEF ScamInv, ScamTypes, Marks
<1>1. /\ hour' = now /\ hits' = hit /\ unsent' = new /\ pings' = pings /\ lost' = lost
      /\ alerted' = [l \in List |-> IF l \in new THEN now ELSE Kept(now, hit, l)]
      /\ doing = "rest" /\ doing' = "file" /\ stored' = stored
  BY DEF Sweep
<1>a. unsent = {} /\ stored = alerted /\ Marks' = Marks /\ Tells(alerted, {})
  BY <1>1 DEF ScamInv, ScamTypes, Marks, MapIsLastPing
<1> HIDE DEF now
\* What a sweep makes of an entry: new, kept, or old enough to go.
<1>2. ASSUME NEW l \in List
      PROVE  /\ l \in new => alerted'[l] = now
             /\ l \notin new => \/ alerted'[l] = alerted[l]
                                \/ /\ alerted'[l] = Never
                                   /\ alerted[l] = Never \/ now - alerted[l] > AlertAge
             /\ l \in hit /\ l \notin new => /\ alerted'[l] = alerted[l] /\ alerted[l] # Never
                                             /\ now - alerted[l] <= AlertAge
  <2>1. alerted'[l] = IF l \in new THEN now ELSE Kept(now, hit, l)
    BY <1>1
  <2>2. ASSUME l \in hit, l \notin new
        PROVE  Kept(now, hit, l) = alerted[l] /\ alerted[l] # Never /\ now - alerted[l] <= AlertAge
    BY <1>0, <2>2 DEF Kept, Never
  <2>3. \/ Kept(now, hit, l) = alerted[l]
        \/ /\ Kept(now, hit, l) = Never
           /\ alerted[l] = Never \/ now - alerted[l] > AlertAge
    BY <1>0 DEF Kept, Never
  <2> HIDE DEF new
  <2> QED
    BY <2>1, <2>2, <2>3
<1>3. new \subseteq hit
  OBVIOUS
\* A message of a list that lost its entry, or pings anew, is older than the window.
<1>4. ASSUME NEW p \in Marks, alerted[p.list] = Never \/ now - alerted[p.list] > AlertAge
      PROVE  now - p.at > AlertAge
  <2>1. CASE alerted[p.list] = Never
    <3>1. hour - p.at > AlertAge
      BY <2>1, <1>a DEF Tells
    <3> QED
      BY <1>0, <3>1
  <2>2. CASE alerted[p.list] # Never
    <3>1. p.at <= alerted[p.list] /\ now - alerted[p.list] > AlertAge /\ alerted[p.list] \in Nat
      BY <1>0, <1>4, <1>a, <2>2 DEF Tells
    <3> QED
      BY <1>0, <3>1
  <2> QED
    BY <2>1, <2>2
<1>5. \A l \in new : alerted[l] = Never \/ now - alerted[l] > AlertAge
  OBVIOUS
<1> HIDE DEF new
<1>6. ScamTypes'
  <2>1. \A l \in List : alerted'[l] \in Nat \cup {Never}
    BY <1>0, <1>2
  <2> QED
    BY <1>0, <1>1, <1>3, <2>1 DEF ScamInv, ScamTypes, List
<1>7. MapIsLastPing'
  <2>1. ASSUME NEW l \in List, alerted'[l] # Never, l \notin new
        PROVE  [list |-> l, at |-> alerted'[l]] \in Marks
    BY <1>a, <1>2, <2>1 DEF Tells
  <2>2. ASSUME NEW p \in Marks
        PROVE  IF alerted'[p.list] = Never THEN now - p.at > AlertAge ELSE p.at <= alerted'[p.list]
    <3>0. p.list \in List
      BY <1>0
    <3>1. CASE p.list \in new
      <4>1. alerted'[p.list] = now /\ now # Never /\ now - p.at > AlertAge
        BY <1>0, <1>2, <1>4, <1>5, <3>0, <3>1 DEF Never
      <4> QED
        BY <1>0, <4>1
    <3>2. CASE p.list \notin new /\ alerted'[p.list] = Never /\ alerted[p.list] # Never
      BY <1>2, <1>4, <3>0, <3>2
    <3>3. CASE p.list \notin new /\ alerted'[p.list] = alerted[p.list]
      <4>1. CASE alerted[p.list] = Never
        BY <1>4, <3>3, <4>1
      <4>2. CASE alerted[p.list] # Never
        BY <3>3, <4>2, <1>a DEF Tells
      <4> QED
        BY <4>1, <4>2
    <3> QED
      BY <1>2, <3>0, <3>1, <3>2, <3>3
  <2>3. Tells(stored, {})'
    <3>1. ASSUME NEW p \in Marks
          PROVE  IF stored[p.list] = Never THEN now - p.at > AlertAge ELSE p.at <= stored[p.list]
      BY <1>0, <1>a DEF Tells
    <3> QED
      BY <1>1, <1>a, <3>1 DEF Tells
  <2> QED
    <3>1. Tells(alerted, unsent)'
      BY <1>1, <1>a, <2>1, <2>2 DEF Tells
    <3> QED
      BY <2>3, <3>1 DEF MapIsLastPing
<1>8. PingIsDue'
  <2>1. \A l \in new : alerted'[l] = now
    BY <1>2, <1>3
  <2>2. \A p \in Marks : p.list \in new => now - p.at > AlertAge
    BY <1>4, <1>5
  <2>3. ASSUME NEW l \in hit PROVE alerted'[l] # Never /\ now - alerted'[l] <= AlertAge
    <3>1. CASE l \in new
      <4>1. alerted'[l] = now
        BY <2>1, <3>1
      <4> QED
        BY <1>0, <4>1 DEF Never
    <3>2. CASE l \notin new
      BY <1>2, <3>2
    <3> QED
      BY <3>1, <3>2
  <2> QED
    BY <1>1, <1>a, <2>1, <2>2, <2>3 DEF PingIsDue
<1>9. PingsApart'
  BY <1>a DEF ScamInv, PingsApart
<1> QED
  BY <1>6, <1>7, <1>8, <1>9 DEF ScamInv

\* A message that was sent, or lost, is one the map tells of already.
LEMMA MessageKeeps ==
    ASSUME ScamInv, doing = "message", doing' = "rest", unsent' = {}, Marks' = Marks \cup Messages,
           pings' \cup lost' \subseteq Marks \cup Messages,
           UNCHANGED <<hour, alerted, stored, hits>>
    PROVE  ScamInv'
<1> DEFINE sent == Messages
<1>0. /\ hour \in Nat /\ AlertAge \in Nat /\ unsent \subseteq List
      /\ \A p \in Marks : p.list \in List /\ p.at \in Nat
  BY ScamAssumption DEF ScamInv, ScamTypes, Marks
<1>1. /\ unsent' = {} /\ Marks' = Marks \cup sent /\ stored = alerted
      /\ pings' \cup lost' \subseteq Marks \cup sent
      /\ UNCHANGED <<hour, alerted, stored, hits>>
  BY DEF ScamInv, ScamTypes
<1>2. \A p \in sent : p.list \in unsent /\ p.at = hour /\ p \in [list : List, at : Nat]
  BY <1>0 DEF Messages
<1>3. \A l \in unsent : [list |-> l, at |-> hour] \in sent /\ alerted[l] = hour
  BY DEF ScamInv, PingIsDue, Messages
<1> HIDE DEF sent
<1>4. ScamTypes'
  <2>1. Marks \cup sent \subseteq [list : List, at : Nat]
    BY <1>2 DEF ScamInv, ScamTypes, Marks
  <2>2. pings' \subseteq [list : List, at : Nat] /\ lost' \subseteq [list : List, at : Nat]
    BY <2>1, <1>1
  <2> QED
    BY <1>1, <2>2 DEF ScamInv, ScamTypes
<1>5. MapIsLastPing'
  <2>1. ASSUME NEW l \in List, alerted[l] # Never
        PROVE  [list |-> l, at |-> alerted[l]] \in Marks \cup sent
    BY <1>3, <2>1 DEF ScamInv, MapIsLastPing, Tells
  <2>2. ASSUME NEW p \in sent PROVE alerted[p.list] # Never /\ p.at <= alerted[p.list]
    BY <1>0, <1>2, <1>3 DEF Never
  <2> QED
    BY <1>1, <2>1, <2>2 DEF ScamInv, MapIsLastPing, Tells
<1>6. PingIsDue'
  BY <1>1 DEF ScamInv, PingIsDue
<1>7. PingsApart'
  <2> SUFFICES ASSUME NEW p \in Marks \cup sent, NEW q \in Marks \cup sent,
                      p.list = q.list, p.at < q.at
               PROVE  q.at - p.at > AlertAge
    BY <1>1 DEF PingsApart
  <2>1. CASE p \in Marks /\ q \in Marks
    BY <2>1 DEF ScamInv, PingsApart
  <2>2. CASE p \in Marks /\ q \in sent
    BY <1>2, <2>2 DEF ScamInv, PingIsDue
  <2>3. CASE p \in sent /\ q \in sent
    BY <1>0, <1>2, <2>3
  <2>4. CASE p \in sent /\ q \in Marks
    <3>1. alerted[q.list] = hour /\ alerted[q.list] # Never /\ p.at = hour
      BY <1>0, <1>2, <1>3, <2>4 DEF Never
    <3>2. q.at <= hour
      BY <2>4, <3>1 DEF ScamInv, MapIsLastPing, Tells
    <3> QED
      BY <1>0, <2>4, <3>1, <3>2
  <2> QED
    BY <2>1, <2>2, <2>3, <2>4
<1> QED
  BY <1>4, <1>5, <1>6, <1>7 DEF ScamInv

LEMMA PingKeeps == ASSUME ScamInv, Ping PROVE ScamInv'
  BY MessageKeeps DEF Ping, Marks

\* The file is the map in memory, once it is written.
LEMMA WriteKeeps == ASSUME ScamInv, WriteMap PROVE ScamInv'
<1>1. /\ doing = "file" /\ stored' = alerted /\ doing' = (IF unsent = {} THEN "rest" ELSE "message")
      /\ UNCHANGED <<hour, alerted, unsent, hits, pings, lost>>
  BY DEF WriteMap
<1>2. ScamTypes'
  BY <1>1 DEF ScamInv, ScamTypes
<1>3. Marks' = Marks
  BY <1>1 DEF Marks
<1> QED
  BY <1>1, <1>2, <1>3 DEF ScamInv, MapIsLastPing, Tells, PingIsDue, PingsApart

\* A restart goes on from the file: between two sweeps it is the map in memory, before
\* it is written the map of the sweep before, and after that it counts what was not sent.
LEMMA ReloadKeeps ==
    ASSUME "dies_writing" \notin ScamFaults, ScamInv, NEW map, Reload(map) PROVE ScamInv'
<1>1. /\ map = stored /\ alerted' = stored /\ stored' = stored /\ unsent' = {} /\ doing' = "rest"
      /\ hits' = (IF doing = "file" THEN {} ELSE hits) /\ hour' = hour /\ pings' = pings
      /\ lost' = (IF doing = "message" THEN lost \cup Messages ELSE lost)
  BY DEF Reload
<1>2. CASE doing = "message"
  <2>1. stored = alerted
    BY <1>2 DEF ScamInv, ScamTypes
  <2>2. Marks' = Marks \cup Messages
    BY <1>1, <1>2 DEF Marks
  <2> QED
    BY <1>1, <1>2, <2>1, <2>2, MessageKeeps DEF Marks
<1>3. CASE doing # "message"
  <2>1. Marks' = Marks /\ ScamTypes'
    BY <1>1, <1>3 DEF Marks, ScamInv, ScamTypes
  <2>2. Tells(stored, {}) /\ (doing # "file" => stored = alerted)
    BY <1>3 DEF ScamInv, ScamTypes, MapIsLastPing
  <2>3. MapIsLastPing'
    BY <1>1, <2>1, <2>2 DEF MapIsLastPing, Tells
  <2>4. PingIsDue' /\ PingsApart'
    BY <1>1, <1>3, <2>1, <2>2 DEF ScamInv, PingIsDue, PingsApart
  <2> QED
    BY <2>1, <2>3, <2>4 DEF ScamInv
<1> QED
  BY <1>2, <1>3

\* A list pings a coin at most once per window, through gaps in which it does not qualify
\* and through restarts wherever they fall, one between the file and the message included;
\* and a coin that is on a list after a sweep has been pinged about within the window, but
\* for a message that died in its file: for any points, times between the sweeps and
\* window, when a sweep has all coins and a file is written whole or not at all.
THEOREM CoinsPingOncePerWindow ==
    {"unlisted", "dies_writing"} \cap ScamFaults = {} /\ ScamSpec => []PingsOncePerWindow
<1> SUFFICES ASSUME {"unlisted", "dies_writing"} \cap ScamFaults = {}
             PROVE  ScamSpec => []PingsOncePerWindow
  OBVIOUS
<1>0. "unlisted" \notin ScamFaults /\ "dies_writing" \notin ScamFaults
  OBVIOUS
<1>1. ScamInv => PingsOncePerWindow
  <2> SUFFICES ASSUME ScamInv PROVE NotTwice /\ NotMissed
    BY DEF PingsOncePerWindow
  <2>1. NotTwice
    BY DEF ScamInv, PingsApart, Marks, NotTwice
  <2>2. ASSUME doing = "rest", NEW l \in hits
        PROVE  \E p \in pings \cup lost : p.list = l /\ hour - p.at <= AlertAge
    <3> DEFINE p == [list |-> l, at |-> alerted[l]]
    <3>1. unsent = {} /\ l \in List
      BY <2>2 DEF ScamInv, ScamTypes
    <3>2. alerted[l] # Never /\ hour - alerted[l] <= AlertAge
      BY <2>2 DEF ScamInv, PingIsDue
    <3>3. p \in pings \cup lost
      BY <3>1, <3>2 DEF ScamInv, MapIsLastPing, Tells, Marks
    <3> QED
      BY <3>2, <3>3
  <2> QED
    BY <2>1, <2>2 DEF NotMissed
<1>2. ScamInv /\ [ScamNext]_scamVars => ScamInv'
  <2> SUFFICES ASSUME ScamInv, [ScamNext]_scamVars PROVE ScamInv'
    OBVIOUS
  <2>1. ASSUME NEW gap \in SweepGaps, NEW listed \in BOOLEAN, NEW held \in BOOLEAN,
               NEW m \in Coins, Sweep(gap, listed, Qualifies(m, held))
        PROVE  ScamInv'
    <3>1. Qualifies(m, held) \in SUBSET List
      BY DEF Qualifies
    <3> QED
      BY <1>0, <2>1, <3>1, SweepKeeps
  <2>2. CASE WriteMap
    BY <2>2, WriteKeeps
  <2>3. CASE Ping
    BY <2>3, PingKeeps
  <2>4. ASSUME NEW map, Reload(map) PROVE ScamInv'
    BY <1>0, <2>4, ReloadKeeps
  <2>5. CASE UNCHANGED scamVars
    BY <2>5 DEF scamVars, ScamInv, ScamTypes, MapIsLastPing, Tells, Marks, PingIsDue, PingsApart
  <2> QED
    BY <2>1, <2>2, <2>3, <2>4, <2>5 DEF ScamNext
<1> QED
  BY <1>1, <1>2, ScamInvInit, PTL DEF ScamSpec
-------------------------------------------------------------------------------
(***************************************************************************)
(* The alerts that start trades (Signals).  AlertState keeps two times of a *)
(* name; the invariant says which of the scans they are the times of.       *)
(***************************************************************************)

\* Min is the least element of a set of naturals that is not empty ...
LEMMA LeastOfNaturals ==
    ASSUME NEW S, S \subseteq Nat, S # {}
    PROVE  Min(S) \in S /\ \A y \in S : Min(S) <= y
  BY LeastNatural DEF Min

\* ... and Max the greatest of a bounded one.
LEMMA GreatestOfBounded ==
    ASSUME NEW S, S \subseteq Nat, S # {}, NEW top \in Nat, \A y \in S : y <= top
    PROVE  Max(S) \in S /\ \A y \in S : Max(S) >= y
<1> DEFINE D == {top - y : y \in S}
<1>1. D \subseteq Nat
  <2> SUFFICES ASSUME NEW y \in S PROVE top - y \in Nat
    OBVIOUS
  <2> QED
    OBVIOUS
<1>d. D # {}
  OBVIOUS
<1>2. PICK d \in D : \A e \in D : d <= e
  <2> HIDE DEF D
  <2> QED
    BY <1>1, <1>d, LeastOfNaturals
<1>3. \E x \in S : \A y \in S : x >= y
  <2>1. PICK x \in S : d = top - x
    OBVIOUS
  <2>2. ASSUME NEW y \in S PROVE x >= y
    <3>1. top - y \in D
      OBVIOUS
    <3>2. d <= top - y
      BY <1>2, <3>1
    <3>3. x \in Nat /\ y \in Nat
      OBVIOUS
    <3> HIDE DEF D
    <3> QED
      BY <2>1, <3>2, <3>3
  <2> QED
    BY <2>2
<1> QED
  BY <1>3 DEF Max

\* The elements of a sequence.
LEMMA ElementsOfSeq ==
    ASSUME NEW T, NEW s \in Seq(T)
    PROVE  DOMAIN s = 1..Len(s) /\ Len(s) \in Nat /\ \A i \in 1..Len(s) : s[i] \in T
  OBVIOUS

\* What a scan records, and what AlertState keeps of a name.
ScanRecord == [at : Nat, row : Nat \cup {Shallow, Off}, rang : BOOLEAN]
NameState == [above : Nat \cup {Unset}, last : Nat \cup {Unset}]

\* High and Low, of any scans and any level.
HighIn(ss, lv, i) == ss[i].row >= lv
LowIn(ss, lv, i) == ss[i].row # Shallow /\ ss[i].row < lv

\* _above_since is the time of a high scan with none below the level after it, ...
RunBegan(ss, st, lv) ==
    st.above # Unset =>
        \E i \in 1..Len(ss) : /\ HighIn(ss, lv, i) /\ ss[i].at = st.above
                              /\ \A k \in i..Len(ss) : ~LowIn(ss, lv, k)

\* ... and as early as any scan since which all were high.
RunIsWhole(ss, st, lv) ==
    \A i \in 1..Len(ss) :
        (\A k \in i..Len(ss) : HighIn(ss, lv, k)) => st.above # Unset /\ st.above <= ss[i].at

\* _last_above is there once the name has rung.
RungIsKept(ss, st) == st.last # Unset <=> \E k \in 1..Len(ss) : ss[k].rang

\* Lasts, of any scans and any level.
LastsIn(ss, lv, k, j) ==
    \A a, b \in k..j :
        a < b /\ HighIn(ss, lv, a) /\ HighIn(ss, lv, b)
              /\ (\A c \in a + 1 .. b - 1 : ~HighIn(ss, lv, c))
        => ss[b].at - ss[a].at <= Rearm

\* It is the time of a high scan as late as any that rang, in the episode of one of
\* them, and the next high scan came more than Rearm later.
LastIsHigh(ss, st, lv) ==
    st.last # Unset =>
        \E a \in 1..Len(ss) :
            /\ HighIn(ss, lv, a) /\ ss[a].at = st.last
            /\ \E r \in 1..a : ss[r].rang /\ LastsIn(ss, lv, r, a)
            /\ \A r \in 1..Len(ss) : ss[r].rang => r <= a
            /\ \/ \A k \in a + 1 .. Len(ss) : ~HighIn(ss, lv, k)
               \/ \E b \in a + 1 .. Len(ss) :
                     /\ HighIn(ss, lv, b) /\ ss[b].at - st.last > Rearm
                     /\ \A k \in a + 1 .. b - 1 : ~HighIn(ss, lv, k)

\* The three parts of AlertsHold.
RungAreHeld(ss, lv) ==
    \A j \in 1..Len(ss) : ss[j].rang =>
        \E i \in 1..j : /\ HighIn(ss, lv, i) /\ ss[j].at - ss[i].at >= Sustain
                        /\ \A k \in i..j : ~LowIn(ss, lv, k)

RungAreApart(ss, lv) ==
    \A i, j \in 1..Len(ss) : i < j /\ ss[i].rang /\ ss[j].rang =>
        \E a, b \in i..j : /\ HighIn(ss, lv, a) /\ HighIn(ss, lv, b) /\ ss[b].at - ss[a].at > Rearm
                           /\ \A k \in a + 1 .. b - 1 : ~HighIn(ss, lv, k)

HeldHaveRung(ss, lv) ==
    \A i, j \in 1..Len(ss) :
        /\ i <= j /\ HighIn(ss, lv, j) /\ ss[j].at - ss[i].at >= Sustain
        /\ \A k \in i..j : HighIn(ss, lv, k)
        => \E k \in 1..j : ss[k].rang /\ LastsIn(ss, lv, k, j)

\* What every scan keeps of the scans at one level.
Episode(ss, st, lv) ==
    /\ RunBegan(ss, st, lv) /\ RunIsWhole(ss, st, lv)
    /\ RungIsKept(ss, st) /\ LastIsHigh(ss, st, lv)
    /\ RungAreHeld(ss, lv) /\ RungAreApart(ss, lv) /\ HeldHaveRung(ss, lv)

\* What a scan makes of what was kept.
Judges(st, e, lv, nx) ==
    \/ /\ e.row < 0 /\ nx = st /\ ~e.rang
       /\ e.row = Off => st.above = Unset
    \/ /\ e.row >= 0
       /\ nx = Observe(st, e.at, e.row, lv).s /\ e.rang = Observe(st, e.at, e.row, lv).rings

\* A changed level and a restart begin with nothing seen and nothing kept.
LEMMA EpisodeBegins == \A lv : Episode(<<>>, Fresh, lv)
  BY DEF Episode, RunBegan, RunIsWhole, RungIsKept, LastIsHigh, RungAreHeld, RungAreApart,
         HeldHaveRung, Fresh, Unset

\* Whatever a scan sees - a score above or below the level, a row that is not judged,
\* the name off the board - AlertState goes on saying what the scans were.
LEMMA EpisodeGoesOn ==
    ASSUME NEW ss \in Seq(ScanRecord), NEW st \in NameState, NEW lv \in Nat, NEW e \in ScanRecord, NEW nx,
           st.above <= e.at, \A i \in 1..Len(ss) : ss[i].at <= e.at,
           Episode(ss, st, lv), Judges(st, e, lv, nx)
    PROVE  Episode(Append(ss, e), nx, lv) /\ nx \in NameState /\ nx.above <= e.at
<1> DEFINE N == Len(ss)  tt == Append(ss, e)
<1> USE SignalAssumption
<1>1. /\ N \in Nat /\ tt \in Seq(ScanRecord) /\ Len(tt) = N + 1 /\ tt[N + 1] = e
      /\ \A i \in 1..N : tt[i] = ss[i] /\ ss[i] \in ScanRecord
  OBVIOUS
<1>2. /\ \A i \in 1..N : /\ HighIn(tt, lv, i) <=> HighIn(ss, lv, i)
                         /\ LowIn(tt, lv, i) <=> LowIn(ss, lv, i)
                         /\ tt[i].at = ss[i].at /\ tt[i].rang = ss[i].rang /\ ss[i].at \in Nat
                         /\ ss[i].at <= e.at
      /\ tt[N + 1].at = e.at /\ tt[N + 1].rang = e.rang /\ e.at \in Nat
      /\ HighIn(tt, lv, N + 1) <=> e.row >= lv
      /\ LowIn(tt, lv, N + 1) <=> e.row # Shallow /\ e.row < lv
  BY <1>1 DEF HighIn, LowIn, ScanRecord
<1> HIDE DEF N, tt
<1>3. /\ RunBegan(ss, st, lv) /\ RunIsWhole(ss, st, lv)
      /\ RungIsKept(ss, st) /\ LastIsHigh(ss, st, lv)
      /\ RungAreHeld(ss, lv) /\ RungAreApart(ss, lv) /\ HeldHaveRung(ss, lv)
  BY DEF Episode
<1>4. /\ Unset = -1 /\ Shallow = -2 /\ Off = -3 /\ Sustain \in Nat /\ Rearm \in Nat
      /\ e.row \in Nat \cup {Shallow, Off} /\ e.rang \in BOOLEAN
      /\ st.above \in Nat \cup {Unset} /\ st.last \in Nat \cup {Unset}
  BY DEF Unset, Shallow, Off, ScanRecord, NameState, SignalAssumption
<1>5. /\ nx \in NameState /\ nx.above <= e.at
      /\ e.row < lv =>
            /\ nx.last = st.last /\ ~e.rang
            /\ nx.above # Unset => nx.above = st.above /\ e.row = Shallow
      /\ e.row >= lv =>
            /\ nx.above = IF st.above = Unset THEN e.at ELSE st.above
            /\ \/ nx.last = e.at /\ e.rang /\ e.at - nx.above >= Sustain
                  /\ (st.last # Unset => e.at - st.last > Rearm)
               \/ nx.last = e.at /\ ~e.rang /\ st.last # Unset /\ e.at - st.last <= Rearm
               \/ nx.last = st.last /\ ~e.rang /\ e.at - nx.above < Sustain
                  /\ (st.last # Unset => e.at - st.last > Rearm)
  <2>1. CASE e.row < 0
    <3>1. nx = st /\ ~e.rang /\ (e.row = Off => st.above = Unset)
      BY <1>4, <2>1 DEF Judges
    <3>2. e.row < lv /\ (e.row = Shallow \/ e.row = Off)
      BY <1>4, <2>1
    <3>3. nx.above = st.above /\ nx.last = st.last /\ nx \in NameState /\ nx.above <= e.at
      BY <3>1
    <3> QED
      BY <3>1, <3>2, <3>3, <1>4
  <2>2. CASE e.row >= 0 /\ e.row < lv
    <3>0. Observe(st, e.at, e.row, lv) = [s |-> [st EXCEPT !.above = Unset], rings |-> FALSE]
      BY <2>2 DEF Observe
    <3>a. nx = Observe(st, e.at, e.row, lv).s /\ e.rang = Observe(st, e.at, e.row, lv).rings
      BY <1>4, <2>2 DEF Judges
    <3>1. nx = [st EXCEPT !.above = Unset] /\ ~e.rang
      BY <3>0, <3>a
    <3>2. nx.above = Unset /\ nx.last = st.last /\ nx \in NameState
      BY <3>1 DEF NameState
    <3> QED
      BY <3>1, <3>2, <2>2, <1>2, <1>4, SMTT(30)
  <2>3. CASE e.row >= lv
    <3> DEFINE since == IF st.above = Unset THEN e.at ELSE st.above
               quiet == st.last # Unset /\ e.at - st.last <= Rearm
               rings == ~quiet /\ e.at - since >= Sustain
    <3>a. ~(e.row < lv) /\ e.row >= 0
      BY <2>3, <1>4
    <3>b. Observe(st, e.at, e.row, lv) =
            [s |-> [above |-> since, last |-> IF quiet \/ rings THEN e.at ELSE st.last],
             rings |-> rings]
      BY <3>a DEF Observe
    <3>c. nx = Observe(st, e.at, e.row, lv).s /\ e.rang = Observe(st, e.at, e.row, lv).rings
      BY <3>a, <1>4 DEF Judges
    <3>1. /\ nx = [above |-> since, last |-> IF quiet \/ rings THEN e.at ELSE st.last]
          /\ e.rang = rings
      BY <3>b, <3>c
    <3>2. since \in Nat
      BY <1>2, <1>4
    <3>3. CASE quiet
      <4>1. nx = [above |-> since, last |-> e.at] /\ ~e.rang /\ st.last # Unset
            /\ e.at - st.last <= Rearm
        BY <3>1, <3>3
      <4>2. nx.above = since /\ nx.last = e.at /\ nx \in NameState /\ nx.above <= e.at
        BY <4>1, <3>2, <1>2, <1>4 DEF NameState
      <4> QED
        BY <4>1, <4>2, <2>3, <1>4
    <3>4. CASE ~quiet /\ rings
      <4>1. nx = [above |-> since, last |-> e.at] /\ e.rang
        BY <3>1, <3>4
      <4> QED
        BY <4>1, <3>2, <3>4, <2>3, <1>2, <1>4, SMTT(30) DEF NameState
    <3>5. CASE ~quiet /\ ~rings
      <4>1. nx = [above |-> since, last |-> st.last] /\ ~e.rang
        BY <3>1, <3>5
      <4>2. e.at - since < Sustain /\ (st.last # Unset => e.at - st.last > Rearm)
        BY <3>2, <3>5, <1>2, <1>4, SMTT(30)
      <4>3. nx.above = since /\ nx.last = st.last /\ nx \in NameState /\ nx.above <= e.at
        BY <4>1, <3>2, <1>2, <1>4 DEF NameState
      <4> QED
        BY <4>1, <4>2, <4>3, <2>3, <1>4
    <3> QED
      BY <3>3, <3>4, <3>5
  <2> QED
    BY <2>1, <2>2, <2>3, <1>4
<1>7. /\ N \in Nat /\ Len(tt) = N + 1 /\ N + 1 \in 1..(N + 1)
      /\ \A i \in 1..N : i \in 1..(N + 1) /\ i \in Nat
      /\ \A i \in 1..(N + 1) : i \in 1..N \/ i = N + 1
  BY <1>1
<1>8. \A i \in 1..(N + 1), k \in Int :
         k \in i..(N + 1) <=> k = N + 1 \/ (k \in i..N /\ k \in 1..N)
  BY <1>7
<1>6. nx.above \in Nat \cup {Unset} /\ nx.last \in Nat \cup {Unset}
  BY <1>5 DEF NameState
<1>a. RunBegan(tt, nx, lv)
  <2> SUFFICES ASSUME nx.above # Unset
               PROVE  \E i \in 1..Len(tt) : /\ HighIn(tt, lv, i) /\ tt[i].at = nx.above
                                            /\ \A k \in i..Len(tt) : ~LowIn(tt, lv, k)
    BY DEF RunBegan
  <2>0. ~LowIn(tt, lv, N + 1)
    BY <1>2, <1>4, <1>5
  <2>1. CASE st.above # Unset
    <3>1. PICK i \in 1..N : /\ HighIn(ss, lv, i) /\ ss[i].at = st.above
                            /\ \A k \in i..N : ~LowIn(ss, lv, k)
      BY <2>1, <1>3 DEF RunBegan, N
    <3>2. nx.above = st.above
      BY <2>1, <1>4, <1>5
    <3>3. ASSUME NEW k \in i..(N + 1) PROVE ~LowIn(tt, lv, k)
      <4>1. k = N + 1 \/ (k \in i..N /\ k \in 1..N)
        BY <1>7
      <4> QED
        BY <4>1, <3>1, <2>0, <1>2
    <3>4. i \in 1..Len(tt) /\ HighIn(tt, lv, i) /\ tt[i].at = nx.above
      BY <3>1, <3>2, <1>2, <1>7
    <3> QED
      BY <3>3, <3>4, <1>7
  <2>2. CASE st.above = Unset
    <3>1. e.row >= lv /\ nx.above = e.at
      BY <2>2, <1>4, <1>5
    <3> QED
      BY <3>1, <2>0, <1>1, <1>2, SMTT(30)
  <2> QED
    BY <2>1, <2>2
<1>b. RunIsWhole(tt, nx, lv)
  <2> SUFFICES ASSUME NEW i \in 1..Len(tt), \A k \in i..Len(tt) : HighIn(tt, lv, k)
               PROVE  nx.above # Unset /\ nx.above <= tt[i].at
    BY DEF RunIsWhole
  <2>1. e.row >= lv
    BY <1>1, <1>2
  <2>2. CASE i = N + 1
    <3>1. tt[i].at = e.at /\ e.at \in Nat
      BY <2>2, <1>2
    <3>2. nx.above = IF st.above = Unset THEN e.at ELSE st.above
      BY <2>1, <1>5
    <3> QED
      BY <3>1, <3>2, <1>4
  <2>3. CASE i # N + 1
    <3>1. i \in 1..N /\ \A k \in i..N : HighIn(ss, lv, k)
      BY <2>3, <1>1, <1>2
    <3>2. st.above # Unset /\ st.above <= ss[i].at
      BY <3>1, <1>3 DEF RunIsWhole, N
    <3> QED
      BY <3>1, <3>2, <2>1, <1>2, <1>4, <1>5
  <2> QED
    BY <2>2, <2>3
<1>c. RungIsKept(tt, nx)
  <2>1. st.last # Unset <=> \E k \in 1..N : ss[k].rang
    BY <1>3 DEF RungIsKept, N
  <2>2. nx.last # Unset <=> st.last # Unset \/ e.rang
    BY <1>2, <1>4, <1>5, SMTT(30)
  <2>3. (\E k \in 1..(N + 1) : tt[k].rang) <=> (\E k \in 1..N : ss[k].rang) \/ e.rang
    <3>1. ASSUME NEW k \in 1..(N + 1), tt[k].rang PROVE (\E m \in 1..N : ss[m].rang) \/ e.rang
      BY <3>1, <1>2, <1>7
    <3>2. ASSUME NEW k \in 1..N, ss[k].rang PROVE \E m \in 1..(N + 1) : tt[m].rang
      BY <3>2, <1>2, <1>7
    <3>3. e.rang => \E m \in 1..(N + 1) : tt[m].rang
      BY <1>2, <1>7
    <3> QED
      BY <3>1, <3>2, <3>3
  <2> QED
    BY <2>1, <2>2, <2>3, <1>1 DEF RungIsKept
\* What lasted before the scan has lasted.
<1>h. ASSUME NEW k \in 1..N, NEW j \in 1..N, LastsIn(ss, lv, k, j) PROVE LastsIn(tt, lv, k, j)
  <2> SUFFICES ASSUME NEW a \in k..j, NEW b \in k..j, a < b, HighIn(tt, lv, a), HighIn(tt, lv, b),
                      \A c \in a + 1 .. b - 1 : ~HighIn(tt, lv, c)
               PROVE  tt[b].at - tt[a].at <= Rearm
    BY DEF LastsIn
  <2>1. a \in 1..N /\ b \in 1..N /\ \A c \in a + 1 .. b - 1 : c \in 1..N
    BY <1>7
  <2>2. HighIn(ss, lv, a) /\ HighIn(ss, lv, b) /\ \A c \in a + 1 .. b - 1 : ~HighIn(ss, lv, c)
    BY <1>2, <2>1
  <2>3. ss[b].at - ss[a].at <= Rearm
    BY <1>h, <2>2 DEF LastsIn
  <2> QED
    BY <1>2, <2>1, <2>3
\* A scan that _last_above is the time of is in the episode of an alert.
<1>i. ASSUME e.row >= lv, nx.last = e.at
      PROVE  \E r \in 1..(N + 1) : tt[r].rang /\ LastsIn(tt, lv, r, N + 1)
  <2>1. CASE e.rang
    <3>1. LastsIn(tt, lv, N + 1, N + 1)
      BY <1>7 DEF LastsIn
    <3> QED
      BY <2>1, <3>1, <1>2, <1>7
  <2>2. CASE ~e.rang /\ st.last # Unset /\ e.at - st.last <= Rearm
    <3>1. PICK m \in 1..N :
            /\ HighIn(ss, lv, m) /\ ss[m].at = st.last
            /\ \E r \in 1..m : ss[r].rang /\ LastsIn(ss, lv, r, m)
            /\ \/ \A k \in m + 1 .. N : ~HighIn(ss, lv, k)
               \/ \E b \in m + 1 .. N : HighIn(ss, lv, b) /\ ss[b].at - st.last > Rearm
      BY <2>2, <1>3 DEF LastIsHigh, N
    <3>2. ASSUME NEW b \in m + 1 .. N, ss[b].at - st.last > Rearm PROVE FALSE
      <4>1. b \in 1..N /\ ss[b].at \in Nat /\ ss[b].at <= e.at
        BY <1>2, <1>7
      <4>2. st.last \in Nat /\ e.at \in Nat /\ Rearm \in Nat
        BY <2>2, <1>2, <1>4
      <4> QED
        BY <2>2, <3>2, <4>1, <4>2, SMTT(30)
    <3>3. \A k \in m + 1 .. N : ~HighIn(ss, lv, k)
      BY <3>1, <3>2
    <3>4. PICK r \in 1..m : ss[r].rang /\ LastsIn(ss, lv, r, m)
      BY <3>1
    <3>5. r \in 1..N /\ tt[r].rang /\ r \in 1..(N + 1) /\ LastsIn(tt, lv, r, m)
      <4>1. r \in 1..N /\ r \in 1..(N + 1)
        BY <1>7
      <4> QED
        BY <4>1, <3>4, <1>2, <1>h
    <3>6. ASSUME NEW a \in r..(N + 1), NEW b \in r..(N + 1), a < b, HighIn(tt, lv, a), HighIn(tt, lv, b),
                 \A c \in a + 1 .. b - 1 : ~HighIn(tt, lv, c)
          PROVE  tt[b].at - tt[a].at <= Rearm
      <4>0. a \in 1..N /\ a \in Int /\ b \in Int /\ m \in Int /\ a <= N
        BY <3>6, <1>7
      <4>1. a <= m
        <5>1. HighIn(ss, lv, a)
          BY <4>0, <3>6, <1>2
        <5> QED
          BY <5>1, <4>0, <3>3
      <4>2. CASE b \in 1..N
        <5>1. HighIn(ss, lv, b)
          BY <4>2, <3>6, <1>2
        <5>2. b <= m
          BY <5>1, <4>2, <3>3
        <5>3. a \in r..m /\ b \in r..m
          BY <4>0, <4>1, <5>2
        <5> QED
          BY <5>3, <3>5, <3>6 DEF LastsIn
      <4>3. CASE b = N + 1
        <5>1. HighIn(tt, lv, m) /\ tt[m].at = st.last
          BY <3>1, <1>2
        <5>2. ~(a < m)
          <6>1. a < m => m \in a + 1 .. b - 1
            BY <4>0, <4>3, <1>7
          <6> QED
            BY <6>1, <5>1, <3>6
        <5>3. a = m
          BY <4>0, <4>1, <5>2
        <5> QED
          BY <5>1, <5>3, <4>3, <2>2, <1>2
      <4> QED
        BY <4>2, <4>3, <1>7
    <3>7. LastsIn(tt, lv, r, N + 1)
      BY <3>6 DEF LastsIn
    <3> QED
      BY <3>5, <3>7
  <2>3. e.rang \/ (~e.rang /\ st.last # Unset /\ e.at - st.last <= Rearm)
    BY <1>i, <1>5, <1>4, <1>2, SMTT(30)
  <2> QED
    BY <2>1, <2>2, <2>3
<1>d. LastIsHigh(tt, nx, lv)
  <2> SUFFICES ASSUME nx.last # Unset
               PROVE  \E a \in 1..(N + 1) :
                        /\ HighIn(tt, lv, a) /\ tt[a].at = nx.last
                        /\ \E r \in 1..a : tt[r].rang /\ LastsIn(tt, lv, r, a)
                        /\ \A r \in 1..(N + 1) : tt[r].rang => r <= a
                        /\ \/ \A k \in a + 1 .. N + 1 : ~HighIn(tt, lv, k)
                           \/ \E b \in a + 1 .. N + 1 :
                                 /\ HighIn(tt, lv, b) /\ tt[b].at - nx.last > Rearm
                                 /\ \A k \in a + 1 .. b - 1 : ~HighIn(tt, lv, k)
    BY <1>1 DEF LastIsHigh
  <2>1. CASE e.row >= lv /\ nx.last = e.at
    <3>1. \E r \in 1..(N + 1) : tt[r].rang /\ LastsIn(tt, lv, r, N + 1)
      BY <2>1, <1>i
    <3>2. HighIn(tt, lv, N + 1) /\ tt[N + 1].at = nx.last
      BY <2>1, <1>2
    <3>3. \A r \in 1..(N + 1) : r <= N + 1
      BY <1>7
    <3>4. \A k \in (N + 1) + 1 .. N + 1 : ~HighIn(tt, lv, k)
      BY <1>7
    <3> QED
      BY <3>1, <3>2, <3>3, <3>4, <1>7
  <2>2. CASE ~(e.row >= lv /\ nx.last = e.at)
    <3>1. /\ nx.last = st.last /\ ~e.rang
          /\ e.row >= lv => e.at - st.last > Rearm
      BY <2>2, <1>4, <1>5
    <3>2. PICK a \in 1..N :
            /\ HighIn(ss, lv, a) /\ ss[a].at = st.last
            /\ \E r \in 1..a : ss[r].rang /\ LastsIn(ss, lv, r, a)
            /\ \A r \in 1..N : ss[r].rang => r <= a
            /\ \/ \A k \in a + 1 .. N : ~HighIn(ss, lv, k)
               \/ \E b \in a + 1 .. N :
                     /\ HighIn(ss, lv, b) /\ ss[b].at - st.last > Rearm
                     /\ \A k \in a + 1 .. b - 1 : ~HighIn(ss, lv, k)
      BY <3>1, <1>3 DEF LastIsHigh, N
    <3>c. \E r \in 1..a : tt[r].rang /\ LastsIn(tt, lv, r, a)
      <4>1. PICK r \in 1..a : ss[r].rang /\ LastsIn(ss, lv, r, a)
        BY <3>2
      <4>2. r \in 1..N
        BY <1>7
      <4> QED
        BY <4>1, <4>2, <1>2, <1>h
    <3>a. a \in 1..(N + 1) /\ HighIn(tt, lv, a) /\ tt[a].at = nx.last
      BY <3>1, <3>2, <1>2, <1>7
    <3>b. ASSUME NEW r \in 1..(N + 1), tt[r].rang PROVE r <= a
      BY <3>b, <3>1, <3>2, <1>2, <1>7
    <3>3. /\ a \in 1..(N + 1) /\ HighIn(tt, lv, a) /\ tt[a].at = nx.last
          /\ \E r \in 1..a : tt[r].rang /\ LastsIn(tt, lv, r, a)
          /\ \A r \in 1..(N + 1) : tt[r].rang => r <= a
      BY <3>a, <3>b, <3>c
    <3>4. CASE \E b \in a + 1 .. N :
                     /\ HighIn(ss, lv, b) /\ ss[b].at - st.last > Rearm
                     /\ \A k \in a + 1 .. b - 1 : ~HighIn(ss, lv, k)
      <4>1. PICK b \in a + 1 .. N : /\ HighIn(ss, lv, b) /\ ss[b].at - st.last > Rearm
                                    /\ \A k \in a + 1 .. b - 1 : ~HighIn(ss, lv, k)
        BY <3>4
      <4>2. /\ b \in a + 1 .. N + 1 /\ HighIn(tt, lv, b) /\ tt[b].at - nx.last > Rearm
            /\ \A k \in a + 1 .. b - 1 : ~HighIn(tt, lv, k)
        BY <4>1, <3>1, <1>1, <1>2
      <4> QED
        BY <4>2, <3>3
    <3>5. CASE (\A k \in a + 1 .. N : ~HighIn(ss, lv, k)) /\ e.row < lv
      <4>1. ASSUME NEW k \in a + 1 .. N + 1 PROVE ~HighIn(tt, lv, k)
        <5>1. k = N + 1 \/ (k \in a + 1 .. N /\ k \in 1..N)
          BY <1>7
        <5> QED
          BY <5>1, <3>5, <1>2, <1>4, SMTT(30)
      <4> QED
        BY <4>1, <3>3
    <3>6. CASE (\A k \in a + 1 .. N : ~HighIn(ss, lv, k)) /\ e.row >= lv
      <4> DEFINE b == N + 1
      <4>1. b \in a + 1 .. N + 1 /\ HighIn(tt, lv, b) /\ tt[b].at - nx.last > Rearm
        BY <3>6, <3>1, <1>2, <1>7
      <4>2. ASSUME NEW k \in a + 1 .. b - 1 PROVE ~HighIn(tt, lv, k)
        <5>1. k \in a + 1 .. N /\ k \in 1..N
          BY <1>7
        <5> QED
          BY <5>1, <3>6, <1>2
      <4> HIDE DEF b
      <4>3. \E m \in a + 1 .. N + 1 :
               /\ HighIn(tt, lv, m) /\ tt[m].at - nx.last > Rearm
               /\ \A k \in a + 1 .. m - 1 : ~HighIn(tt, lv, k)
        BY <4>1, <4>2
      <4> QED
        BY <4>3, <3>3
    <3> QED
      BY <3>2, <3>4, <3>5, <3>6, <1>4
  <2> QED
    BY <2>1, <2>2
<1>e. RungAreHeld(tt, lv)
  <2> SUFFICES ASSUME NEW j \in 1..(N + 1), tt[j].rang
               PROVE  \E i \in 1..j : /\ HighIn(tt, lv, i) /\ tt[j].at - tt[i].at >= Sustain
                                      /\ \A k \in i..j : ~LowIn(tt, lv, k)
    BY <1>1 DEF RungAreHeld
  <2>1. CASE j \in 1..N
    <3>1. PICK i \in 1..j : /\ HighIn(ss, lv, i) /\ ss[j].at - ss[i].at >= Sustain
                            /\ \A k \in i..j : ~LowIn(ss, lv, k)
      BY <2>1, <1>2, <1>3 DEF RungAreHeld, N
    <3>2. i \in 1..N /\ \A k \in i..j : k \in 1..N
      BY <2>1, <1>7
    <3> QED
      BY <3>1, <3>2, <2>1, <1>2
  <2>2. CASE j = N + 1
    <3>0. e.rang
      BY <2>2, <1>2
    <3>9. e.row >= lv
      BY <3>0, <1>5, <1>4
    <3>8. nx.above = IF st.above = Unset THEN e.at ELSE st.above
      BY <3>9, <1>5
    <3>7. e.at - nx.above >= Sustain
      BY <3>0, <3>9, <1>5
    <3>1. e.rang /\ e.row >= lv /\ nx.above # Unset /\ e.at - nx.above >= Sustain
      BY <3>0, <3>9, <3>8, <3>7, <1>2, <1>4
    <3>2. PICK i \in 1..Len(tt) : /\ HighIn(tt, lv, i) /\ tt[i].at = nx.above
                                  /\ \A k \in i..Len(tt) : ~LowIn(tt, lv, k)
      BY <3>1, <1>a DEF RunBegan
    <3> QED
      BY <3>1, <3>2, <2>2, <1>1, <1>2
  <2> QED
    BY <2>1, <2>2, <1>1
<1>f. RungAreApart(tt, lv)
  <2> SUFFICES ASSUME NEW i \in 1..(N + 1), NEW j \in 1..(N + 1), i < j, tt[i].rang, tt[j].rang
               PROVE  \E a, b \in i..j :
                         /\ HighIn(tt, lv, a) /\ HighIn(tt, lv, b) /\ tt[b].at - tt[a].at > Rearm
                         /\ \A k \in a + 1 .. b - 1 : ~HighIn(tt, lv, k)
    BY <1>1 DEF RungAreApart
  <2>1. CASE j \in 1..N
    <3>1. PICK a \in i..j, b \in i..j :
                 /\ HighIn(ss, lv, a) /\ HighIn(ss, lv, b) /\ ss[b].at - ss[a].at > Rearm
                 /\ \A k \in a + 1 .. b - 1 : ~HighIn(ss, lv, k)
      <4>1. i \in 1..N /\ ss[i].rang /\ ss[j].rang
        BY <2>1, <1>2, <1>7, SMTT(30)
      <4> QED
        BY <4>1, <2>1, <1>3 DEF RungAreApart, N
    <3>a. a \in 1..N /\ b \in 1..N
      BY <2>1, <1>7
    <3>b. \A k \in a + 1 .. b - 1 : k \in 1..N
      BY <3>a, <1>7
    <3>2. a \in 1..N /\ b \in 1..N /\ \A k \in a + 1 .. b - 1 : k \in 1..N
      BY <3>a, <3>b
    <3>3. HighIn(tt, lv, a) /\ HighIn(tt, lv, b) /\ tt[b].at - tt[a].at > Rearm
      BY <3>1, <3>2, <1>2
    <3>4. \A k \in a + 1 .. b - 1 : ~HighIn(tt, lv, k)
      BY <3>1, <3>2, <1>2
    <3> QED
      BY <3>3, <3>4
  <2>2. CASE j = N + 1
    <3>0. i \in 1..N /\ ss[i].rang /\ e.rang
      BY <2>2, <1>1, <1>2
    <3>1. e.row >= lv /\ st.last # Unset /\ e.at - st.last > Rearm
      BY <3>0, <1>3, <1>4, <1>5, SMTT(30) DEF RungIsKept, N
    <3>2. PICK a \in 1..N :
            /\ HighIn(ss, lv, a) /\ ss[a].at = st.last
            /\ \A r \in 1..N : ss[r].rang => r <= a
            /\ \/ \A k \in a + 1 .. N : ~HighIn(ss, lv, k)
               \/ \E b \in a + 1 .. N :
                     /\ HighIn(ss, lv, b) /\ ss[b].at - st.last > Rearm
                     /\ \A k \in a + 1 .. b - 1 : ~HighIn(ss, lv, k)
      BY <3>1, <1>3 DEF LastIsHigh, N
    <3>3. a \in i..j /\ HighIn(tt, lv, a) /\ tt[a].at = st.last
      BY <3>0, <3>2, <2>2, <1>1, <1>2
    <3>4. CASE \E b \in a + 1 .. N :
                     /\ HighIn(ss, lv, b) /\ ss[b].at - st.last > Rearm
                     /\ \A k \in a + 1 .. b - 1 : ~HighIn(ss, lv, k)
      <4>1. PICK b \in a + 1 .. N : /\ HighIn(ss, lv, b) /\ ss[b].at - st.last > Rearm
                                    /\ \A k \in a + 1 .. b - 1 : ~HighIn(ss, lv, k)
        BY <3>4
      <4>2. /\ b \in i..j /\ HighIn(tt, lv, b) /\ tt[b].at - tt[a].at > Rearm
            /\ \A k \in a + 1 .. b - 1 : ~HighIn(tt, lv, k)
        BY <4>1, <3>3, <2>2, <1>1, <1>2, SMTT(30)
      <4> QED
        BY <4>2, <3>3
    <3>5. CASE \A k \in a + 1 .. N : ~HighIn(ss, lv, k)
      <4>1. /\ j \in i..j /\ HighIn(tt, lv, j) /\ tt[j].at - tt[a].at > Rearm
            /\ \A k \in a + 1 .. j - 1 : ~HighIn(tt, lv, k)
        BY <3>5, <3>1, <3>3, <2>2, <1>1, <1>2
      <4> QED
        BY <4>1, <3>3
    <3> QED
      BY <3>2, <3>4, <3>5
  <2> QED
    BY <2>1, <2>2, <1>1
<1>g. HeldHaveRung(tt, lv)
  <2> SUFFICES ASSUME NEW i \in 1..(N + 1), NEW j \in 1..(N + 1), i <= j, HighIn(tt, lv, j),
                      tt[j].at - tt[i].at >= Sustain, \A k \in i..j : HighIn(tt, lv, k)
               PROVE  \E k \in 1..j : tt[k].rang /\ LastsIn(tt, lv, k, j)
    BY <1>1 DEF HeldHaveRung
  <2>1. CASE j \in 1..N
    <3>1. i \in 1..N /\ HighIn(ss, lv, j) /\ ss[j].at - ss[i].at >= Sustain
          /\ \A k \in i..j : HighIn(ss, lv, k)
      BY <2>1, <1>1, <1>2, SMTT(30)
    <3>2. PICK k \in 1..j : ss[k].rang /\ LastsIn(ss, lv, k, j)
      BY <3>1, <2>1, <1>3 DEF HeldHaveRung, N
    <3>3. k \in 1..N
      BY <2>1, <1>7
    <3> QED
      BY <3>2, <3>3, <2>1, <1>2, <1>h
  <2>2. CASE j = N + 1
    <3>1. e.row >= lv /\ nx.above # Unset /\ nx.above <= tt[i].at
      BY <2>2, <1>1, <1>2, <1>b DEF RunIsWhole
    <3>a. tt[i].at \in Nat /\ e.at - tt[i].at >= Sustain
      BY <2>2, <1>2, <1>7
    <3>b. e.at \in Nat
      BY <1>2
    <3>c. nx.above \in Int /\ Sustain \in Nat
      BY <1>4, <1>6
    <3>2. e.at - nx.above >= Sustain
      BY <3>1, <3>a, <3>b, <3>c, SMTT(30)
    <3>3. nx.last = e.at
      BY <3>1, <3>2, <1>2, <1>4, <1>5, <1>6
    <3>4. \E k \in 1..(N + 1) : tt[k].rang /\ LastsIn(tt, lv, k, N + 1)
      BY <3>1, <3>3, <1>i
    <3> QED
      BY <3>4, <2>2
  <2>3. j \in 1..N \/ j = N + 1
    BY <1>7
  <2> QED
    BY <2>1, <2>2, <2>3
<1> QED
  BY <1>5, <1>a, <1>b, <1>c, <1>d, <1>e, <1>f, <1>g DEF Episode, tt

\* The types, and times that are not in the future.
SignalTypes ==
    /\ clock \in Nat /\ level \in Nat \cup {Unset} /\ seen \in Nat \cup {Unset}
    /\ state \in NameState /\ state.above <= clock /\ scans \in Seq(ScanRecord)
    /\ \A i \in 1..Len(scans) : scans[i].at <= clock

\* There is a highest score to begin auto_level from.
ScoresAreBounded ==
    /\ history \in Seq([at : Nat, score : Nat])
    /\ \E top \in Nat : \A i \in 1..Len(history) : history[i].score <= top

\* The inductive invariant of the alerts.
SignalInv ==
    /\ SignalTypes /\ ScoresAreBounded
    /\ seen # Unset => Episode(scans, state, seen)

\* auto_level chooses a score that was recorded, the next above all, or none.
LEMMA AutoLevelIsALevel == ScoresAreBounded => AutoLevel \in Nat \cup {Unset}
<1> SUFFICES ASSUME ScoresAreBounded PROVE AutoLevel \in Nat \cup {Unset}
  OBVIOUS
<1> DEFINE candidates == {history[i].score : i \in DOMAIN history}
           calm(lv) == Simulate(lv) <= PerDay
           walked == {lv \in candidates : \A c \in candidates : c >= lv => calm(c)}
<1>1. AutoLevel = IF Len(history) < 2 THEN Unset
                  ELSE IF walked = {} THEN Max(candidates) + 1 ELSE Min(walked)
  BY Zenon DEF AutoLevel
<1>2. PICK top \in Nat : \A i \in 1..Len(history) : history[i].score <= top
  BY DEF ScoresAreBounded
<1>3. DOMAIN history = 1..Len(history) /\ Len(history) \in Nat
      /\ \A i \in DOMAIN history : history[i].score \in Nat
  <2>1. history \in Seq([at : Nat, score : Nat])
    BY DEF ScoresAreBounded
  <2>2. DOMAIN history = 1..Len(history) /\ Len(history) \in Nat
        /\ \A i \in DOMAIN history : history[i] \in [at : Nat, score : Nat]
    BY <2>1, ElementsOfSeq, Zenon
  <2> QED
    BY <2>2
<1>4. candidates \subseteq Nat /\ \A c \in candidates : c <= top
  BY <1>2, <1>3
<1>c. ~(Len(history) < 2) => candidates # {}
  <2>1. ~(Len(history) < 2) => 1 \in DOMAIN history
    BY <1>3
  <2> QED
    BY <2>1
<1>5. walked \subseteq Nat
  BY <1>4
<1> HIDE DEF candidates, walked
<1>6. ~(Len(history) < 2) => Max(candidates) \in Nat
  BY <1>4, <1>c, GreatestOfBounded
<1>7. walked # {} => Min(walked) \in Nat
  BY <1>5, LeastOfNaturals
<1> QED
  BY <1>1, <1>6, <1>7

\* A scan with a screener that works judges what it sees.
LEMMA ScanJudges ==
    ASSUME SignalFaults = {}, SignalInv, NEW gap \in Gaps, NEW score \in Score,
           NEW on \in BOOLEAN, NEW near \in BOOLEAN, NEW fails \in BOOLEAN,
           Scan(gap, score, on, near, fails)
    PROVE  SignalInv'
<1> DEFINE at == clock + gap
           saw == BoardRow(score, on)
           before == IF level # seen THEN Fresh ELSE state
           prev == IF level # seen THEN <<>> ELSE scans
           o == Judged(saw, at)
           e == [at |-> at, row |-> saw.row, rang |-> o.rings]
<1> USE SignalAssumption
<1>1. /\ ~fails /\ clock' = at /\ level' = level /\ seen' = level /\ state' = o.s
      /\ scans' = Append(prev, e)
      /\ ~on /\ level = seen => state.above = Unset
  BY DEF Scan
<1>2. /\ at \in Nat /\ clock <= at /\ score \in Nat /\ Unset = -1 /\ Shallow = -2 /\ Off = -3
      /\ level \in Nat \cup {Unset} /\ seen \in Nat \cup {Unset}
      /\ Fresh \in NameState /\ Fresh.above = Unset
  BY DEF SignalInv, SignalTypes, SignalAssumption, Unset, Shallow, Off, Fresh, NameState
<1>3. before \in NameState /\ before.above <= at /\ prev \in Seq(ScanRecord)
      /\ \A i \in 1..Len(prev) : prev[i].at <= at
  <2>1. state \in NameState /\ state.above <= clock /\ clock \in Nat /\ scans \in Seq(ScanRecord)
    BY DEF SignalInv, SignalTypes
  <2>2. state.above \in Int
    BY <2>1, <1>2 DEF NameState
  <2>3. before \in NameState /\ before.above <= at /\ prev \in Seq(ScanRecord)
    BY <2>1, <2>2, <1>2
  <2>4. CASE level # seen
    BY <2>3, <2>4
  <2>5. CASE level = seen
    <3>a. \A i \in 1..Len(scans) : scans[i] \in ScanRecord
      BY <2>1, ElementsOfSeq
    <3>b. \A i \in 1..Len(scans) : scans[i].at <= clock
      BY Zenon DEF SignalInv, SignalTypes
    <3>1. \A i \in 1..Len(scans) : scans[i] \in ScanRecord /\ scans[i].at <= clock
      BY <3>a, <3>b, Zenon
    <3>c. clock <= at /\ clock \in Nat /\ at \in Nat
      BY <1>2, <2>1
    <3>2. \A i \in 1..Len(scans) : scans[i].at <= at
      <4> SUFFICES ASSUME NEW i \in 1..Len(scans) PROVE scans[i].at <= at
        OBVIOUS
      <4>1. scans[i].at \in Nat /\ scans[i].at <= clock
        BY <3>1 DEF ScanRecord
      <4> HIDE DEF at
      <4> QED
        BY <4>1, <3>c
    <3>3. prev = scans
      BY <2>5
    <3> QED
      BY <2>3, <3>3, <3>2, Zenon
  <2> QED
    BY <2>4, <2>5
<1>4. saw.row \in Nat \cup {Shallow, Off} /\ (saw.row = Off => ~on)
  BY <1>2 DEF BoardRow, NoBoard
<1>5. history' = history \/ history' = Append(history, [at |-> at, score |-> score])
  <2>1. saw = NoBoard \/ saw.score = score
    BY DEF BoardRow
  <2> QED
    BY <1>1, <2>1 DEF Scan, Recorded
<1>6. ScoresAreBounded'
  <2>1. CASE history' = history
    BY <2>1 DEF SignalInv, ScoresAreBounded
  <2>2. CASE history' = Append(history, [at |-> at, score |-> score])
    <3> DEFINE h == Append(history, [at |-> at, score |-> score])
    <3>1. /\ h \in Seq([at : Nat, score : Nat]) /\ Len(h) = Len(history) + 1
          /\ Len(history) \in Nat /\ h[Len(history) + 1].score = score
          /\ \A i \in 1..Len(history) : h[i] = history[i] /\ history[i].score \in Nat
      <4>1. history \in Seq([at : Nat, score : Nat])
        BY DEF SignalInv, ScoresAreBounded
      <4>2. \A i \in 1..Len(history) : history[i] \in [at : Nat, score : Nat]
        BY <4>1, ElementsOfSeq, Zenon
      <4>3. [at |-> at, score |-> score] \in [at : Nat, score : Nat]
        BY <1>2
      <4>4. /\ h \in Seq([at : Nat, score : Nat]) /\ Len(h) = Len(history) + 1
            /\ Len(history) \in Nat /\ h[Len(history) + 1] = [at |-> at, score |-> score]
            /\ \A i \in 1..Len(history) : h[i] = history[i]
        BY <4>1, <4>3
      <4> QED
        BY <4>2, <4>4, SMTT(30)
    <3>2. PICK top \in Nat : \A i \in 1..Len(history) : history[i].score <= top
      BY DEF SignalInv, ScoresAreBounded
    <3> HIDE DEF h
    <3>3. PICK new \in Nat : top <= new /\ score <= new
      BY <1>2
    <3>4. \A i \in 1..Len(h) : h[i].score <= new
      <4> SUFFICES ASSUME NEW i \in 1..Len(h) PROVE h[i].score <= new
        OBVIOUS
      <4>1. i \in 1..Len(history) \/ i = Len(history) + 1
        BY <3>1
      <4>2. CASE i \in 1..Len(history)
        <5>1. h[i].score = history[i].score /\ history[i].score <= top /\ history[i].score \in Nat
          BY <4>2, <3>1, <3>2
        <5> QED
          BY <5>1, <3>3
      <4>3. CASE i = Len(history) + 1
        BY <4>3, <3>1, <3>3
      <4> QED
        BY <4>1, <4>2, <4>3
    <3>5. history' = h
      BY <2>2 DEF h
    <3> QED
      BY <3>1, <3>4, <3>5 DEF ScoresAreBounded
  <2> QED
    BY <1>5, <2>1, <2>2
<1>7. CASE level = Unset
  <2>1. o = [s |-> before, rings |-> FALSE]
    BY <1>7 DEF Judged
  <2>a. o.rings = FALSE
    BY <2>1
  <2> HIDE DEF o
  <2>2. e \in ScanRecord
    BY <2>a, <1>2, <1>4 DEF ScanRecord
  <2>3. state' = before /\ scans' \in Seq(ScanRecord) /\ \A i \in 1..Len(scans') : scans'[i].at <= at
    BY <2>1, <2>2, <1>1, <1>2, <1>3
  <2> QED
    BY <2>3, <1>1, <1>2, <1>3, <1>6, <1>7 DEF SignalInv, SignalTypes
<1>8. CASE level # Unset
  <2>0. level \in Nat
    BY <1>8, <1>2
  <2>1. Episode(prev, before, level)
    <3>1. CASE level # seen
      BY <3>1, EpisodeBegins
    <3>2. CASE level = seen
      BY <3>2, <1>8 DEF SignalInv
    <3> QED
      BY <3>1, <3>2
  <2>2. saw.row < 0 => o = [s |-> before, rings |-> FALSE]
    BY DEF Judged
  <2>3. saw.row >= 0 => o = Observe(before, at, saw.row, level)
    BY <1>4, <1>2, <1>8 DEF Judged
  <2>4. o.rings \in BOOLEAN
    <3>1. saw.row < 0 => o.rings = FALSE
      BY <2>2
    <3>2. Observe(before, at, saw.row, level).rings \in BOOLEAN
      <4> DEFINE since == IF before.above = Unset THEN at ELSE before.above
                 quiet == before.last # Unset /\ at - before.last <= Rearm
                 rings == ~quiet /\ at - since >= Sustain
      <4>1. rings \in BOOLEAN
        OBVIOUS
      <4>2. Observe(before, at, saw.row, level).rings =
              IF saw.row < level THEN FALSE ELSE rings
        <5>1. CASE saw.row < level
          BY <5>1, Zenon DEF Observe
        <5>2. CASE ~(saw.row < level)
          BY <5>2, Zenon DEF Observe
        <5> QED
          BY <5>1, <5>2
      <4> QED
        BY <4>1, <4>2
    <3>3. saw.row < 0 \/ saw.row >= 0
      BY <1>2, <1>4
    <3>4. saw.row >= 0 => o.rings = Observe(before, at, saw.row, level).rings
      BY <2>3
    <3> HIDE DEF o, before, at, saw
    <3> QED
      BY <3>1, <3>2, <3>3, <3>4
  <2>5. e \in ScanRecord /\ e.at = at /\ e.row = saw.row /\ e.rang = o.rings
    BY <2>4, <1>2, <1>4 DEF ScanRecord
  <2>6. saw.row = Off => before.above = Unset
    BY <1>1, <1>2, <1>4
  <2>7. Judges(before, e, level, o.s)
    <3>1. CASE saw.row < 0
      <4>1. o.s = before /\ ~o.rings
        BY <3>1, <2>2
      <4> QED
        BY <4>1, <3>1, <2>5, <2>6 DEF Judges
    <3>2. CASE saw.row >= 0
      BY <3>2, <2>3, <2>5 DEF Judges
    <3> QED
      BY <3>1, <3>2, <1>2, <1>4
  <2> HIDE DEF e, o, before, prev, at
  <2>8. Episode(Append(prev, e), o.s, level) /\ o.s \in NameState /\ o.s.above <= at
    BY <2>0, <2>1, <2>5, <2>7, <1>3, EpisodeGoesOn
  <2>9. /\ Append(prev, e) \in Seq(ScanRecord)
        /\ \A i \in 1..Len(Append(prev, e)) : Append(prev, e)[i].at <= at
    <3>1. /\ Append(prev, e) \in Seq(ScanRecord) /\ Len(Append(prev, e)) = Len(prev) + 1
          /\ Len(prev) \in Nat /\ Append(prev, e)[Len(prev) + 1] = e
          /\ \A i \in 1..Len(prev) : Append(prev, e)[i] = prev[i]
      BY <2>5, <1>3
    <3>2. \A i \in 1..(Len(prev) + 1) : i \in 1..Len(prev) \/ i = Len(prev) + 1
      BY <3>1
    <3>3. e.at <= at
      BY <2>5, <1>2
    <3> QED
      BY <3>1, <3>2, <3>3, <1>3
  <2> QED
    BY <2>8, <2>9, <1>1, <1>2, <1>6 DEF SignalInv, SignalTypes
<1> QED
  BY <1>7, <1>8

\* Every step keeps it.
LEMMA SignalInvStep == SignalFaults = {} /\ SignalInv /\ [SignalsNext]_signalVars => SignalInv'
<1> SUFFICES ASSUME SignalFaults = {}, SignalInv, [SignalsNext]_signalVars PROVE SignalInv'
  OBVIOUS
<1>1. ASSUME NEW gap \in Gaps, NEW score \in Score, NEW on \in BOOLEAN, NEW near \in BOOLEAN,
             NEW fails \in BOOLEAN, Scan(gap, score, on, near, fails)
      PROVE  SignalInv'
  BY <1>1, ScanJudges
<1>2. ASSUME NEW fetched \in BOOLEAN, RefreshDepth(fetched) PROVE SignalInv'
  BY <1>2 DEF RefreshDepth, SignalInv, SignalTypes, ScoresAreBounded
<1>3. ASSUME NEW lv \in Nat \cup {Unset}, SetLevel(lv) PROVE SignalInv'
  BY <1>3 DEF SetLevel, SignalInv, SignalTypes, ScoresAreBounded
<1>4. ASSUME RestartScans PROVE SignalInv'
  <2>1. /\ state' = Fresh /\ seen' = Unset /\ scans' = <<>> /\ clock' = clock
        /\ level' = level /\ history' = history
    BY <1>4 DEF RestartScans
  <2>2. Fresh \in NameState /\ (clock \in Nat => Fresh.above <= clock) /\ <<>> \in Seq(ScanRecord)
    BY DEF Fresh, NameState, Unset
  <2>3. SignalTypes'
    <3>1. \A i \in 1..Len(scans') : scans'[i].at <= clock'
      BY <2>1
    <3> QED
      BY <2>1, <2>2, <3>1 DEF SignalInv, SignalTypes
  <2> QED
    BY <2>1, <2>3 DEF SignalInv, ScoresAreBounded
<1>5. CASE UNCHANGED signalVars
  BY <1>5 DEF signalVars, SignalInv, SignalTypes, ScoresAreBounded
<1>6. Levels \subseteq Nat /\ (AutoLevel # Unset => AutoLevel \in Nat)
  BY SignalAssumption, AutoLevelIsALevel DEF SignalInv
<1> QED
  BY <1>1, <1>2, <1>3, <1>4, <1>5, <1>6 DEF SignalsNext

\* The engine begins with it.
LEMMA SignalInvInit == SignalsInit => SignalInv
<1> SUFFICES ASSUME SignalsInit PROVE SignalInv
  OBVIOUS
<1>1. Fresh \in NameState /\ Fresh.above <= 0
  BY DEF Fresh, NameState, Unset
<1>2. Levels \subseteq Nat
  BY SignalAssumption
<1>3. ScoresAreBounded
  BY DEF SignalsInit, ScoresAreBounded
<1> QED
  BY <1>1, <1>2, <1>3 DEF SignalsInit, SignalInv, SignalTypes

\* An alert comes only of a score that was held long enough and, after the first, of a
\* name that was away for longer than Rearm; and a score that is held that long rings,
\* or is in the episode of an alert that lasts to this scan: for any scores, levels, scan
\* times and windows, changes of the level and restarts, as long as the snapshot works
\* and a name does not leave the board in its episode.
THEOREM AlertsComeOncePerEpisode == SignalFaults = {} /\ SignalsSpec => []AlertsHold
<1> SUFFICES ASSUME SignalFaults = {} PROVE SignalsSpec => []AlertsHold
  OBVIOUS
<1>1. SignalInv => AlertsHold
  <2> SUFFICES ASSUME SignalInv, seen # Unset PROVE HeldLongEnough /\ AwayBetween /\ HeldIsHeard
    BY DEF AlertsHold
  <2>1. /\ RungAreHeld(scans, seen) /\ RungAreApart(scans, seen) /\ HeldHaveRung(scans, seen)
    BY DEF SignalInv, Episode
  <2>2. DOMAIN scans = 1..Len(scans)
    BY DEF SignalInv, SignalTypes
  <2>3. HeldLongEnough
    BY <2>1, <2>2 DEF HeldLongEnough, RungAreHeld, High, Low, HighIn, LowIn
  <2>4. AwayBetween
    BY <2>1, <2>2 DEF AwayBetween, RungAreApart, High, HighIn
  <2>5. HeldIsHeard
    <3>1. \A k, j : LastsIn(scans, seen, k, j) <=> Lasts(k, j)
      BY DEF LastsIn, Lasts, HighIn, High
    <3>2. \A i : HighIn(scans, seen, i) <=> High(i)
      BY DEF HighIn, High
    <3> QED
      BY <2>1, <2>2, <3>1, <3>2, Zenon DEF HeldIsHeard, HeldHaveRung
  <2> QED
    BY <2>3, <2>4, <2>5
<1>2. SignalInv /\ [SignalsNext]_signalVars => SignalInv'
  BY SignalInvStep
<1> QED
  BY <1>1, <1>2, SignalInvInit, PTL DEF SignalsSpec

-------------------------------------------------------------------------------
(***************************************************************************)
(* The figures of a quote.                                                 *)
(***************************************************************************)
\* A sum of numbers that are not positive is not positive.
LEMMA SumNotPositive ==
    ASSUME NEW S, IsFiniteSet(S), NEW f, \A x \in S : f[x] \in Int /\ f[x] <= 0
    PROVE  SumFunctionOnSet(f, S) \in Int /\ SumFunctionOnSet(f, S) <= 0
<1> DEFINE bad == {s \in SUBSET S : ~(SumFunctionOnSet(f, s) <= 0)}
<1>1. \A s \in SUBSET S : IsFiniteSet(s)
  BY FS_Subset
<1>2. \A s \in SUBSET S : SumFunctionOnSet(f, s) \in Int
  BY <1>1, SumIsInt
<1>3. SUFFICES ASSUME bad # {} PROVE FALSE
  BY <1>2
<1>4. PICK s \in bad : \A x \in s : s \ {x} \notin bad
  <2> HIDE DEF bad
  <2>1. bad \subseteq SUBSET S
    BY DEF bad
  <2> QED
    BY <2>1, <1>3, SmallestSubset
<1>5. CASE s = {}
  BY <1>5, SumOfNone
<1>6. ASSUME NEW x \in s PROVE FALSE
  <2>1. SumFunctionOnSet(f, s) = f[x] + SumFunctionOnSet(f, s \ {x})
    BY <1>1, SumTakesAny
  <2>2. SumFunctionOnSet(f, s \ {x}) <= 0 /\ s \ {x} \in SUBSET S
    BY <1>4
  <2> QED
    BY <2>1, <2>2, <1>2
<1> QED
  BY <1>5, <1>6

\* What is zero outside of a part adds nothing.
LEMMA SumOverPart ==
    ASSUME NEW S, IsFiniteSet(S), NEW T, T \subseteq S, NEW f,
           \A x \in S : f[x] \in Int, \A x \in S \ T : f[x] = 0
    PROVE  SumFunctionOnSet(f, S) = SumFunctionOnSet(f, T)
<1> DEFINE bad == {s \in SUBSET S : T \subseteq s /\ SumFunctionOnSet(f, s) # SumFunctionOnSet(f, T)}
<1>1. \A s \in SUBSET S : IsFiniteSet(s)
  BY FS_Subset
<1>2. \A s \in SUBSET S : SumFunctionOnSet(f, s) \in Int
  BY <1>1, SumIsInt
<1>3. SUFFICES ASSUME bad # {} PROVE FALSE
  OBVIOUS
<1>4. PICK s \in bad : \A x \in s : s \ {x} \notin bad
  <2> HIDE DEF bad
  <2>1. bad \subseteq SUBSET S
    BY DEF bad
  <2> QED
    BY <2>1, <1>3, SmallestSubset
<1>5. PICK x \in s : x \notin T
  <2>1. s # T
    OBVIOUS
  <2> QED
    BY <2>1
<1>6. SumFunctionOnSet(f, s) = f[x] + SumFunctionOnSet(f, s \ {x})
  BY <1>1, SumTakesAny
<1>7. SumFunctionOnSet(f, s \ {x}) = SumFunctionOnSet(f, T)
  BY <1>4, <1>5
<1>8. f[x] = 0 /\ SumFunctionOnSet(f, s \ {x}) \in Int
  BY <1>2, <1>5
<1> QED
  BY <1>6, <1>7, <1>8

\* The sum up to a place of a list is the sum up to the place before and its term.
LEMMA SumUpTo ==
    ASSUME NEW n \in Nat, NEW f, \A i \in 1..n : f[i] \in Int
    PROVE  /\ \A i \in 0..n : SumFunctionOnSet(f, 1..i) \in Int
           /\ SumFunctionOnSet(f, 1..0) = 0
           /\ \A i \in 1..n : SumFunctionOnSet(f, 1..i) = SumFunctionOnSet(f, 1 .. i - 1) + f[i]
<1>1. \A i \in 0..n : IsFiniteSet(1..i) /\ (\A j \in 1..i : f[j] \in Int)
  <2> SUFFICES ASSUME NEW i \in 0..n PROVE IsFiniteSet(1..i) /\ (\A j \in 1..i : f[j] \in Int)
    OBVIOUS
  <2>1. i \in Int /\ 1 \in Int
    OBVIOUS
  <2>2. IsFiniteSet(1..i)
    BY <2>1, FS_Interval
  <2> QED
    BY <2>2
<1>2. \A i \in 0..n : SumFunctionOnSet(f, 1..i) \in Int
  BY <1>1, SumIsInt
<1>3. 1..0 = {}
  OBVIOUS
<1>4. ASSUME NEW i \in 1..n
      PROVE  SumFunctionOnSet(f, 1..i) = SumFunctionOnSet(f, 1 .. i - 1) + f[i]
  <2>1. (1..i) \ {i} = 1 .. i - 1 /\ i \in 1..i /\ i \in 0..n /\ i - 1 \in 0..n
    OBVIOUS
  <2>2. SumFunctionOnSet(f, 1..i) = f[i] + SumFunctionOnSet(f, (1..i) \ {i})
    BY <2>1, <1>1, SumTakesAny
  <2>3. f[i] \in Int /\ SumFunctionOnSet(f, 1 .. i - 1) \in Int
    BY <2>1, <1>2
  <2> DEFINE rest == SumFunctionOnSet(f, 1 .. i - 1)
             all == SumFunctionOnSet(f, 1 .. i)
  <2>4. all = f[i] + rest
    BY <2>1, <2>2
  <2>5. rest \in Int
    BY <2>3
  <2> HIDE DEF rest, all
  <2>6. all = rest + f[i]
    BY <2>3, <2>4, <2>5
  <2> QED
    BY <2>6 DEF rest, all
<1> QED
  BY <1>2, <1>3, <1>4, SumOfNone

LEMMA DeepIsQty == ASSUME NEW levels, NEW ids PROVE Deep(levels, ids) = QtyOf(levels, ids)
  BY DEF Deep, QtyOf

\* A book: its levels, and what lies up to each.
LEMMA BookIsDeep ==
    ASSUME NEW q \in Quotes
    PROVE  /\ Depth \in Nat /\ DOMAIN q.levels = 1..Depth /\ Len(q.levels) = Depth
           /\ \A i \in 1..Depth : q.levels[i].qty \in Nat /\ q.levels[i].px \in Nat \ {0}
                                  /\ q.levels[i].qty \in Lots /\ q.levels[i].px \in Px
           /\ Deep(q.levels, 1..0) = 0
           /\ \A i \in 0..Depth : Deep(q.levels, 1..i) \in Int
           /\ \A i \in 1..Depth :
                 Deep(q.levels, 1..i) = Deep(q.levels, 1 .. i - 1) + q.levels[i].qty
<1> DEFINE levels == q.levels
<1>1. levels \in [1..Depth -> [px : Px, qty : Lots]] /\ Depth \in Nat
  BY SizingAssumption DEF Quotes
<1>2. DOMAIN levels = 1..Depth /\ Len(levels) = Depth
  <2> HIDE DEF levels
  <2> DEFINE R == [px : Px, qty : Lots]
  <2>2. levels = [i \in 1..Depth |-> levels[i]] /\ (\A i \in 1..Depth : levels[i] \in R)
    BY <1>1
  <2> HIDE DEF R
  <2>3. [i \in 1..Depth |-> levels[i]] \in Seq(R)
    BY <1>1, <2>2, IsASeq
  <2>1. levels \in Seq(R)
    BY <2>2, <2>3
  <2> QED
    BY <1>1, <2>1, LenProperties
<1>3. \A i \in 1..Depth : levels[i].qty \in Nat /\ levels[i].px \in Nat \ {0}
                          /\ levels[i].qty \in Lots /\ levels[i].px \in Px
  BY <1>1, SizingAssumption
<1>4. \A i \in 0..Depth : IsFiniteSet(1..i) /\ (\A j \in 1..i : levels[j].qty \in Int)
  <2> SUFFICES ASSUME NEW i \in 0..Depth PROVE IsFiniteSet(1..i) /\ (\A j \in 1..i : levels[j].qty \in Int)
    OBVIOUS
  <2>1. i \in Int /\ 1 \in Int
    BY <1>1
  <2>2. IsFiniteSet(1..i)
    BY <2>1, FS_Interval
  <2> QED
    BY <2>2, <1>1, <1>3
<1> HIDE DEF levels
<1>5. \A i \in 0..Depth : QtyOf(levels, 1..i) \in Int
  BY <1>4, QtyOfTakesAny
<1>6. QtyOf(levels, 1..0) = 0
  <2>1. 1..0 = {}
    OBVIOUS
  <2> QED
    BY <2>1, FS_EmptySet, QtyOfTakesAny
<1>7. ASSUME NEW i \in 1..Depth
      PROVE  QtyOf(levels, 1..i) = QtyOf(levels, 1 .. i - 1) + levels[i].qty
  <2>1. (1..i) \ {i} = 1 .. i - 1 /\ i \in 1..i /\ i \in 0..Depth /\ i - 1 \in 0..Depth
    BY <1>1
  <2>2. QtyOf(levels, 1..i) = levels[i].qty + QtyOf(levels, (1..i) \ {i})
    BY <2>1, <1>4, QtyOfTakesAny
  <2>3. levels[i].qty \in Int
    BY <1>3
  <2> DEFINE rest == QtyOf(levels, 1 .. i - 1)
             all == QtyOf(levels, 1 .. i)
  <2>4. all = levels[i].qty + rest
    BY <2>1, <2>2
  <2>5. rest \in Int
    BY <1>5, <2>1
  <2> HIDE DEF rest, all
  <2>6. all = rest + levels[i].qty
    BY <2>3, <2>4, <2>5
  <2> QED
    BY <2>6 DEF rest, all
<1> QED
  BY <1>1, <1>2, <1>3, <1>5, <1>6, <1>7, DeepIsQty DEF levels

\* Further down there is no less.
LEMMA DeeperIsMore ==
    ASSUME NEW q \in Quotes, NEW j \in 0..Depth, NEW i \in 0..j
    PROVE  Deep(q.levels, 1..i) <= Deep(q.levels, 1..j)
<1>1. Depth \in Nat /\ i \in 0..Depth
  BY BookIsDeep
<1>2. IsFiniteSet(1..j)
  <2>1. j \in Int /\ 1 \in Int
    BY <1>1
  <2> QED
    BY <2>1, FS_Interval
<1>3. \A x \in 1..j : q.levels[x].qty \in Nat
  <2>1. 1..j \subseteq 1..Depth
    BY <1>1
  <2>2. \A x \in 1..Depth : q.levels[x].qty \in Nat
    BY BookIsDeep
  <2> QED
    BY <2>1, <2>2
<1>4. 1..i \subseteq 1..j
  BY <1>1
<1> QED
  BY <1>2, <1>3, <1>4, QtyGrows, DeepIsQty

LEMMA QuoteHas ==
    ASSUME NEW q \in Quotes
    PROVE  /\ q.side = 1 \/ q.side = 0 - 1
           /\ q.side \in Int
           /\ q.perp \in Px /\ q.perp \in Nat \ {0}
           /\ q.bound \in Bounds /\ q.bound \in Int /\ Scale + q.bound > 0
<1>1. q.side \in {1, -1} /\ q.perp \in Px /\ q.bound \in Bounds
  BY DEF Quotes
<1>2. -1 = 0 - 1 /\ 1 \in Int /\ 0 - 1 \in Int
  OBVIOUS
<1>3. q.side = 1 \/ q.side = 0 - 1
  BY <1>1, <1>2
<1>4. Scale \in Int /\ q.bound \in Int /\ q.bound > -Scale
  BY <1>1, SizingAssumption
<1>5. Scale + q.bound > 0
  BY <1>4
<1>6. q.perp \in Nat \ {0}
  BY <1>1, SizingAssumption
<1>7. q.side \in Int
  BY <1>2, <1>3
<1> QED
  BY <1>1, <1>3, <1>4, <1>5, <1>6, <1>7

\* How far one lot of a level is on the wrong side of the bound is an integer.
LEMMA ExcessIsInt ==
    ASSUME NEW q \in Quotes, NEW p \in Int PROVE Excess(q, p) \in Int
<1> DEFINE s == q.side
           b == q.bound
           a == q.perp
<1>1. s \in Int /\ b \in Int /\ a \in Int /\ Scale \in Int
  BY SizingAssumption, QuoteHas
<1>2. Excess(q, p) = s * (p * (Scale + b) - a * Scale)
  BY DEF Excess
<1> HIDE DEF s, b, a
<1> DEFINE u == p * (Scale + b)
           v == a * Scale
<1>3. Scale + b \in Int
  BY <1>1
<1>4. u \in Int /\ v \in Int
  BY <1>1, <1>3
<1> HIDE DEF u, v
<1>5. u - v \in Int
  BY <1>4
<1>6. s * (u - v) \in Int
  BY <1>5, <1>1
<1> QED
  BY <1>2, <1>6 DEF u, v

\* The levels before the first that breaks the bound do not, as far as they hold any.
LEMMA BreakingIsFirst ==
    ASSUME NEW q \in Quotes
    PROVE  /\ Breaking(q) \in 1 .. Depth + 1
           /\ \A i \in 1..Depth : i < Breaking(q) =>
                 q.levels[i].qty = 0 \/ Excess(q, q.levels[i].px) <= 0
           /\ Breaking(q) <= Depth => /\ q.levels[Breaking(q)].qty > 0
                                      /\ Excess(q, q.levels[Breaking(q)].px) > 0
<1> DEFINE broken == {i \in DOMAIN q.levels : q.levels[i].qty > 0 /\ Excess(q, q.levels[i].px) > 0}
           S == broken \cup {Len(q.levels) + 1}
           b == Breaking(q)
<1>1. Depth \in Nat /\ DOMAIN q.levels = 1..Depth /\ Len(q.levels) = Depth
  BY BookIsDeep
<1>2. S \subseteq 1 .. Depth + 1 /\ S # {} /\ S \subseteq Nat
  BY <1>1
<1>3. b = Min(S)
  BY DEF Breaking
<1>4. b \in S /\ \A y \in S : b <= y
  <2> HIDE DEF S, b
  <2> QED
    BY <1>2, <1>3, LeastOfNaturals
<1>5. b \in 1 .. Depth + 1
  BY <1>2, <1>4
<1>6. b <= Depth => b \in broken
  BY <1>1, <1>4, <1>5
<1>7. ASSUME NEW i \in 1..Depth, i < b PROVE q.levels[i].qty = 0 \/ Excess(q, q.levels[i].px) <= 0
  <2>1. i \notin broken
    BY <1>4, <1>5, <1>7, <1>1
  <2>2. q.levels[i].qty \in Nat /\ q.levels[i].px \in Int
    BY BookIsDeep
  <2>3. Excess(q, q.levels[i].px) \in Int
    BY <2>2, ExcessIsInt
  <2> QED
    BY <2>1, <2>2, <2>3, <1>1
<1> QED
  BY <1>5, <1>6, <1>7

\* What is taken of a level, when as much is needed.
LEMMA TakenOfLevel ==
    ASSUME NEW q \in Quotes, NEW need \in Int, NEW i \in 1..Depth
    PROVE  LET t == Take(q.levels, need, i)
               before == Deep(q.levels, 1 .. i - 1)
               upTo == Deep(q.levels, 1 .. i)
           IN /\ t \in 0 .. q.levels[i].qty
              /\ need <= before => t = 0
              /\ need >= upTo => t = q.levels[i].qty
              /\ before <= need /\ need <= upTo => t = need - before
<1> DEFINE t == Take(q.levels, need, i)
           before == Deep(q.levels, 1 .. i - 1)
           upTo == Deep(q.levels, 1 .. i)
           qty == q.levels[i].qty
<1>1. qty \in Nat /\ i - 1 \in 0..Depth /\ i \in 0..Depth
  BY BookIsDeep
<1>2. upTo = before + qty
  BY BookIsDeep
<1>3. before \in Int
  BY BookIsDeep, <1>1
<1>4. t = IF need - before < 0 THEN 0 ELSE IF need - before < qty THEN need - before ELSE qty
  BY DEF Take
<1> HIDE DEF t, before, upTo, qty
<1>5. /\ t \in 0..qty /\ (need <= before => t = 0) /\ (need >= upTo => t = qty)
      /\ before <= need /\ need <= upTo => t = need - before
  BY <1>1, <1>2, <1>3, <1>4
<1> QED
  BY <1>5 DEF t, before, upTo, qty

\* A quotient is as large as a number when the dividend is as large as so many divisors.
LEMMA QuotientReaches ==
    ASSUME NEW a \in Int, NEW d \in Nat \ {0}, NEW m \in Int
    PROVE  a \div d \in Int /\ (a \div d >= m <=> a >= m * d)
<1> DEFINE k == a \div d
           r == a % d
<1>1. k \in Int /\ r \in Int /\ a = d * k + r /\ 0 <= r /\ r < d
  OBVIOUS
<1> HIDE DEF k, r
<1>2. CASE k >= m
  <2>1. k - m \in Nat
    BY <1>1, <1>2
  <2>2. (k - m) * d >= 0
    BY <2>1
  <2>3. (k - m) * d = k * d - m * d /\ k * d = d * k
    BY <1>1
  <2>4. k * d \in Int /\ m * d \in Int
    BY <1>1
  <2> QED
    BY <2>2, <2>3, <2>4, <1>1, <1>2 DEF k
<1>3. CASE k < m
  <2>1. m - k - 1 \in Nat
    BY <1>1, <1>3
  <2>2. (m - k - 1) * d >= 0
    BY <2>1
  <2>3. (m - k - 1) * d = m * d - k * d - d /\ k * d = d * k
    BY <1>1
  <2>4. k * d \in Int /\ m * d \in Int
    BY <1>1
  <2> QED
    BY <2>2, <2>3, <2>4, <1>1, <1>3 DEF k
<1> QED
  BY <1>1, <1>2, <1>3

\* What each level is on the wrong side of the bound by, when so many lots are taken
\* of it.
LEMMA CostOfLevel ==
    ASSUME NEW q \in Quotes, NEW i \in 1..Depth, NEW t \in 0..q.levels[i].qty
    PROVE  /\ Excess(q, q.levels[i].px) * t \in Int
           /\ i < Breaking(q) \/ t = 0 => Excess(q, q.levels[i].px) * t <= 0
           /\ t = 0 => Excess(q, q.levels[i].px) * t = 0
<1> DEFINE e == Excess(q, q.levels[i].px)
<1>1. q.levels[i].qty \in Nat /\ q.levels[i].px \in Int
  BY BookIsDeep
<1>2. e \in Int
  BY <1>1, ExcessIsInt
<1>3. i < Breaking(q) => t = 0 \/ e <= 0
  BY <1>1, BreakingIsFirst
<1>4. t \in Nat
  BY <1>1
<1> HIDE DEF e
<1>5. e * t \in Int /\ (t = 0 => e * t = 0) /\ (e <= 0 => e * t <= 0)
  BY <1>2, <1>4
<1> QED
  BY <1>3, <1>5 DEF e

\* What the levels before the first that breaks the bound hold clears it.
LEMMA WithinClears ==
    ASSUME NEW q \in Quotes, NEW need \in Int, need <= Deep(q.levels, 1 .. Breaking(q) - 1)
    PROVE  Clears(q, need)
<1> DEFINE cost == [i \in DOMAIN q.levels |-> Excess(q, q.levels[i].px) * Take(q.levels, need, i)]
           k == Breaking(q) - 1
<1>1. Depth \in Nat /\ DOMAIN q.levels = 1..Depth /\ k \in 0..Depth /\ IsFiniteSet(1..Depth)
  <2>1. Depth \in Nat /\ DOMAIN q.levels = 1..Depth /\ k \in 0..Depth
    BY BookIsDeep, BreakingIsFirst
  <2>2. Depth \in Int /\ 1 \in Int
    BY <2>1
  <2> QED
    BY <2>1, <2>2, FS_Interval
<1>2. ASSUME NEW i \in 1..Depth
      PROVE  cost[i] \in Int /\ cost[i] <= 0
  <2> DEFINE t == Take(q.levels, need, i)
  <2>1. t \in 0 .. q.levels[i].qty /\ (need <= Deep(q.levels, 1 .. i - 1) => t = 0)
    BY TakenOfLevel
  <2>2. CASE i < Breaking(q)
    BY <2>1, <2>2, CostOfLevel, <1>1
  <2>3. CASE ~(i < Breaking(q))
    <3>1. Breaking(q) \in Int /\ i - 1 \in 0..Depth /\ k \in 0 .. i - 1
      BY <1>1, <2>3, BreakingIsFirst
    <3>2. Deep(q.levels, 1..k) <= Deep(q.levels, 1 .. i - 1)
      BY <3>1, DeeperIsMore
    <3>3. Deep(q.levels, 1..k) \in Int /\ Deep(q.levels, 1 .. i - 1) \in Int
      BY <3>1, <1>1, BookIsDeep
    <3>4. t = 0
      BY <3>2, <3>3, <2>1
    <3> QED
      BY <3>4, <2>1, CostOfLevel, <1>1
  <2> QED
    BY <2>2, <2>3
<1>3. SumFunction(cost) = SumFunctionOnSet(cost, 1..Depth)
  BY <1>1 DEF SumFunction
<1>4. SumFunctionOnSet(cost, 1..Depth) <= 0
  <2> HIDE DEF cost
  <2> QED
    BY <1>1, <1>2, SumNotPositive
<1> QED
  BY <1>3, <1>4 DEF Clears

\* What taking all of the levels before the first that breaks the bound leaves of it.
Slack(q) == 0 - SumFunction([i \in 1 .. Breaking(q) - 1 |-> Excess(q, q.levels[i].px) * q.levels[i].qty])

LEMMA SlackIsNatural == ASSUME NEW q \in Quotes PROVE Slack(q) \in Nat
<1> DEFINE k == Breaking(q) - 1
           cost == [i \in 1..k |-> Excess(q, q.levels[i].px) * q.levels[i].qty]
<1>1. Depth \in Nat /\ k \in 0..Depth /\ IsFiniteSet(1..k) /\ k = Breaking(q) - 1 /\ Breaking(q) \in Int
  <2>1. Depth \in Nat /\ k \in 0..Depth /\ Breaking(q) \in Int
    BY BookIsDeep, BreakingIsFirst
  <2>2. k \in Int /\ 1 \in Int
    BY <2>1
  <2> QED
    BY <2>1, <2>2, FS_Interval
<1>2. ASSUME NEW i \in 1..k
      PROVE  cost[i] \in Int /\ cost[i] <= 0
  <2>1. i \in 1..Depth /\ i < Breaking(q)
    BY <1>1
  <2>2. q.levels[i].qty \in 0..q.levels[i].qty
    BY <2>1, BookIsDeep
  <2> QED
    BY <2>1, <2>2, CostOfLevel
<1>3. SumFunction(cost) = SumFunctionOnSet(cost, 1..k)
  BY DEF SumFunction
<1>4. SumFunctionOnSet(cost, 1..k) \in Int /\ SumFunctionOnSet(cost, 1..k) <= 0
  <2> HIDE DEF cost
  <2> QED
    BY <1>1, <1>2, SumNotPositive
<1>5. Slack(q) = 0 - SumFunctionOnSet(cost, 1..k)
  BY <1>3 DEF Slack
<1> QED
  BY <1>4, <1>5

\* Of the level that breaks the bound so much can be taken as the slack pays for.
LEMMA BeyondClears ==
    ASSUME NEW q \in Quotes, Breaking(q) <= Depth, NEW need \in Int,
           Deep(q.levels, 1 .. Breaking(q) - 1) <= need, need <= Deep(q.levels, 1 .. Breaking(q))
    PROVE  Clears(q, need) <=>
              Excess(q, q.levels[Breaking(q)].px) * (need - Deep(q.levels, 1 .. Breaking(q) - 1)) <= Slack(q)
<1> DEFINE cost == [i \in DOMAIN q.levels |-> Excess(q, q.levels[i].px) * Take(q.levels, need, i)]
           f == Breaking(q)
           k == f - 1
           whole == [i \in 1..k |-> Excess(q, q.levels[i].px) * q.levels[i].qty]
           last == Excess(q, q.levels[f].px) * (need - Deep(q.levels, 1..k))
<1>1. Depth \in Nat /\ DOMAIN q.levels = 1..Depth /\ f \in 1..Depth /\ k \in 0..Depth
      /\ IsFiniteSet(1..Depth)
  <2>1. Depth \in Nat /\ DOMAIN q.levels = 1..Depth /\ f \in 1..Depth /\ k \in 0..Depth
    BY BookIsDeep, BreakingIsFirst
  <2>2. Depth \in Int /\ 1 \in Int
    BY <2>1
  <2> QED
    BY <2>1, <2>2, FS_Interval
<1>2. \A i \in 0..Depth : Deep(q.levels, 1..i) \in Int
  BY BookIsDeep
<1>3. \A i \in 1..Depth : cost[i] \in Int
  <2> SUFFICES ASSUME NEW i \in 1..Depth PROVE cost[i] \in Int
    OBVIOUS
  <2>1. Take(q.levels, need, i) \in 0 .. q.levels[i].qty
    BY TakenOfLevel
  <2> QED
    BY <2>1, CostOfLevel, <1>1
<1>4. ASSUME NEW i \in (1..Depth) \ (1..f) PROVE cost[i] = 0
  <2>1. i \in 1..Depth /\ i - 1 \in 0..Depth /\ f \in 0 .. i - 1
    BY <1>1
  <2>2. Deep(q.levels, 1..f) <= Deep(q.levels, 1 .. i - 1)
    BY <2>1, DeeperIsMore
  <2>3. need <= Deep(q.levels, 1 .. i - 1)
    BY <2>1, <2>2, <1>1, <1>2
  <2>4. Take(q.levels, need, i) = 0 /\ Take(q.levels, need, i) \in 0 .. q.levels[i].qty
    BY <2>1, <2>3, TakenOfLevel
  <2> QED
    BY <2>1, <2>4, CostOfLevel, <1>1
<1>5. \A i \in 1..k : cost[i] = whole[i]
  <2> SUFFICES ASSUME NEW i \in 1..k PROVE cost[i] = whole[i]
    OBVIOUS
  <2>1. i \in 1..Depth /\ i \in 0..k /\ i \in 0..Depth
    BY <1>1
  <2>2. Deep(q.levels, 1..i) <= Deep(q.levels, 1..k)
    BY <2>1, <1>1, DeeperIsMore
  <2>3. need >= Deep(q.levels, 1..i)
    BY <2>1, <2>2, <1>1, <1>2
  <2>4. Take(q.levels, need, i) = q.levels[i].qty
    BY <2>1, <2>3, TakenOfLevel
  <2> QED
    BY <2>4, <2>1, <1>1
<1>6. cost[f] = last
  <2>1. Take(q.levels, need, f) = need - Deep(q.levels, 1 .. f - 1)
    <3> HIDE DEF f
    <3>1. Deep(q.levels, 1 .. f - 1) <= need /\ need <= Deep(q.levels, 1 .. f)
      BY DEF f
    <3> QED
      BY <1>1, <3>1, TakenOfLevel
  <2> QED
    BY <2>1, <1>1
<1>7. SumFunctionOnSet(cost, 1..Depth) = SumFunctionOnSet(cost, 1..f)
  <2>1. 1..f \subseteq 1..Depth
    BY <1>1
  <2> HIDE DEF cost, f
  <2> QED
    BY <1>1, <1>3, <1>4, <2>1, SumOverPart
<1>8. /\ SumFunctionOnSet(cost, 1..f) = SumFunctionOnSet(cost, 1..k) + cost[f]
      /\ SumFunctionOnSet(cost, 1..k) \in Int
  <2> HIDE DEF cost
  <2> QED
    BY <1>1, <1>3, SumUpTo
<1>9. SumFunctionOnSet(cost, 1..k) = SumFunctionOnSet(whole, 1..k)
  <2>1. IsFiniteSet(1..k)
    <3>1. k \in Int /\ 1 \in Int
      BY <1>1
    <3> QED
      BY <3>1, FS_Interval
  <2> HIDE DEF cost, whole, k
  <2> QED
    BY <1>5, <2>1, SumsAlike
<1>10. SumFunctionOnSet(whole, 1..k) = 0 - Slack(q)
  <2>1. Slack(q) = 0 - SumFunctionOnSet(whole, 1..k)
    BY DEF Slack, SumFunction
  <2> DEFINE w == SumFunctionOnSet(whole, 1..k)
  <2>2. w \in Int /\ Slack(q) = 0 - w
    BY <2>1, <1>8, <1>9
  <2> HIDE DEF w
  <2>3. w = 0 - Slack(q)
    BY <2>2
  <2> QED
    BY <2>3 DEF w
<1>11. SumFunction(cost) = SumFunctionOnSet(cost, 1..Depth)
  BY <1>1 DEF SumFunction
<1>12. Clears(q, need) <=> SumFunction(cost) <= 0
  BY DEF Clears
<1>13. last \in Int /\ Slack(q) \in Int
  BY <1>3, <1>6, <1>1, SlackIsNatural
<1> DEFINE total == SumFunction(cost)
<1>14. total = (0 - Slack(q)) + last
  BY <1>6, <1>7, <1>8, <1>9, <1>10, <1>11
<1> HIDE DEF total, last, cost
<1>15. total <= 0 <=> last <= Slack(q)
  BY <1>13, <1>14
<1> QED
  BY <1>12, <1>15 DEF total, last

\* The size the gate gives.
LEMMA GateReaches ==
    ASSUME NEW q \in Quotes, NEW need \in Int
    PROVE  LET first == Breaking(q)
               within == Deep(q.levels, 1 .. first - 1)
               over == Excess(q, q.levels[first].px)
           IN HedgeableAt(q, need) = need <=>
                 IF first > Depth THEN within >= need
                 ELSE IF Slack(q) >= over * q.levels[first].qty
                 THEN within + q.levels[first].qty >= need
                 ELSE within * over + Slack(q) >= need * over
<1> DEFINE first == Breaking(q)
           within == Deep(q.levels, 1 .. first - 1)
           qty == q.levels[first].qty
           over == Excess(q, q.levels[first].px)
           slack == Slack(q)
           size == MaxSize(q)
           whole == size.n \div size.d
<1>1. Depth \in Nat /\ Len(q.levels) = Depth /\ first \in 1 .. Depth + 1
  BY BookIsDeep, BreakingIsFirst
<1>2. within \in Int /\ slack \in Int
  BY <1>1, BookIsDeep, SlackIsNatural
<1>3. first <= Depth => qty \in Nat /\ over \in Int /\ over > 0
  <2> HAVE first <= Depth
  <2>1. first \in 1..Depth
    BY <1>1
  <2>2. qty \in Nat /\ q.levels[first].px \in Int
    BY <2>1, BookIsDeep
  <2>3. over \in Int /\ over > 0
    BY <2>2, ExcessIsInt, BreakingIsFirst
  <2> QED
    BY <2>2, <2>3
<1>4. size = IF first > Depth THEN [n |-> within, d |-> 1]
             ELSE IF slack >= over * qty THEN [n |-> within + qty, d |-> 1]
             ELSE [n |-> within * over + slack, d |-> over]
  BY <1>1 DEF MaxSize, Slack
<1>5. HedgeableAt(q, need) = IF whole < need THEN whole ELSE need
  BY DEF HedgeableAt
<1>6. ASSUME NEW n \in Int, NEW d \in Nat \ {0}, size = [n |-> n, d |-> d]
      PROVE  HedgeableAt(q, need) = need <=> n >= need * d
  <2>1. n \div d \in Int /\ (n \div d >= need <=> n >= need * d)
    BY QuotientReaches
  <2>2. whole = n \div d
    BY <1>6
  <2> HIDE DEF whole
  <2> QED
    BY <1>5, <2>1, <2>2
<1>7. need * 1 = need /\ 1 \in Nat \ {0}
  OBVIOUS
<1> HIDE DEF first, within, qty, over, slack, size, whole
<1>8. CASE first > Depth
  BY <1>8, <1>4, <1>6, <1>7, <1>2 DEF first, within
<1>9. CASE ~(first > Depth) /\ slack >= over * qty
  <2>1. within + qty \in Int /\ size = [n |-> within + qty, d |-> 1]
    BY <1>9, <1>1, <1>2, <1>3, <1>4
  <2>2. HedgeableAt(q, need) = need <=> within + qty >= need
    BY <2>1, <1>6, <1>7
  <2> QED
    BY <2>2, <1>9 DEF first, within, qty, over, slack
<1>10. CASE ~(first > Depth) /\ ~(slack >= over * qty)
  <2>1. within * over + slack \in Int /\ over \in Nat \ {0}
    BY <1>10, <1>1, <1>2, <1>3
  <2>2. size = [n |-> within * over + slack, d |-> over]
    BY <1>10, <1>4
  <2>3. HedgeableAt(q, need) = need <=> within * over + slack >= need * over
    BY <2>1, <2>2, <1>6
  <2> QED
    BY <2>3, <1>10 DEF first, within, qty, over, slack
<1> QED
  BY <1>8, <1>9, <1>10

\* The gate that allows a size and the check at the time of the hedge agree, down to
\* the first level that breaks the bound; beyond it the gate allows nothing.
LEMMA GatesAgreeOnAny == ASSUME quote \in Quotes PROVE GatesAgree
<1> DEFINE levels == quote.levels
           first == Breaking(quote)
           within == Deep(levels, 1 .. first - 1)
           qty == levels[first].qty
           over == Excess(quote, levels[first].px)
           slack == Slack(quote)
           reach == Deep(levels, 1..first \cap DOMAIN levels)
<1>1. /\ Depth \in Nat /\ DOMAIN levels = 1..Depth /\ first \in 1 .. Depth + 1 /\ first - 1 \in 0..Depth
      /\ within \in Int /\ slack \in Nat
  <2>1. Depth \in Nat /\ DOMAIN levels = 1..Depth /\ first \in 1 .. Depth + 1
    BY BookIsDeep, BreakingIsFirst
  <2>2. first - 1 \in 0..Depth
    BY <2>1
  <2> QED
    BY <2>1, <2>2, BookIsDeep, SlackIsNatural
<1>2. Deep(levels, 1..Depth) \in Int
  BY <1>1, BookIsDeep
<1>3. SUFFICES ASSUME NEW need \in 1..Deep(levels, 1..Depth)
               PROVE  /\ HedgeableAt(quote, need) = need => Clears(quote, need)
                      /\ need <= reach /\ Clears(quote, need) => HedgeableAt(quote, need) = need
  BY <1>1 DEF GatesAgree
<1>4. need \in Nat /\ need <= Deep(levels, 1..Depth)
  BY <1>2
<1>5. HedgeableAt(quote, need) = need <=>
         IF first > Depth THEN within >= need
         ELSE IF slack >= over * qty THEN within + qty >= need
         ELSE within * over + slack >= need * over
  BY <1>4, GateReaches
<1>6. need <= within => Clears(quote, need)
  BY <1>4, WithinClears
<1>7. CASE first > Depth
  <2>1. first = Depth + 1 /\ first - 1 = Depth
    BY <1>1, <1>7
  <2>2. need <= within
    BY <2>1, <1>4
  <2> QED
    BY <2>2, <1>5, <1>6, <1>7, <1>4, <1>1
<1>8. CASE ~(first > Depth)
  <2>1. first \in 1..Depth
    BY <1>1, <1>8
  <2>2. qty \in Nat /\ over \in Int /\ over > 0
    <3>1. qty \in Nat /\ levels[first].px \in Int
      BY <2>1, BookIsDeep
    <3>2. over \in Int
      BY <3>1, ExcessIsInt
    <3>3. first <= Depth
      BY <2>1, <1>1
    <3>4. over > 0
      BY <3>3, BreakingIsFirst
    <3> QED
      BY <3>1, <3>2, <3>4
  <2>3. reach = Deep(levels, 1..first)
    <3>1. 1..first \cap DOMAIN levels = 1..first
      BY <1>1, <2>1
    <3> QED
      BY <3>1
  <2>4. Deep(levels, 1..first) = within + qty
    BY <2>1, BookIsDeep
  <2>5. within <= need /\ need <= within + qty => (Clears(quote, need) <=> over * (need - within) <= slack)
    BY <1>1, <1>8, <1>4, <2>1, <2>4, BeyondClears
  <2> HIDE DEF levels, first, within, qty, over, slack, reach
  <2>6. over * (need - within) = need * over - within * over /\ need * over \in Int /\ within * over \in Int
    BY <1>1, <1>4, <2>2
  <2>7. over * qty \in Int
    BY <2>2
  <2>8. over * (need - within) \in Int
    BY <1>1, <1>4, <2>2
  <2>9. CASE need <= within
    <3>1. (within - need) * over >= 0
      BY <2>9, <1>1, <1>4, <2>2
    <3>2. (within - need) * over = within * over - need * over
      BY <1>1, <1>4, <2>2
    <3>3. within * over + slack >= need * over
      BY <3>1, <3>2, <2>6, <1>1
    <3>4. within + qty >= need
      BY <2>9, <1>1, <1>4, <2>2
    <3> QED
      BY <3>3, <3>4, <1>5, <1>6, <1>8, <2>9
  <2>10. CASE need > within /\ need <= within + qty
    <3>1. Clears(quote, need) <=> over * (need - within) <= slack
      BY <2>10, <2>5, <1>1, <1>4
    <3>2. over * (need - within) <= over * qty
      <4>1. (qty - (need - within)) * over >= 0
        BY <2>10, <1>1, <1>4, <2>2
      <4>2. (qty - (need - within)) * over = over * qty - over * (need - within)
        BY <1>1, <1>4, <2>2
      <4> QED
        BY <4>1, <4>2, <2>7, <2>8
    <3>3. CASE slack >= over * qty
      <4>1. over * (need - within) <= slack
        BY <3>2, <3>3, <2>7, <2>8, <1>1
      <4> QED
        BY <4>1, <3>1, <3>3, <1>5, <1>8, <2>10, <1>1, <1>4, <2>2
    <3>4. CASE ~(slack >= over * qty)
      <4>1. over * (need - within) <= slack <=> within * over + slack >= need * over
        BY <2>6, <1>1
      <4> QED
        BY <4>1, <3>1, <3>4, <1>5, <1>8
    <3> QED
      BY <3>3, <3>4
  <2>11. CASE need > within + qty
    <3>1. ~(need <= reach)
      BY <2>11, <2>3, <2>4, <1>1, <1>4, <2>2
    <3>2. ~(within + qty >= need)
      BY <2>11, <1>1, <1>4, <2>2
    <3>3. slack < over * qty => within * over + slack < need * over
      <4>1. (need - (within + qty)) * over >= 0
        BY <2>11, <1>1, <1>4, <2>2
      <4>2. (need - (within + qty)) * over = need * over - (within * over + over * qty)
        BY <1>1, <1>4, <2>2
      <4> QED
        BY <4>1, <4>2, <2>6, <2>7, <1>1
    <3>4. HedgeableAt(quote, need) # need
      <4>1. CASE slack >= over * qty
        BY <4>1, <3>2, <1>5, <1>8
      <4>2. CASE ~(slack >= over * qty)
        <5>1. within * over + slack < need * over
          BY <4>2, <3>3, <2>7, <1>1
        <5>2. ~(within * over + slack >= need * over)
          BY <5>1, <2>6, <1>1
        <5> QED
          BY <4>2, <5>2, <1>5, <1>8
      <4> QED
        BY <4>1, <4>2
    <3> QED
      BY <3>1, <3>4
  <2> QED
    BY <2>9, <2>10, <2>11, <1>1, <1>4, <2>2
<1> QED
  BY <1>7, <1>8

\* Rounding up and down.
LEMMA RoundedDown ==
    ASSUME NEW a \in Int, NEW d \in Nat \ {0}
    PROVE  a \div d \in Int /\ (a \div d) * d <= a
<1> DEFINE k == a \div d
           r == a % d
<1>1. k \in Int /\ r \in Int /\ a = d * k + r /\ 0 <= r
  OBVIOUS
<1> HIDE DEF k, r
<1>2. k * d = d * k /\ k * d \in Int
  BY <1>1
<1> QED
  BY <1>1, <1>2 DEF k

\* The cap is as far from the book as the price it is made of, or further.
LEMMA CapIsBeyond ==
    ASSUME NEW s \in Int, s = 1 \/ s = 0 - 1, NEW ref \in Nat,
           NEW cap, cap = IF s = 1 THEN -((-(ref * (Scale + s * Slip))) \div Scale)
                          ELSE (ref * (Scale + s * Slip)) \div Scale
    PROVE  cap \in Int /\ s * (ref - cap) <= 0
<1>1. Scale \in Nat \ {0} /\ Slip \in Nat
  BY SizingAssumption
<1>2. CASE s = 1
  <2> DEFINE up == ref * (Scale + Slip)
             neg == 0 - up
             k == neg \div Scale
  <2>1. 1 * Slip = Slip
    BY <1>1
  <2>2. up \in Int
    BY <1>1
  <2>3. -(ref * (Scale + s * Slip)) = neg
    <3>1. ref * (Scale + s * Slip) = up
      BY <2>1, <1>2
    <3> HIDE DEF up
    <3>2. -up = 0 - up
      BY <2>2
    <3> QED
      BY <3>1, <3>2
  <2>4. neg \in Int
    BY <2>2
  <2> HIDE DEF neg
  <2>5. k \in Int /\ k * Scale <= neg
    BY <1>1, <2>4, RoundedDown
  <2>6. cap = -k
    BY <1>2, <2>3
  <2> HIDE DEF k
  <2>7. cap = 0 - k
    BY <2>5, <2>6
  <2>8. up = ref * Scale + ref * Slip /\ ref * Slip >= 0 /\ ref * Scale \in Int /\ ref * Slip \in Int
    BY <1>1
  <2>9. k * Scale <= 0 - ref * Scale
    BY <2>5, <2>8, <1>1 DEF neg
  <2>10. (k + ref) * Scale <= 0
    <3>1. (k + ref) * Scale = k * Scale + ref * Scale /\ k * Scale \in Int
      BY <2>5, <1>1
    <3> QED
      BY <3>1, <2>9, <2>8
  <2>11. k + ref <= 0
    <3>1. k + ref \in Int /\ (k + ref > 0 => (k + ref) * Scale > 0)
      BY <2>5, <1>1
    <3>2. (k + ref) * Scale \in Int
      BY <2>5, <1>1
    <3> QED
      BY <3>1, <3>2, <2>10
  <2>12. s * (ref - cap) = ref + k
    BY <1>2, <2>7, <2>5
  <2> QED
    BY <2>5, <2>7, <2>11, <2>12
<1>3. CASE s = 0 - 1
  <2> DEFINE down == ref * (Scale - Slip)
             k == down \div Scale
  <2>1. (0 - 1) * Slip = 0 - Slip /\ Scale + (0 - Slip) = Scale - Slip
    BY <1>1
  <2>2. down \in Int
    BY <1>1
  <2>3. ref * (Scale + s * Slip) = down
    BY <2>1, <1>3
  <2> HIDE DEF down
  <2>4. k \in Int /\ k * Scale <= down
    BY <1>1, <2>2, RoundedDown
  <2>5. s # 1
    BY <1>3
  <2>6. cap = k
    BY <2>3, <2>5
  <2> HIDE DEF k
  <2>7. down = ref * Scale - ref * Slip /\ ref * Slip >= 0 /\ ref * Scale \in Int /\ ref * Slip \in Int
    BY <1>1 DEF down
  <2>8. k * Scale <= ref * Scale
    BY <2>4, <2>7, <1>1
  <2>9. (k - ref) * Scale <= 0
    <3>1. (k - ref) * Scale = k * Scale - ref * Scale /\ k * Scale \in Int
      BY <2>4, <1>1
    <3> QED
      BY <3>1, <2>8, <2>7
  <2>10. k - ref <= 0
    <3>1. k - ref \in Int /\ (k - ref > 0 => (k - ref) * Scale > 0)
      BY <2>4, <1>1
    <3>2. (k - ref) * Scale \in Int
      BY <2>4, <1>1
    <3> QED
      BY <3>1, <3>2, <2>9
  <2>11. s * (ref - cap) = k - ref
    BY <1>3, <2>6, <2>4
  <2> QED
    BY <2>4, <2>6, <2>10, <2>11
<1> QED
  BY <1>2, <1>3

\* A hedge at the cap fills.
LEMMA CapCrossesOnAny == ASSUME quote \in Quotes PROVE CapCrosses
<1> DEFINE levels == quote.levels
           side == quote.side
<1>1. Depth \in Nat /\ DOMAIN levels = 1..Depth /\ Len(levels) = Depth
  BY BookIsDeep
<1>2. \A i \in 1..Depth : levels[i].px \in Nat /\ levels[i].px \in Int /\ levels[i].qty \in Nat
  BY BookIsDeep
<1>3. \A i \in 0..Depth : Deep(levels, 1..i) \in Int
  BY BookIsDeep
<1>4. Deep(levels, 1..0) = 0
  BY BookIsDeep
<1>5. side \in Int /\ (side = 1 \/ side = 0 - 1)
  BY QuoteHas
<1>6. \A i, j \in 1..Depth : i < j => side * (levels[j].px - levels[i].px) > 0
  BY <1>1 DEF Quotes, Sorted
<1>7. SUFFICES ASSUME NEW need \in 1..Deep(levels, 1..Depth)
               PROVE  Deep(levels, {i \in 1..Depth : side * (levels[i].px - HedgeCap(quote, need)) <= 0})
                         >= need
  BY <1>1 DEF CapCrosses
<1> DEFINE full == {i \in DOMAIN levels : Deep(levels, 1..i) >= need}
           S == full \cup {Depth}
           last == Min(S)
           ref == levels[last].px
           cap == HedgeCap(quote, need)
           atCap == {i \in 1..Depth : side * (levels[i].px - cap) <= 0}
<1>8. Depth \in 0..Depth /\ need \in Nat /\ need >= 1 /\ Deep(levels, 1..Depth) >= need
  BY <1>1, <1>3
<1>9. Depth # 0
  BY <1>8, <1>4
<1>10. Depth \in full
  BY <1>1, <1>8, <1>9
<1>11. last \in full
  <2>1. S \subseteq Nat /\ S # {} /\ S = full
    BY <1>1, <1>10
  <2> HIDE DEF full
  <2> QED
    BY <2>1, LeastOfNaturals
<1>12. last \in 1..Depth /\ Deep(levels, 1..last) >= need
  BY <1>1, <1>11
<1>13. cap \in Int /\ side * (ref - cap) <= 0
  <2>1. ref \in Nat
    BY <1>2, <1>12
  <2>2. cap = IF side = 1 THEN -((-(ref * (Scale + side * Slip))) \div Scale)
              ELSE (ref * (Scale + side * Slip)) \div Scale
    BY <1>1 DEF HedgeCap
  <2> HIDE DEF side, ref, cap
  <2> QED
    BY <2>1, <2>2, <1>5, CapIsBeyond
<1>14. ASSUME NEW i \in 1..last PROVE i \in atCap
  <2>1. i \in 1..Depth /\ levels[i].px \in Int /\ ref \in Int
    <3>1. i \in 1..Depth
      <4> HIDE DEF last
      <4> QED
        BY <1>1, <1>12
    <3> HIDE DEF last
    <3> QED
      BY <3>1, <1>2, <1>12
  <2>2. side * (levels[i].px - ref) <= 0
    <3>1. CASE i = last
      <4>1. levels[i].px - ref = 0
        BY <3>1, <2>1
      <4>2. side * 0 = 0
        BY <1>5
      <4> QED
        BY <4>1, <4>2
    <3>2. CASE i # last
      <4>1. i < last
        BY <3>2, <1>1, <1>12
      <4> DEFINE p == levels[i].px
      <4>2. side * (ref - p) > 0
        BY <4>1, <2>1, <1>6, <1>12
      <4> HIDE DEF p, ref, side
      <4>3. p \in Int /\ ref \in Int
        BY <2>1 DEF p
      <4>4. side * (p - ref) <= 0
        BY <4>2, <4>3, <1>5
      <4> QED
        BY <4>4 DEF p
    <3> QED
      BY <3>1, <3>2
  <2> DEFINE p == levels[i].px
  <2>3. p \in Int /\ side * (p - ref) <= 0
    BY <2>1, <2>2
  <2>4. ref \in Int
    BY <2>1
  <2> HIDE DEF p, ref, cap, side
  <2>5. side * (p - cap) <= 0
    BY <2>3, <2>4, <1>5, <1>13
  <2> QED
    BY <2>5, <2>1 DEF p
<1>15. Deep(levels, 1..last) <= Deep(levels, atCap) /\ Deep(levels, atCap) \in Int
  <2>1. IsFiniteSet(1..Depth)
    <3>1. Depth \in Int /\ 1 \in Int
      BY <1>1
    <3> QED
      BY <3>1, FS_Interval
  <2>2. atCap \subseteq 1..Depth
    OBVIOUS
  <2>3. IsFiniteSet(atCap)
    BY <2>1, <2>2, FS_Subset
  <2>4. 1..last \subseteq atCap
    BY <1>14
  <2>5. \A i \in atCap : levels[i].qty \in Nat
    BY <2>2, <1>2
  <2> HIDE DEF atCap, last, levels
  <2> QED
    BY <2>3, <2>4, <2>5, QtyGrows, DeepIsQty
<1>16. Deep(levels, 1..last) \in Int
  BY <1>3, <1>12, <1>1
<1>17. Deep(levels, atCap) >= need
  <2> HIDE DEF atCap, last, levels
  <2> QED
    BY <1>12, <1>15, <1>16, <1>8
<1> QED
  BY <1>17

\* The target of an exit is the loosest basis that passes its gates.
LEMMA TargetIsLoosestOfAny == ASSUME quote \in Quotes PROVE TargetIsLoosest
<1> DEFINE carry == quote.bound
<1>1. carry \in Int
  BY QuoteHas
<1>2. SUFFICES ASSUME NEW entry \in Px, NEW close \in Px, NEW low \in Px, NEW days \in Lots
               PROVE  LET t == ExitTarget(entry, low, carry, days) IN
                      /\ close < t => Opportunity(entry, close, low, carry, days)
                      /\ Opportunity(entry, close, low, carry, days) => close <= t
  BY DEF TargetIsLoosest
<1>3. entry \in Nat /\ close \in Nat /\ low \in Nat /\ days \in Nat
  BY SizingAssumption
<1> HIDE DEF carry
<1> DEFINE kept == days * carry
           off == IF carry > 0 THEN kept ELSE 0
           t == ExitTarget(entry, low, carry, days)
<1>4. kept \in Int /\ (carry > 0 => kept >= 0)
  BY <1>1, <1>3
<1>5. t = Min({low, entry - off})
  BY DEF ExitTarget
<1>6. Opportunity(entry, close, low, carry, days) <=>
         close < low /\ entry - close > 0 /\ (carry > 0 => entry - close >= kept)
  BY DEF Opportunity
<1> HIDE DEF kept, t
<1>7. off \in Int
  BY <1>4
<1>8. t = IF low <= entry - off THEN low ELSE entry - off
  <2> HIDE DEF off
  <2>1. entry - off \in Int /\ low \in Int
    BY <1>7, <1>3
  <2> QED
    BY <2>1, <1>5, SmallerOf
<1>9. close < t => close < low /\ entry - close > 0 /\ (carry > 0 => entry - close >= kept)
  BY <1>1, <1>3, <1>4, <1>8
<1>10. close < low /\ entry - close > 0 /\ (carry > 0 => entry - close >= kept) => close <= t
  BY <1>1, <1>3, <1>4, <1>8
<1> QED
  BY <1>6, <1>9, <1>10 DEF t

\* What the code computes twice agrees, for books of any depth and any prices,
\* quantities and bounds: the size the placement gate allows clears the check at the
\* hedge, a hedge at the cap fills, and the target of an exit is the loosest that passes.
THEOREM TwiceComputedAgree == SizingInit => FiguresAgree
  BY GatesAgreeOnAny, CapCrossesOnAny, TargetIsLoosestOfAny DEF SizingInit, FiguresAgree
================================================================================
