--------------------------- MODULE AlgorandPayment ---------------------------
(***************************************************************************)
(* Paying for a tool with Algorand: the buying half (payAndFetch in        *)
(* lib/x402/algorand-client.ts, called by the agent loop, the command line *)
(* and the local MCP server) and the selling half (algorand-route.ts over  *)
(* algorand.ts).                                                           *)
(*                                                                         *)
(* A buyer asks for a tool, is quoted a price, signs one transfer for it   *)
(* and presents it.  The same signed transfer can be presented once more,  *)
(* for any tool.  The server keeps one connection to the facilitator,      *)
(* which simulates, submits and confirms transfers and can fail at each.   *)
(* Requests, answers and the server process can be lost.                   *)
(*                                                                         *)
(* Not covered: the codecs, which are the SDK's, and the choice of a chain *)
(* for a request.                                                          *)
(***************************************************************************)
EXTENDS Integers, FiniteSetsExt

CONSTANTS
  Payers,   \* calls of payAndFetch, each signs one transfer at most
  Presentations,  \* <<p, 1>>: a call's own request, <<p, 2>>: another with
                  \* the transfer it signed
  Listings, \* paid tools
  Price,    \* listing -> its price
  Asks,     \* what a caller may ask: <<listing, via, maxUsd>>, via "mcp" or "cli"
  NaN,      \* a maxUsd that is no number
  MAX_USD,  \* what the operator of the MCP server lets one call cost
  Purse     \* what the paying account holds; 0 when it has not opted in

ASSUME AlgorandAssumption ==
  /\ \A p \in Payers : <<p, 1>> \in Presentations
  /\ Presentations \subseteq Payers \X {1, 2}
  /\ Listings # {} /\ Price \in [Listings -> Nat \ {0}]
  /\ NaN \notin Nat /\ {MAX_USD, Purse} \subseteq Nat
  /\ Asks \subseteq Listings \X {"mcp", "cli"} \X (Nat \cup {NaN})

payerOf(r) == r[1]

VARIABLES
  payeeSet,       \* whether the deployment names a receiver
  facilitatorUp,  \* whether the facilitator answers
  serverPromise,  \* "none" or "live": the memoized resource server
  buyer,          \* payer -> [at, listing, via, maxUsd]
  request,        \* presentation -> [at, listing]
  group,          \* payer -> what became of its transfer, and who submitted it
  books,          \* presentations with a row in the ledger
  visitor         \* a client that only asks for prices

algorandVars == <<payeeSet, facilitatorUp, serverPromise, buyer, request, group,
                  books, visitor>>
outside      == <<payeeSet, facilitatorUp>>

\* How a paid request can be answered, and how a call can end for its buyer.
Answers  == {"receiver_not_configured", "facilitator_unavailable",
             "requirements_mismatch", "invalid_payment", "settle_failed", "ok"}
Endings  == Answers \cup {"bad_max", "over_budget", "payment_build_failed",
                          "resource_unreachable", "cancelled"}
Refused  == Answers \ {"settle_failed", "ok"}
Underway == {"arrived", "verifying", "valid", "settling", "settled", "recorded"}

nothing == CHOOSE l \in Listings : TRUE

AlgorandInit ==
  /\ payeeSet \in BOOLEAN /\ facilitatorUp \in BOOLEAN
  /\ serverPromise = "none"
  /\ buyer = [p \in Payers |->
       [at |-> "idle", listing |-> nothing, via |-> "mcp", maxUsd |-> 0]]
  /\ request = [r \in Presentations |-> [at |-> "none", listing |-> nothing]]
  /\ group = [p \in Payers |-> [at |-> "none", by |-> <<p, 1>>]]
  /\ books = {}
  /\ visitor = "idle"

amount(p) == Price[buyer[p].listing]
moved     == MapThenSumSet(amount, {p \in Payers : group[p].at = "confirmed"})

-----------------------------------------------------------------------------
(***************************************************************************)
(* getResourceServer: one initialization is shared by all who wait for it, *)
(* quotes and payments alike.                                              *)
(***************************************************************************)
asking(p)   == buyer[p].at = "asking"
arrived(r)  == request[r].at = "arrived"
someoneWaits == \/ visitor = "asking"
                \/ \E p \in Payers : asking(p)
                \/ \E r \in Presentations : arrived(r)

\* The buyer has paid for this listing's price.
matches_Any(r) == TRUE
matches(r)     == amount(payerOf(r)) = Price[request[r].listing]

\* Those who waited go on: with the server, or refused.
resume(ok) ==
  /\ visitor' = IF visitor = "asking"
                 THEN IF ok THEN "quoted" ELSE "facilitator_unavailable"
                 ELSE visitor
  /\ buyer' = [p \in Payers |->
       IF asking(p)
       THEN [buyer[p] EXCEPT !.at = IF ok THEN "quoted" ELSE "facilitator_unavailable"]
       ELSE buyer[p]]
  /\ request' = [r \in Presentations |->
       IF arrived(r)
       THEN [request[r] EXCEPT !.at =
               IF ~ok THEN "facilitator_unavailable"
               ELSE IF matches(r) THEN "verifying" ELSE "requirements_mismatch"]
       ELSE request[r]]

\* A failed initialization is discarded, so that the next request tries again.
afterInit_Cached(ok) == IF ok THEN "live" ELSE "dead"
afterInit(ok)        == IF ok THEN "live" ELSE "none"

\* An attempt ends, which began when the first of them asked.
Initialize ==
  \E ok \in BOOLEAN :
    /\ someoneWaits /\ serverPromise = "none"
    /\ facilitatorUp => ok
    /\ serverPromise' = afterInit(ok)
    /\ resume(ok)
    /\ UNCHANGED <<outside, group, books>>

UseServer ==
  /\ someoneWaits /\ serverPromise # "none"
  /\ resume(serverPromise = "live")
  /\ UNCHANGED <<outside, serverPromise, group, books>>

-----------------------------------------------------------------------------
(***************************************************************************)
(* The buyer: payAndFetch.                                                 *)
(***************************************************************************)
goes(p, at) == buyer' = [buyer EXCEPT ![p].at = at]

\* "--max": a comparison with NaN is false, so no price would exceed it.
isCap(usd) == usd # NaN /\ usd > 0

\* call_tool of the MCP server and the call of the command line.
Ask(p, l, via, maxUsd) ==
  /\ buyer[p].at = "idle"
  /\ buyer' = [buyer EXCEPT ![p] =
       [at |-> IF via = "cli" /\ ~isCap(maxUsd) THEN "bad_max"
               ELSE IF payeeSet THEN "asking" ELSE "receiver_not_configured",
        listing |-> l, via |-> via, maxUsd |-> maxUsd]]
  /\ UNCHANGED <<outside, serverPromise, request, group, books, visitor>>

\* A caller of the MCP server can lower its cap and not raise it.
capUsd(via, maxUsd) ==
  IF via = "mcp" /\ (isCap(maxUsd) => maxUsd >= MAX_USD) THEN MAX_USD ELSE maxUsd

withinCap(p) ==
  LET cap == capUsd(buyer[p].via, buyer[p].maxUsd)
  IN  cap # NaN => amount(p) <= cap

\* The budget is looked at before anything is signed; signing needs the
\* network's parameters and can fail.
Sign(p) ==
  /\ buyer[p].at = "quoted"
  /\ IF withinCap(p)
     THEN goes(p, "signed") \/ goes(p, "payment_build_failed")
     ELSE goes(p, "over_budget")
  /\ UNCHANGED <<outside, serverPromise, request, group, books, visitor>>

\* A signed transfer reaches the paid endpoint: by its buyer, or once more
\* for whatever listing.
arrive(r, l) ==
  request' = [request EXCEPT ![r] = [at |-> "arrived", listing |-> l]]

Deliver(p) ==
  /\ buyer[p].at = "signed"
  /\ goes(p, "sent")
  /\ arrive(<<p, 1>>, buyer[p].listing)
  /\ UNCHANGED <<outside, serverPromise, group, books, visitor>>

PresentAgain(p, l) ==
  /\ <<p, 2>> \in Presentations
  /\ request[<<p, 1>>].at # "none" /\ request[<<p, 2>>].at = "none"
  /\ arrive(<<p, 2>>, l)
  /\ UNCHANGED <<outside, serverPromise, buyer, group, books, visitor>>

\* fetch throws: the quote, the payment or its answer did not get through.
Unreachable(p) ==
  /\ buyer[p].at \in {"asking", "signed", "sent"}
  /\ goes(p, "resource_unreachable")
  /\ UNCHANGED <<outside, serverPromise, request, group, books, visitor>>

\* The client of the MCP server may have cancelled the call meanwhile.
ReadAnswer(p) ==
  /\ buyer[p].at = "sent" /\ request[<<p, 1>>].at \in Answers
  /\ \/ goes(p, request[<<p, 1>>].at)
     \/ buyer[p].via = "mcp" /\ goes(p, "cancelled")
  /\ UNCHANGED <<outside, serverPromise, request, group, books, visitor>>

-----------------------------------------------------------------------------
(***************************************************************************)
(* The seller: algorandPaidResponse.                                       *)
(***************************************************************************)
answers(r, at) == request' = [request EXCEPT ![r].at = at]

\* The facilitator simulates the transfer; an error of the call counts as a
\* refusal.
applicable(p) == group[p].at = "none" /\ moved + amount(p) <= Purse

Verify(r) ==
  /\ request[r].at = "verifying"
  /\ \/ facilitatorUp /\ applicable(payerOf(r)) /\ answers(r, "valid")
     \/ answers(r, "invalid_payment")
  /\ UNCHANGED <<outside, serverPromise, buyer, group, books, visitor>>

afterRefusal == "settle_failed"

\* The facilitator submits the group, unless it cannot be reached or the
\* network refuses it: a transfer already known is.
Settle(r) ==
  /\ request[r].at = "valid"
  /\ \/ /\ facilitatorUp /\ applicable(payerOf(r))
        /\ group' = [group EXCEPT ![payerOf(r)] = [at |-> "submitted", by |-> r]]
        /\ answers(r, "settling")
     \/ UNCHANGED group /\ answers(r, afterRefusal)
  /\ UNCHANGED <<outside, serverPromise, buyer, books, visitor>>

isSettled(r) == group[payerOf(r)].at = "confirmed"

\* The facilitator's word: confirmed, or a failure, whatever became of the
\* transfer.
SettleAnswers(r) ==
  /\ request[r].at = "settling"
  /\ \/ isSettled(r) /\ answers(r, "settled")
     \/ answers(r, afterRefusal)
  /\ UNCHANGED <<outside, serverPromise, buyer, group, books, visitor>>

\* The tool runs and the row is written, then the answer is sent.
RecordPaid(r) ==
  /\ request[r].at = "settled"
  /\ books' = books \cup {r}
  /\ answers(r, "recorded")
  /\ UNCHANGED <<outside, serverPromise, buyer, group, visitor>>

answerable(r) == request[r].at = "recorded"

AnswerPaid(r) ==
  /\ answerable(r)
  /\ answers(r, "ok")
  /\ UNCHANGED <<outside, serverPromise, buyer, group, books, visitor>>

-----------------------------------------------------------------------------
(***************************************************************************)
(* The network, the facilitator, the process and the visitor.              *)
(***************************************************************************)
Confirm(p) ==
  /\ group[p].at = "submitted" /\ moved + amount(p) <= Purse
  /\ group' = [group EXCEPT ![p].at = "confirmed"]
  /\ UNCHANGED <<outside, serverPromise, buyer, request, books, visitor>>

\* Its last valid round passes, or the purse was emptied by another.
Lapse(p) ==
  /\ group[p].at = "submitted"
  /\ group' = [group EXCEPT ![p].at = "lapsed"]
  /\ UNCHANGED <<outside, serverPromise, buyer, request, books, visitor>>

FacilitatorOutage ==
  /\ facilitatorUp' = ~facilitatorUp
  /\ UNCHANGED <<payeeSet, serverPromise, buyer, request, group, books, visitor>>

\* A deploy: what is under way has no answer.
ServerEnds ==
  /\ serverPromise' = "none"
  /\ request' = [r \in Presentations |->
       IF request[r].at \in Underway THEN [request[r] EXCEPT !.at = "lost"]
                                     ELSE request[r]]
  /\ buyer' = [p \in Payers |->
       IF asking(p) THEN [buyer[p] EXCEPT !.at = "resource_unreachable"]
                    ELSE buyer[p]]
  /\ visitor' = IF visitor = "asking" THEN "idle" ELSE visitor
  /\ UNCHANGED <<outside, group, books>>

AskPrice ==
  /\ payeeSet /\ visitor = "idle"
  /\ visitor' = "asking"
  /\ UNCHANGED <<outside, serverPromise, buyer, request, group, books>>

ReadPrice ==
  /\ visitor \in {"quoted", "facilitator_unavailable"}
  /\ visitor' = "idle"
  /\ UNCHANGED <<outside, serverPromise, buyer, request, group, books>>

serverStep == Initialize \/ UseServer
sellerStep(r) ==
  Verify(r) \/ Settle(r) \/ SettleAnswers(r) \/ RecordPaid(r) \/ AnswerPaid(r)
buyerStep(p) == Sign(p) \/ Deliver(p) \/ Unreachable(p) \/ ReadAnswer(p)

AlgorandNext ==
  \/ serverStep
  \/ \E p \in Payers, ask \in Asks : Ask(p, ask[1], ask[2], ask[3])
  \/ \E p \in Payers : buyerStep(p)
  \/ \E p \in Payers, l \in Listings : PresentAgain(p, l)
  \/ \E r \in Presentations : sellerStep(r)
  \/ \E p \in Payers : Confirm(p)
  \/ \E p \in Payers : Lapse(p)
  \/ FacilitatorOutage
  \/ ServerEnds
  \/ AskPrice
  \/ ReadPrice

\* Initializing ends one way or the other; quotes are read.
AlgorandFairness == WF_algorandVars(serverStep) /\ WF_algorandVars(ReadPrice)

AlgorandSpec == AlgorandInit /\ [][AlgorandNext]_algorandVars /\ AlgorandFairness

-----------------------------------------------------------------------------
(***************************************************************************)
(* Properties.                                                             *)
(***************************************************************************)
\* Every field has its type, and nothing is submitted that was not presented.
AlgorandTypeOK ==
  /\ payeeSet \in BOOLEAN /\ facilitatorUp \in BOOLEAN
  /\ serverPromise \in {"none", "live"}
  /\ buyer \in [Payers -> [at : {"idle", "asking", "quoted", "signed", "sent"}
                                \cup Endings,
                           listing : Listings, via : {"mcp", "cli"},
                           maxUsd : Nat \cup {NaN}]]
  /\ request \in [Presentations ->
                   [at : {"none", "lost"} \cup Underway \cup Answers,
                    listing : Listings]]
  /\ group \in [Payers -> [at : {"none", "submitted", "confirmed", "lapsed"},
                           by : Presentations]]
  /\ books \subseteq Presentations
  /\ visitor \in {"idle", "asking", "quoted", "facilitator_unavailable"}
  /\ \A p \in Payers : group[p].at # "none" =>
       payerOf(group[p].by) = p /\ request[group[p].by].at # "none"

\* "stops a payment minted for a cheaper listing from unlocking an expensive
\* one": a result is handed out, and a row written, on a confirmed transfer of
\* this listing's price, and on each transfer once, however often and for
\* whatever it is presented, and whatever the facilitator says of it.
ResultsArePaid ==
  \A r \in Presentations :
    request[r].at \in {"settled", "recorded", "ok"} \/ r \in books =>
      /\ group[payerOf(r)] = [at |-> "confirmed", by |-> r]
      /\ amount(payerOf(r)) = Price[request[r].listing]

\* A buyer that is told no before settlement was not charged by that request:
\* only a failed settlement, a lost answer and a lost process leave the money
\* in doubt.
RefusedMovesNothing ==
  /\ \A r \in Presentations :
       request[r].at \in Refused /\ group[payerOf(r)].at # "none" =>
         group[payerOf(r)].by # r
  /\ \A p \in Payers :
       buyer[p].at \in {"bad_max", "receiver_not_configured", "over_budget",
                        "payment_build_failed"} => group[p].at = "none"

\* "may only LOWER the operator's cap, never raise it", and on the command line
\* "NaN ... silently disables the cap. Fail closed instead": both bound what is
\* submitted for a call, whoever presents the transfer.
ChargedWithinCap ==
  \A p \in Payers : group[p].at # "none" =>
    LET b == buyer[p]
    IN  /\ b.via = "mcp" => amount(p) <= MAX_USD
        /\ b.via = "cli" => b.maxUsd # NaN
        /\ b.maxUsd # NaN /\ b.maxUsd > 0 => amount(p) <= b.maxUsd

\* What is delivered is on the books, also when the answer is lost or the
\* process ends.
DeliveredIsRecorded == \A r \in Presentations : request[r].at = "ok" => r \in books

\* "so the next request retries instead of caching a dead server": once the
\* facilitator stays up, prices are quoted again.
QuotesHeal == <>[]facilitatorUp => <>[](visitor # "facilitator_unavailable")

\* Money, results and rows go together: no result without its payment, no
\* refusal with one, no charge above a cap, no delivery without a row.
AlgorandInv ==
  /\ AlgorandTypeOK
  /\ ResultsArePaid
  /\ RefusedMovesNothing
  /\ ChargedWithinCap
  /\ DeliveredIsRecorded
=============================================================================
