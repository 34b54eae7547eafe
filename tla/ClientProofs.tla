---------------------------- MODULE ClientProofs ----------------------------
(***************************************************************************)
(* Theorems about clients, on either side of a ledger: one that pays on    *)
(* Algorand and the server it pays, for any payers, prices and caps; the   *)
(* chain a tab has chosen, for any tabs and either default; two clients of *)
(* the Nightpass contract, the command line and the demo, for any tools,   *)
(* secrets, catalog and number of calls; and the scripts that fund the     *)
(* accounts, for any wallets, amounts and number of transactions.          *)
(***************************************************************************)
EXTENDS AlgorandPayment, ChainChoice, SetupScripts, NightpassCli, NightpassDemo,
        NightpassProofs

-----------------------------------------------------------------------------
(***************************************************************************)
(* AlgorandPayment.                                                        *)
(*                                                                         *)
(* Beside the promises the invariant keeps that whatever is presented was  *)
(* signed within its buyer's cap, and that it is a request's own           *)
(* settlement that submits the transfer.                                   *)
(***************************************************************************)
\* A transfer is presented only when its buyer has signed it, within its cap,
\* and the call cannot go back behind that.
Presented == {"sent", "resource_unreachable", "cancelled"}
               \cup (Answers \ {"receiver_not_configured"})

PresentedWasSigned ==
  /\ \A r \in Presentations : request[r].at # "none" =>
       buyer[payerOf(r)].at \in Presented /\ withinCap(payerOf(r))
  /\ \A p \in Payers : buyer[p].at = "signed" => withinCap(p)
  /\ \A p \in Payers : buyer[p].at \notin {"idle", "bad_max"} /\ buyer[p].via = "cli"
       => isCap(buyer[p].maxUsd)

\* From verification on a request is for the price that was signed; it is its
\* own settlement that submits the transfer, and nothing before it.
SettlesItsOwn ==
  \A r \in Presentations :
    LET g == group[payerOf(r)]
    IN  /\ request[r].at # "receiver_not_configured"
        /\ request[r].at \in {"verifying", "valid", "settling"} => matches(r)
        /\ request[r].at = "settling" => g.at # "none" /\ g.by = r
        /\ request[r].at \in {"arrived", "verifying", "valid"} /\ g.at # "none" =>
             g.by # r
        /\ request[r].at = "recorded" => r \in books
        /\ r \in books => request[r].at # "none"

\* The inductive invariant.
AlgorandIInv == AlgorandInv /\ PresentedWasSigned /\ SettlesItsOwn

\* The records of buyers and of requests.
BuyerRecord == [at : {"idle", "asking", "quoted", "signed", "sent"} \cup Endings,
                listing : Listings, via : {"mcp", "cli"}, maxUsd : Nat \cup {NaN}]
RequestRecord == [at : {"none", "lost"} \cup Underway \cup Answers, listing : Listings]

LEMMA PayerOf == \A r \in Presentations : payerOf(r) \in Payers
  BY AlgorandAssumption DEF payerOf

LEMMA AlgorandInitially == AlgorandInit => AlgorandIInv
<1>. SUFFICES ASSUME AlgorandInit PROVE AlgorandIInv
  OBVIOUS
<1>. USE DEF AlgorandInit
<1>0. nothing \in Listings
  BY AlgorandAssumption DEF nothing
<1>1. AlgorandTypeOK
  BY <1>0, AlgorandAssumption DEF AlgorandTypeOK
<1>2. ResultsArePaid /\ RefusedMovesNothing /\ ChargedWithinCap /\ DeliveredIsRecorded
  BY PayerOf DEF ResultsArePaid, RefusedMovesNothing, ChargedWithinCap,
     DeliveredIsRecorded, Refused, Answers
<1>3. PresentedWasSigned /\ SettlesItsOwn
  BY PayerOf DEF PresentedWasSigned, SettlesItsOwn
<1>. QED
  BY <1>1, <1>2, <1>3 DEF AlgorandIInv, AlgorandInv

\* What a buyer asked for does not change while its call goes on.
LEMMA SameOffer ==
  ASSUME NEW p \in Payers, buyer'[p].listing = buyer[p].listing,
         buyer'[p].via = buyer[p].via, buyer'[p].maxUsd = buyer[p].maxUsd
  PROVE  amount(p)' = amount(p) /\ withinCap(p)' = withinCap(p)
  BY DEF amount, withinCap

LEMMA BuyerGoes ==
  ASSUME AlgorandTypeOK, NEW p \in Payers, NEW at, goes(p, at),
         at \in {"idle", "asking", "quoted", "signed", "sent"} \cup Endings
  PROVE  /\ buyer' \in [Payers -> BuyerRecord]
         /\ buyer'[p].at = at
         /\ \A q \in Payers : q # p => buyer'[q] = buyer[q]
         /\ \A q \in Payers : /\ buyer'[q].listing = buyer[q].listing
                              /\ buyer'[q].via = buyer[q].via
                              /\ buyer'[q].maxUsd = buyer[q].maxUsd
<1> DEFINE b == [buyer[p] EXCEPT !.at = at]
<1>1. buyer \in [Payers -> BuyerRecord]
  BY DEF AlgorandTypeOK, BuyerRecord
<1>2. buyer[p] \in BuyerRecord
  BY <1>1
<1>3. /\ b \in BuyerRecord /\ b.at = at /\ b.listing = buyer[p].listing
      /\ b.via = buyer[p].via /\ b.maxUsd = buyer[p].maxUsd
  BY <1>2 DEF BuyerRecord
<1>4. buyer' = [buyer EXCEPT ![p] = b]
  BY DEF goes
<1> HIDE DEF b
<1>. QED BY <1>1, <1>3, <1>4

LEMMA RequestGoes ==
  ASSUME AlgorandTypeOK, NEW r \in Presentations, NEW at, answers(r, at),
         at \in {"none", "lost"} \cup Underway \cup Answers
  PROVE  /\ request' \in [Presentations -> RequestRecord]
         /\ request'[r].at = at
         /\ \A q \in Presentations : q # r => request'[q] = request[q]
         /\ \A q \in Presentations : request'[q].listing = request[q].listing
<1> DEFINE b == [request[r] EXCEPT !.at = at]
<1>1. request \in [Presentations -> RequestRecord]
  BY DEF AlgorandTypeOK, RequestRecord
<1>2. request[r] \in RequestRecord
  BY <1>1
<1>3. b \in RequestRecord /\ b.at = at /\ b.listing = request[r].listing
  BY <1>2 DEF RequestRecord
<1>4. request' = [request EXCEPT ![r] = b]
  BY DEF answers
<1> HIDE DEF b
<1>. QED BY <1>1, <1>3, <1>4

\* When no offer changes, neither do the amounts and the caps.
OffersStay == \A p \in Payers : /\ buyer'[p].listing = buyer[p].listing
                                /\ buyer'[p].via = buyer[p].via
                                /\ buyer'[p].maxUsd = buyer[p].maxUsd
ListingsStay == \A r \in Presentations :
  request[r].at # "none" => request'[r].listing = request[r].listing

LEMMA OffersStayed ==
  ASSUME OffersStay
  PROVE  \A p \in Payers : amount(p)' = amount(p) /\ withinCap(p)' = withinCap(p)
  BY SameOffer DEF OffersStay

LEMMA MatchesStayed ==
  ASSUME OffersStay, ListingsStay, NEW r \in Presentations, request[r].at # "none"
  PROVE  matches(r)' = matches(r)
<1>1. payerOf(r) \in Payers
  BY PayerOf
<1>2. amount(payerOf(r))' = amount(payerOf(r))
  BY <1>1, SameOffer DEF OffersStay, payerOf
<1>3. request'[r].listing = request[r].listing
  BY DEF ListingsStay
<1>. QED
  BY <1>2, <1>3 DEF matches

\* Who signed within its cap is charged within it.
WithinItsCap(p) ==
  LET b == buyer[p]
  IN  /\ b.via = "mcp" => amount(p) <= MAX_USD
      /\ b.via = "cli" => b.maxUsd # NaN
      /\ b.maxUsd # NaN /\ b.maxUsd > 0 => amount(p) <= b.maxUsd

LEMMA CapBounds ==
  ASSUME AlgorandTypeOK, PresentedWasSigned, NEW r \in Presentations,
         request[r].at # "none"
  PROVE  WithinItsCap(payerOf(r))
<1> DEFINE p == payerOf(r)
<1>1. p \in Payers /\ withinCap(p) /\ buyer[p].at \in Presented
  BY PayerOf DEF PresentedWasSigned
<1>2. /\ buyer[p].via \in {"mcp", "cli"} /\ buyer[p].maxUsd \in Nat \cup {NaN}
      /\ buyer[p].listing \in Listings
  BY <1>1 DEF AlgorandTypeOK
<1>3. buyer[p].via = "cli" => isCap(buyer[p].maxUsd)
  BY <1>1 DEF PresentedWasSigned, Presented, Answers
<1>4. amount(p) \in Nat
  BY <1>2, AlgorandAssumption DEF amount
<1>5. buyer[p].maxUsd # NaN => buyer[p].maxUsd \in Nat
  BY <1>2
<1> HIDE DEF p
<1>6. WithinItsCap(p)
  <2>1. CASE buyer[p].via = "cli"
    BY <1>1, <1>3, <1>4, <1>5, <2>1, AlgorandAssumption
       DEF WithinItsCap, withinCap, capUsd, isCap
  <2>2. CASE buyer[p].via = "mcp"
    BY <1>1, <1>4, <1>5, <2>2, AlgorandAssumption
       DEF WithinItsCap, withinCap, capUsd, isCap
  <2>. QED BY <1>2, <2>1, <2>2
<1>. QED
  BY <1>6 DEF p

LEMMA VerifyStep ==
  ASSUME AlgorandIInv, NEW r \in Presentations, Verify(r)
  PROVE  AlgorandIInv'
<1>. USE DEF AlgorandIInv, AlgorandInv
<1>0. PICK at \in {"valid", "invalid_payment"} : answers(r, at)
  BY DEF Verify
<1>1. /\ request[r].at = "verifying"
      /\ UNCHANGED <<outside, serverPromise, buyer, group, books, visitor>>
  BY DEF Verify
<1>2. /\ request' \in [Presentations -> RequestRecord]
      /\ request'[r].at = at
      /\ \A q \in Presentations : q # r => request'[q] = request[q]
      /\ \A q \in Presentations : request'[q].listing = request[q].listing
  BY <1>0, RequestGoes DEF Underway, Answers
<1>3. /\ \A p \in Payers : amount(p)' = amount(p) /\ withinCap(p)' = withinCap(p)
      /\ \A q \in Presentations : request[q].at # "none" => matches(q)' = matches(q)
  BY <1>1, <1>2, OffersStayed, MatchesStayed DEF OffersStay, ListingsStay
<1>21. AlgorandTypeOK'
  BY SMTT(30), <1>1, <1>2, <1>3 DEF AlgorandTypeOK, RequestRecord, BuyerRecord,
     outside
<1>22. ResultsArePaid'
  BY <1>1, <1>2, <1>3, PayerOf DEF ResultsArePaid, matches, SettlesItsOwn
<1>23. RefusedMovesNothing'
  BY <1>1, <1>2, <1>3, PayerOf DEF RefusedMovesNothing, SettlesItsOwn, Refused,
     Answers
<1>24. ChargedWithinCap'
  BY <1>1, <1>2, <1>3, PayerOf DEF ChargedWithinCap
<1>25. DeliveredIsRecorded'
  BY <1>1, <1>2, <1>3, PayerOf DEF DeliveredIsRecorded, SettlesItsOwn
<1>26. PresentedWasSigned'
  BY <1>1, <1>2, <1>3, PayerOf DEF PresentedWasSigned
<1>27. SettlesItsOwn'
  BY <1>1, <1>2, <1>3, PayerOf DEF SettlesItsOwn
<1>. QED
  BY <1>21, <1>22, <1>23, <1>24, <1>25, <1>26, <1>27

LEMMA SettleStep ==
  ASSUME AlgorandIInv, NEW r \in Presentations, Settle(r)
  PROVE  AlgorandIInv'
<1>a. WithinItsCap(payerOf(r))
  BY CapBounds DEF AlgorandIInv, AlgorandInv, Settle
<1>. USE DEF AlgorandIInv, AlgorandInv
<1>0. PICK at \in {"settling", "settle_failed"} : answers(r, at)
  BY DEF Settle, afterRefusal
<1>1. /\ request[r].at = "valid"
      /\ UNCHANGED <<outside, serverPromise, buyer, books, visitor>>
  BY DEF Settle
<1>2. /\ request' \in [Presentations -> RequestRecord]
      /\ request'[r].at = at
      /\ \A q \in Presentations : q # r => request'[q] = request[q]
      /\ \A q \in Presentations : request'[q].listing = request[q].listing
  BY <1>0, RequestGoes DEF Underway, Answers
<1>4. \/ /\ group[payerOf(r)].at = "none" /\ at = "settling"
         /\ group' = [group EXCEPT ![payerOf(r)] = [at |-> "submitted", by |-> r]]
      \/ at = "settle_failed" /\ group' = group
  <2>1. request \in [Presentations -> RequestRecord]
    BY DEF AlgorandTypeOK, RequestRecord
  <2>2. \A x : answers(r, x) => request'[r].at = x
    BY <2>1 DEF answers, RequestRecord
  <2>. QED BY <1>2, <2>2 DEF Settle, applicable, afterRefusal
<1>3. /\ \A q \in Payers : amount(q)' = amount(q) /\ withinCap(q)' = withinCap(q)
      /\ \A q \in Presentations : request[q].at # "none" => matches(q)' = matches(q)
  BY <1>1, <1>2, OffersStayed, MatchesStayed DEF OffersStay, ListingsStay
<1>5. group \in [Payers -> [at : {"none", "submitted", "confirmed", "lapsed"},
                           by : Presentations]]
  BY DEF AlgorandTypeOK
<1>6. /\ group' \in [Payers -> [at : {"none", "submitted", "confirmed", "lapsed"},
                                by : Presentations]]
      /\ \A p \in Payers \ {payerOf(r)} : group'[p] = group[p]
      /\ \/ /\ group[payerOf(r)].at = "none" /\ at = "settling"
            /\ group'[payerOf(r)] = [at |-> "submitted", by |-> r]
         \/ at = "settle_failed" /\ group'[payerOf(r)] = group[payerOf(r)]
  BY <1>4, <1>5, PayerOf
<1>7. \A p \in Payers : group'[p].at # "none" =>
        payerOf(group'[p].by) = p /\ request'[group'[p].by].at # "none"
  <2>. SUFFICES ASSUME NEW p \in Payers, group'[p].at # "none"
                PROVE  payerOf(group'[p].by) = p /\ request'[group'[p].by].at # "none"
    OBVIOUS
  <2>1. CASE group'[p] = group[p]
    <3>1. payerOf(group[p].by) = p /\ request[group[p].by].at # "none"
             /\ group[p].by \in Presentations
      BY <1>5, <2>1 DEF AlgorandTypeOK
    <3>. QED BY <1>1, <1>2, <2>1, <3>1
  <2>2. CASE p = payerOf(r) /\ group'[p] = [at |-> "submitted", by |-> r] /\ at = "settling"
    BY <1>2, <2>2
  <2>. QED BY <1>6, <2>1, <2>2
<1>21. AlgorandTypeOK'
  BY <1>1, <1>2, <1>6, <1>7 DEF AlgorandTypeOK, RequestRecord, outside
<1>22. ResultsArePaid'
  BY <1>1, <1>2, <1>3, <1>6, PayerOf DEF ResultsArePaid, matches, SettlesItsOwn
<1>23. RefusedMovesNothing'
  <2>1. ASSUME NEW q \in Presentations, request'[q].at \in Refused,
               group'[payerOf(q)].at # "none"
        PROVE  group'[payerOf(q)].by # q
    BY <1>1, <1>2, <1>6, <2>1, PayerOf
       DEF RefusedMovesNothing, Refused, Answers
  <2>2. ASSUME NEW p \in Payers,
               buyer[p].at \in {"bad_max", "receiver_not_configured", "over_budget",
                                "payment_build_failed"}
        PROVE  group'[p].at = "none"
    <3>1. group[p].at = "none" /\ p # payerOf(r)
      BY <1>1, <2>2 DEF RefusedMovesNothing, PresentedWasSigned, Presented,
         Answers
    <3>. QED BY <1>6, <3>1
  <2>. QED BY <1>1, <2>1, <2>2 DEF RefusedMovesNothing
<1>24. ChargedWithinCap'
  BY <1>1, <1>2, <1>3, <1>6, PayerOf, <1>a DEF ChargedWithinCap, WithinItsCap
<1>25. DeliveredIsRecorded'
  BY <1>1, <1>2, <1>3, <1>6, PayerOf DEF DeliveredIsRecorded, SettlesItsOwn
<1>26. PresentedWasSigned'
  BY <1>1, <1>2, <1>3, <1>6, PayerOf DEF PresentedWasSigned
<1>27. SettlesItsOwn'
  BY SMTT(30), <1>1, <1>2, <1>3, <1>6, PayerOf DEF SettlesItsOwn
<1>. QED
  BY <1>21, <1>22, <1>23, <1>24, <1>25, <1>26, <1>27

LEMMA SettleAnswersStep ==
  ASSUME AlgorandIInv, NEW r \in Presentations, SettleAnswers(r)
  PROVE  AlgorandIInv'
<1>. USE DEF AlgorandIInv, AlgorandInv
<1>0. PICK at \in {"settled", "settle_failed"} :
        answers(r, at) /\ (at = "settled" => isSettled(r))
  BY DEF SettleAnswers, afterRefusal
<1>1. /\ request[r].at = "settling"
      /\ UNCHANGED <<outside, serverPromise, buyer, group, books, visitor>>
  BY DEF SettleAnswers
<1>2. /\ request' \in [Presentations -> RequestRecord]
      /\ request'[r].at = at
      /\ \A q \in Presentations : q # r => request'[q] = request[q]
      /\ \A q \in Presentations : request'[q].listing = request[q].listing
  BY <1>0, RequestGoes DEF Underway, Answers
<1>3. /\ \A p \in Payers : amount(p)' = amount(p) /\ withinCap(p)' = withinCap(p)
      /\ \A q \in Presentations : request[q].at # "none" => matches(q)' = matches(q)
  BY <1>1, <1>2, OffersStayed, MatchesStayed DEF OffersStay, ListingsStay
<1>4. at = "settled" => group[payerOf(r)] = [at |-> "confirmed", by |-> r]
  BY <1>0, <1>1, PayerOf DEF SettlesItsOwn, isSettled, AlgorandTypeOK
<1>21. AlgorandTypeOK'
  BY <1>1, <1>2, <1>3, <1>0, <1>4 DEF AlgorandTypeOK, RequestRecord,
     BuyerRecord, outside
<1>22. ResultsArePaid'
  BY <1>1, <1>2, <1>3, <1>0, <1>4, PayerOf DEF ResultsArePaid, matches,
     SettlesItsOwn
<1>23. RefusedMovesNothing'
  BY <1>1, <1>2, <1>3, <1>0, <1>4, PayerOf DEF RefusedMovesNothing,
     SettlesItsOwn, Refused, Answers
<1>24. ChargedWithinCap'
  BY <1>1, <1>2, <1>3, <1>0, <1>4, PayerOf DEF ChargedWithinCap
<1>25. DeliveredIsRecorded'
  BY <1>1, <1>2, <1>3, <1>0, <1>4, PayerOf DEF DeliveredIsRecorded,
     SettlesItsOwn
<1>26. PresentedWasSigned'
  BY <1>1, <1>2, <1>3, <1>0, <1>4, PayerOf DEF PresentedWasSigned
<1>27. SettlesItsOwn'
  BY <1>1, <1>2, <1>3, <1>0, <1>4, PayerOf DEF SettlesItsOwn
<1>. QED
  BY <1>21, <1>22, <1>23, <1>24, <1>25, <1>26, <1>27

LEMMA RecordPaidStep ==
  ASSUME AlgorandIInv, NEW r \in Presentations, RecordPaid(r)
  PROVE  AlgorandIInv'
<1>. USE DEF AlgorandIInv, AlgorandInv
<1> DEFINE at == "recorded"
<1>0. answers(r, at)
  BY DEF RecordPaid
<1>1. /\ request[r].at = "settled" /\ books' = books \cup {r}
      /\ UNCHANGED <<outside, serverPromise, buyer, group, visitor>>
  BY DEF RecordPaid
<1>2. /\ request' \in [Presentations -> RequestRecord]
      /\ request'[r].at = at
      /\ \A q \in Presentations : q # r => request'[q] = request[q]
      /\ \A q \in Presentations : request'[q].listing = request[q].listing
  BY <1>0, RequestGoes DEF Underway, Answers
<1>3. /\ \A p \in Payers : amount(p)' = amount(p) /\ withinCap(p)' = withinCap(p)
      /\ \A q \in Presentations : request[q].at # "none" => matches(q)' = matches(q)
  BY <1>1, <1>2, OffersStayed, MatchesStayed DEF OffersStay, ListingsStay
<1>21. AlgorandTypeOK'
  BY <1>1, <1>2, <1>3 DEF AlgorandTypeOK, RequestRecord, BuyerRecord, outside
<1>22. ResultsArePaid'
  BY <1>1, <1>2, <1>3, PayerOf DEF ResultsArePaid, matches, SettlesItsOwn
<1>23. RefusedMovesNothing'
  BY <1>1, <1>2, <1>3, PayerOf DEF RefusedMovesNothing, SettlesItsOwn, Refused,
     Answers
<1>24. ChargedWithinCap'
  BY <1>1, <1>2, <1>3, PayerOf DEF ChargedWithinCap
<1>25. DeliveredIsRecorded'
  BY <1>1, <1>2, <1>3, PayerOf DEF DeliveredIsRecorded, SettlesItsOwn
<1>26. PresentedWasSigned'
  BY <1>1, <1>2, <1>3, PayerOf DEF PresentedWasSigned
<1>27. SettlesItsOwn'
  BY <1>1, <1>2, <1>3, PayerOf DEF SettlesItsOwn
<1>. QED
  BY <1>21, <1>22, <1>23, <1>24, <1>25, <1>26, <1>27

LEMMA AnswerPaidStep ==
  ASSUME AlgorandIInv, NEW r \in Presentations, AnswerPaid(r)
  PROVE  AlgorandIInv'
<1>. USE DEF AlgorandIInv, AlgorandInv
<1> DEFINE at == "ok"
<1>0. answers(r, at)
  BY DEF AnswerPaid
<1>1. /\ request[r].at = "recorded"
      /\ UNCHANGED <<outside, serverPromise, buyer, group, books, visitor>>
  BY DEF AnswerPaid, answerable
<1>2. /\ request' \in [Presentations -> RequestRecord]
      /\ request'[r].at = at
      /\ \A q \in Presentations : q # r => request'[q] = request[q]
      /\ \A q \in Presentations : request'[q].listing = request[q].listing
  BY <1>0, RequestGoes DEF Underway, Answers
<1>3. /\ \A p \in Payers : amount(p)' = amount(p) /\ withinCap(p)' = withinCap(p)
      /\ \A q \in Presentations : request[q].at # "none" => matches(q)' = matches(q)
  BY <1>1, <1>2, OffersStayed, MatchesStayed DEF OffersStay, ListingsStay
<1>21. AlgorandTypeOK'
  BY SMTT(30), <1>1, <1>2, <1>3 DEF AlgorandTypeOK, RequestRecord, BuyerRecord,
     outside
<1>22. ResultsArePaid'
  BY <1>1, <1>2, <1>3, PayerOf DEF ResultsArePaid, matches, SettlesItsOwn
<1>23. RefusedMovesNothing'
  BY <1>1, <1>2, <1>3, PayerOf DEF RefusedMovesNothing, SettlesItsOwn, Refused,
     Answers
<1>24. ChargedWithinCap'
  BY <1>1, <1>2, <1>3, PayerOf DEF ChargedWithinCap
<1>25. DeliveredIsRecorded'
  BY <1>1, <1>2, <1>3, PayerOf DEF DeliveredIsRecorded, SettlesItsOwn
<1>26. PresentedWasSigned'
  BY <1>1, <1>2, <1>3, PayerOf DEF PresentedWasSigned
<1>27. SettlesItsOwn'
  BY <1>1, <1>2, <1>3, PayerOf DEF SettlesItsOwn
<1>. QED
  BY <1>21, <1>22, <1>23, <1>24, <1>25, <1>26, <1>27

LEMMA SignStep ==
  ASSUME AlgorandIInv, NEW p \in Payers, Sign(p)
  PROVE  AlgorandIInv'
<1>. USE DEF AlgorandIInv, AlgorandInv
<1>0. PICK at \in {"signed", "payment_build_failed", "over_budget"} :
        goes(p, at) /\ (at = "signed" => withinCap(p))
  BY DEF Sign
<1>1. /\ buyer[p].at = "quoted"
      /\ UNCHANGED <<outside, serverPromise, request, group, books, visitor>>
  BY DEF Sign
<1>2. /\ buyer' \in [Payers -> BuyerRecord]
      /\ buyer'[p].at = at
      /\ \A q \in Payers : q # p => buyer'[q] = buyer[q]
      /\ \A q \in Payers : /\ buyer'[q].listing = buyer[q].listing
                           /\ buyer'[q].via = buyer[q].via
                           /\ buyer'[q].maxUsd = buyer[q].maxUsd
  BY <1>0, BuyerGoes DEF Endings, Answers
<1>3. /\ \A q \in Payers : amount(q)' = amount(q) /\ withinCap(q)' = withinCap(q)
      /\ \A q \in Presentations : request[q].at # "none" => matches(q)' = matches(q)
  BY <1>1, <1>2, OffersStayed, MatchesStayed DEF OffersStay, ListingsStay
<1>21. AlgorandTypeOK'
  BY <1>1, <1>2, <1>3, <1>0 DEF AlgorandTypeOK, RequestRecord, BuyerRecord,
     outside
<1>22. ResultsArePaid'
  BY <1>1, <1>2, <1>3, <1>0, PayerOf DEF ResultsArePaid, matches, SettlesItsOwn
<1>23. RefusedMovesNothing'
  BY ZenonT(60), <1>1, <1>2, <1>3, <1>0, PayerOf DEF RefusedMovesNothing,
     SettlesItsOwn,
     Refused, AlgorandTypeOK, PresentedWasSigned, Presented, Answers
<1>24. ChargedWithinCap'
  BY <1>1, <1>2, <1>3, <1>0, PayerOf DEF ChargedWithinCap
<1>25. DeliveredIsRecorded'
  BY <1>1, <1>2, <1>3, <1>0, PayerOf DEF DeliveredIsRecorded, SettlesItsOwn
<1>26. PresentedWasSigned'
  BY <1>1, <1>2, <1>3, <1>0, PayerOf DEF PresentedWasSigned, Presented, Answers
<1>27. SettlesItsOwn'
  BY <1>1, <1>2, <1>3, <1>0, PayerOf DEF SettlesItsOwn
<1>. QED
  BY <1>21, <1>22, <1>23, <1>24, <1>25, <1>26, <1>27

LEMMA UnreachableStep ==
  ASSUME AlgorandIInv, NEW p \in Payers, Unreachable(p)
  PROVE  AlgorandIInv'
<1>. USE DEF AlgorandIInv, AlgorandInv
<1> DEFINE at == "resource_unreachable"
<1>0. goes(p, at)
  BY DEF Unreachable
<1>1. /\ buyer[p].at \in {"asking", "signed", "sent"}
      /\ UNCHANGED <<outside, serverPromise, request, group, books, visitor>>
  BY DEF Unreachable
<1>2. /\ buyer' \in [Payers -> BuyerRecord]
      /\ buyer'[p].at = at
      /\ \A q \in Payers : q # p => buyer'[q] = buyer[q]
      /\ \A q \in Payers : /\ buyer'[q].listing = buyer[q].listing
                           /\ buyer'[q].via = buyer[q].via
                           /\ buyer'[q].maxUsd = buyer[q].maxUsd
  BY <1>0, BuyerGoes DEF Endings, Answers
<1>3. /\ \A q \in Payers : amount(q)' = amount(q) /\ withinCap(q)' = withinCap(q)
      /\ \A q \in Presentations : request[q].at # "none" => matches(q)' = matches(q)
  BY <1>1, <1>2, OffersStayed, MatchesStayed DEF OffersStay, ListingsStay
<1>21. AlgorandTypeOK'
  BY <1>1, <1>2, <1>3 DEF AlgorandTypeOK, RequestRecord, BuyerRecord, outside
<1>22. ResultsArePaid'
  BY <1>1, <1>2, <1>3, PayerOf DEF ResultsArePaid, matches, SettlesItsOwn
<1>23. RefusedMovesNothing'
  BY <1>1, <1>2, <1>3, PayerOf DEF RefusedMovesNothing, SettlesItsOwn, Refused,
     Answers
<1>24. ChargedWithinCap'
  BY <1>1, <1>2, <1>3, PayerOf DEF ChargedWithinCap
<1>25. DeliveredIsRecorded'
  BY <1>1, <1>2, <1>3, PayerOf DEF DeliveredIsRecorded, SettlesItsOwn
<1>26. PresentedWasSigned'
  BY <1>1, <1>2, <1>3, PayerOf DEF PresentedWasSigned, Presented
<1>27. SettlesItsOwn'
  BY <1>1, <1>2, <1>3, PayerOf DEF SettlesItsOwn
<1>. QED
  BY <1>21, <1>22, <1>23, <1>24, <1>25, <1>26, <1>27

LEMMA ReadAnswerStep ==
  ASSUME AlgorandIInv, NEW p \in Payers, ReadAnswer(p)
  PROVE  AlgorandIInv'
<1>. USE DEF AlgorandIInv, AlgorandInv
<1>0. PICK at \in (Answers \ {"receiver_not_configured"}) \cup {"cancelled"} : goes(p, at)
  BY AlgorandAssumption DEF ReadAnswer, SettlesItsOwn
<1>1. /\ buyer[p].at = "sent"
      /\ UNCHANGED <<outside, serverPromise, request, group, books, visitor>>
  BY DEF ReadAnswer
<1>2. /\ buyer' \in [Payers -> BuyerRecord]
      /\ buyer'[p].at = at
      /\ \A q \in Payers : q # p => buyer'[q] = buyer[q]
      /\ \A q \in Payers : /\ buyer'[q].listing = buyer[q].listing
                           /\ buyer'[q].via = buyer[q].via
                           /\ buyer'[q].maxUsd = buyer[q].maxUsd
  BY <1>0, BuyerGoes DEF Endings, Answers
<1>3. /\ \A q \in Payers : amount(q)' = amount(q) /\ withinCap(q)' = withinCap(q)
      /\ \A q \in Presentations : request[q].at # "none" => matches(q)' = matches(q)
  BY <1>1, <1>2, OffersStayed, MatchesStayed DEF OffersStay, ListingsStay
<1>21. AlgorandTypeOK'
  BY <1>1, <1>2, <1>3, <1>0 DEF AlgorandTypeOK, RequestRecord, BuyerRecord,
     outside
<1>22. ResultsArePaid'
  BY <1>1, <1>2, <1>3, <1>0, PayerOf DEF ResultsArePaid, matches, SettlesItsOwn
<1>23. RefusedMovesNothing'
  BY <1>1, <1>2, <1>3, <1>0, PayerOf DEF RefusedMovesNothing, SettlesItsOwn,
     Refused, Answers
<1>24. ChargedWithinCap'
  BY <1>1, <1>2, <1>3, <1>0, PayerOf DEF ChargedWithinCap
<1>25. DeliveredIsRecorded'
  BY <1>1, <1>2, <1>3, <1>0, PayerOf DEF DeliveredIsRecorded, SettlesItsOwn
<1>26. PresentedWasSigned'
  BY <1>1, <1>2, <1>3, <1>0, PayerOf DEF PresentedWasSigned, Presented, Answers
<1>27. SettlesItsOwn'
  BY <1>1, <1>2, <1>3, <1>0, PayerOf DEF SettlesItsOwn
<1>. QED
  BY <1>21, <1>22, <1>23, <1>24, <1>25, <1>26, <1>27

\* Those who wait go on, and nobody else.
LEMMA Resumed ==
  ASSUME AlgorandTypeOK, NEW ok \in BOOLEAN, resume(ok)
  PROVE  /\ buyer' \in [Payers -> BuyerRecord]
         /\ OffersStay
         /\ \A p \in Payers :
              IF asking(p) THEN buyer'[p].at \in {"quoted", "facilitator_unavailable"}
                           ELSE buyer'[p] = buyer[p]
         /\ request' \in [Presentations -> RequestRecord]
         /\ \A r \in Presentations : request'[r].listing = request[r].listing
         /\ \A r \in Presentations :
              IF arrived(r)
              THEN \/ request'[r].at \in {"facilitator_unavailable", "requirements_mismatch"}
                   \/ request'[r].at = "verifying" /\ matches(r)
              ELSE request'[r] = request[r]
         /\ visitor' \in {visitor, "quoted", "facilitator_unavailable"}
<1>1. /\ buyer \in [Payers -> BuyerRecord]
      /\ request \in [Presentations -> RequestRecord]
  BY DEF AlgorandTypeOK, BuyerRecord, RequestRecord
<1>2. ASSUME NEW p \in Payers
      PROVE  /\ buyer'[p] \in BuyerRecord
             /\ buyer'[p].listing = buyer[p].listing
             /\ buyer'[p].via = buyer[p].via
             /\ buyer'[p].maxUsd = buyer[p].maxUsd
             /\ IF asking(p) THEN buyer'[p].at \in {"quoted", "facilitator_unavailable"}
                             ELSE buyer'[p] = buyer[p]
  <2>1. buyer[p] \in BuyerRecord
    BY <1>1
  <2>2. buyer'[p] = IF asking(p)
                    THEN [buyer[p] EXCEPT !.at = IF ok THEN "quoted" ELSE "facilitator_unavailable"]
                    ELSE buyer[p]
    BY DEF resume
  <2>. QED BY <2>1, <2>2 DEF BuyerRecord, Endings, Answers
<1>3. ASSUME NEW r \in Presentations
      PROVE  /\ request'[r] \in RequestRecord
             /\ request'[r].listing = request[r].listing
             /\ IF arrived(r)
                THEN \/ request'[r].at \in {"facilitator_unavailable", "requirements_mismatch"}
                     \/ request'[r].at = "verifying" /\ matches(r)
                ELSE request'[r] = request[r]
  <2>1. request[r] \in RequestRecord
    BY <1>1
  <2>2. request'[r] = IF arrived(r)
                      THEN [request[r] EXCEPT !.at =
                             IF ~ok THEN "facilitator_unavailable"
                             ELSE IF matches(r) THEN "verifying" ELSE "requirements_mismatch"]
                      ELSE request[r]
    BY DEF resume
  <2>. QED BY <2>1, <2>2 DEF RequestRecord, Underway, Answers
<1>4. buyer' \in [Payers -> BuyerRecord]
  BY <1>2 DEF resume
<1>5. request' \in [Presentations -> RequestRecord]
  BY <1>3 DEF resume
<1>6. visitor' \in {visitor, "quoted", "facilitator_unavailable"}
  BY DEF resume
<1>. QED
  BY <1>2, <1>3, <1>4, <1>5, <1>6 DEF OffersStay

LEMMA ServerStepKeeps ==
  ASSUME AlgorandIInv, serverStep
  PROVE  AlgorandIInv'
<1>. USE DEF AlgorandIInv, AlgorandInv
<1>0. PICK ok \in BOOLEAN : resume(ok) /\ serverPromise' \in {"none", "live"}
  BY DEF serverStep, Initialize, UseServer, afterInit, AlgorandTypeOK
<1>1. UNCHANGED <<outside, group, books>>
  BY DEF serverStep, Initialize, UseServer
<1>2. /\ buyer' \in [Payers -> BuyerRecord]
      /\ OffersStay
      /\ \A p \in Payers :
           IF asking(p) THEN buyer'[p].at \in {"quoted", "facilitator_unavailable"}
                        ELSE buyer'[p] = buyer[p]
      /\ request' \in [Presentations -> RequestRecord]
      /\ \A r \in Presentations : request'[r].listing = request[r].listing
      /\ \A r \in Presentations :
           IF arrived(r)
           THEN \/ request'[r].at \in {"facilitator_unavailable", "requirements_mismatch"}
                \/ request'[r].at = "verifying" /\ matches(r)
           ELSE request'[r] = request[r]
      /\ visitor' \in {visitor, "quoted", "facilitator_unavailable"}
  BY <1>0, Resumed
<1>3. /\ \A p \in Payers : amount(p)' = amount(p) /\ withinCap(p)' = withinCap(p)
      /\ \A q \in Presentations : request[q].at # "none" => matches(q)' = matches(q)
  BY <1>1, <1>2, OffersStayed, MatchesStayed DEF OffersStay, ListingsStay
<1>21. AlgorandTypeOK'
  BY <1>1, <1>2, <1>3, <1>0, PayerOf DEF AlgorandTypeOK, RequestRecord,
     BuyerRecord, outside, arrived, asking
<1>22. ResultsArePaid'
  BY <1>1, <1>2, <1>3, <1>0, PayerOf DEF ResultsArePaid, matches,
     SettlesItsOwn, arrived, asking
<1>23. RefusedMovesNothing'
  BY <1>1, <1>2, <1>3, <1>0, PayerOf DEF RefusedMovesNothing, SettlesItsOwn,
     Refused, Answers, arrived, asking
<1>24. ChargedWithinCap'
  BY <1>1, <1>2, <1>3, <1>0, PayerOf DEF ChargedWithinCap, arrived, asking,
     OffersStay
<1>25. DeliveredIsRecorded'
  BY <1>1, <1>2, <1>3, <1>0, PayerOf DEF DeliveredIsRecorded, SettlesItsOwn,
     arrived, asking
<1>26. PresentedWasSigned'
  BY <1>1, <1>2, <1>3, <1>0, PayerOf DEF PresentedWasSigned, arrived, asking,
     Presented, Answers, OffersStay
<1>27. SettlesItsOwn'
  BY <1>1, <1>2, <1>3, <1>0, PayerOf DEF SettlesItsOwn, arrived, asking
<1>. QED
  BY <1>21, <1>22, <1>23, <1>24, <1>25, <1>26, <1>27

LEMMA DeliverStep ==
  ASSUME AlgorandIInv, NEW p \in Payers, Deliver(p)
  PROVE  AlgorandIInv'
<1>. USE DEF AlgorandIInv, AlgorandInv
<1> DEFINE at == "sent"
           r == <<p, 1>>
           l == buyer[p].listing
<1>0. goes(p, at)
  BY DEF Deliver
<1>1. /\ buyer[p].at = "signed" /\ arrive(r, l)
      /\ UNCHANGED <<outside, serverPromise, group, books, visitor>>
  BY DEF Deliver
<1>5. r \in Presentations /\ payerOf(r) = p /\ l \in Listings
  BY AlgorandAssumption DEF payerOf, AlgorandTypeOK
<1>6. \A q \in Presentations : payerOf(q) = p => request[q].at = "none"
  BY <1>1 DEF PresentedWasSigned, Presented, Answers
<1>7. request[r].at = "none" /\ group[p].at = "none" /\ r \notin books
  BY <1>5, <1>6 DEF AlgorandTypeOK, SettlesItsOwn
<1>2. /\ buyer' \in [Payers -> BuyerRecord]
      /\ buyer'[p].at = at
      /\ \A q \in Payers : q # p => buyer'[q] = buyer[q]
      /\ \A q \in Payers : /\ buyer'[q].listing = buyer[q].listing
                           /\ buyer'[q].via = buyer[q].via
                           /\ buyer'[q].maxUsd = buyer[q].maxUsd
  BY <1>0, BuyerGoes DEF Endings, Answers
<1> HIDE DEF r, l
<1>4. /\ request' \in [Presentations -> RequestRecord]
      /\ request'[r] = [at |-> "arrived", listing |-> l]
      /\ \A q \in Presentations : q # r => request'[q] = request[q]
  BY <1>1, <1>5 DEF arrive, AlgorandTypeOK, RequestRecord, Underway
<1>3. /\ \A q \in Payers : amount(q)' = amount(q) /\ withinCap(q)' = withinCap(q)
      /\ \A q \in Presentations : request[q].at # "none" => matches(q)' = matches(q)
  BY <1>1, <1>2, <1>4, <1>5, <1>6, OffersStayed, MatchesStayed DEF OffersStay,
     ListingsStay
<1>21. AlgorandTypeOK'
  BY <1>1, <1>2, <1>3, <1>4, <1>5, <1>6, <1>7, PayerOf DEF AlgorandTypeOK,
     RequestRecord, BuyerRecord, outside
<1>22. ResultsArePaid'
  BY <1>1, <1>2, <1>3, <1>4, <1>5, <1>6, <1>7, PayerOf DEF ResultsArePaid,
     matches, SettlesItsOwn
<1>23. RefusedMovesNothing'
  BY <1>1, <1>2, <1>3, <1>4, <1>5, <1>6, <1>7, PayerOf DEF RefusedMovesNothing,
     SettlesItsOwn, Refused, Answers
<1>24. ChargedWithinCap'
  BY <1>1, <1>2, <1>3, <1>4, <1>5, <1>6, <1>7, PayerOf DEF ChargedWithinCap
<1>25. DeliveredIsRecorded'
  BY <1>1, <1>2, <1>3, <1>4, <1>5, <1>6, <1>7, PayerOf DEF DeliveredIsRecorded,
     SettlesItsOwn
<1>26. PresentedWasSigned'
  BY <1>1, <1>2, <1>3, <1>4, <1>5, <1>6, <1>7, PayerOf DEF PresentedWasSigned,
     Presented, Answers
<1>27. SettlesItsOwn'
  BY <1>1, <1>2, <1>3, <1>4, <1>5, <1>6, <1>7, PayerOf DEF SettlesItsOwn
<1>. QED
  BY <1>21, <1>22, <1>23, <1>24, <1>25, <1>26, <1>27

LEMMA PresentAgainStep ==
  ASSUME AlgorandIInv, NEW p \in Payers, NEW l \in Listings, PresentAgain(p, l)
  PROVE  AlgorandIInv'
<1>. USE DEF AlgorandIInv, AlgorandInv
<1> DEFINE r == <<p, 2>>
<1>1. /\ request[<<p, 1>>].at # "none" /\ request[r].at = "none" /\ arrive(r, l)
      /\ UNCHANGED <<outside, serverPromise, buyer, group, books, visitor>>
  BY DEF PresentAgain
<1>5. r \in Presentations /\ payerOf(r) = p /\ <<p, 1>> \in Presentations /\ payerOf(<<p, 1>>) = p
  BY AlgorandAssumption DEF PresentAgain, payerOf
<1> HIDE DEF r
<1>4. /\ request' \in [Presentations -> RequestRecord]
      /\ request'[r] = [at |-> "arrived", listing |-> l]
      /\ \A q \in Presentations : q # r => request'[q] = request[q]
  BY <1>1, <1>5 DEF arrive, AlgorandTypeOK, RequestRecord, Underway
<1>7. /\ r \notin books
      /\ \A q \in Payers : group[q].at # "none" => group[q].by # r
  BY <1>1 DEF AlgorandTypeOK, SettlesItsOwn
<1>3. /\ \A q \in Payers : amount(q)' = amount(q) /\ withinCap(q)' = withinCap(q)
      /\ \A q \in Presentations : request[q].at # "none" => matches(q)' = matches(q)
  BY <1>1, <1>4, <1>5, OffersStayed, MatchesStayed DEF OffersStay, ListingsStay
<1>21. AlgorandTypeOK'
  BY <1>1, <1>3, <1>4, <1>5, <1>7, PayerOf DEF AlgorandTypeOK, RequestRecord,
     BuyerRecord, outside
<1>22. ResultsArePaid'
  BY <1>1, <1>3, <1>4, <1>5, <1>7, PayerOf DEF ResultsArePaid, matches,
     SettlesItsOwn
<1>23. RefusedMovesNothing'
  BY <1>1, <1>3, <1>4, <1>5, <1>7, PayerOf DEF RefusedMovesNothing,
     SettlesItsOwn, Refused, Answers
<1>24. ChargedWithinCap'
  BY <1>1, <1>3, <1>4, <1>5, <1>7, PayerOf DEF ChargedWithinCap
<1>25. DeliveredIsRecorded'
  BY <1>1, <1>3, <1>4, <1>5, <1>7, PayerOf DEF DeliveredIsRecorded,
     SettlesItsOwn
<1>26. PresentedWasSigned'
  BY <1>1, <1>3, <1>4, <1>5, <1>7, PayerOf DEF PresentedWasSigned
<1>27. SettlesItsOwn'
  BY <1>1, <1>3, <1>4, <1>5, <1>7, PayerOf DEF SettlesItsOwn
<1>. QED
  BY <1>21, <1>22, <1>23, <1>24, <1>25, <1>26, <1>27

LEMMA ConfirmStep ==
  ASSUME AlgorandIInv, NEW p \in Payers, Confirm(p)
  PROVE  AlgorandIInv'
<1>. USE DEF AlgorandIInv, AlgorandInv
<1> DEFINE at == "confirmed"
<1>1. /\ group[p].at = "submitted" /\ group' = [group EXCEPT ![p].at = at]
      /\ UNCHANGED <<outside, serverPromise, buyer, request, books, visitor>>
  BY DEF Confirm
<1>2. /\ group' \in [Payers -> [at : {"none", "submitted", "confirmed", "lapsed"},
                                by : Presentations]]
      /\ group'[p].at = at /\ group'[p].by = group[p].by
      /\ \A q \in Payers : q # p => group'[q] = group[q]
  <2> DEFINE G == [at : {"none", "submitted", "confirmed", "lapsed"}, by : Presentations]
             g == [group[p] EXCEPT !.at = at]
  <2>1. group \in [Payers -> G]
    BY DEF AlgorandTypeOK
  <2>2. group[p] \in G
    BY <2>1
  <2>3. g \in G /\ g.at = at /\ g.by = group[p].by
    BY <2>2
  <2>4. group' = [group EXCEPT ![p] = g]
    BY <1>1
  <2> HIDE DEF g
  <2>. QED BY <2>1, <2>3, <2>4
<1>3. /\ \A q \in Payers : amount(q)' = amount(q) /\ withinCap(q)' = withinCap(q)
      /\ \A q \in Presentations : request[q].at # "none" => matches(q)' = matches(q)
  BY <1>1, OffersStayed, MatchesStayed DEF OffersStay, ListingsStay
<1>4. group[p] # [at |-> "confirmed", by |-> group[p].by] /\ group[p].at # "none"
  BY <1>1
<1>21. AlgorandTypeOK'
  BY <1>1, <1>2, <1>3, <1>4, PayerOf DEF AlgorandTypeOK, RequestRecord,
     BuyerRecord, outside
<1>22. ResultsArePaid'
  BY <1>1, <1>2, <1>3, <1>4, PayerOf DEF ResultsArePaid, matches, SettlesItsOwn
<1>23. RefusedMovesNothing'
  BY <1>1, <1>2, <1>3, <1>4, PayerOf DEF RefusedMovesNothing, SettlesItsOwn,
     Refused, Answers
<1>24. ChargedWithinCap'
  BY <1>1, <1>2, <1>3, <1>4, PayerOf DEF ChargedWithinCap
<1>25. DeliveredIsRecorded'
  BY <1>1, <1>2, <1>3, <1>4, PayerOf DEF DeliveredIsRecorded, SettlesItsOwn
<1>26. PresentedWasSigned'
  BY <1>1, <1>2, <1>3, <1>4, PayerOf DEF PresentedWasSigned
<1>27. SettlesItsOwn'
  BY <1>1, <1>2, <1>3, <1>4, PayerOf DEF SettlesItsOwn
<1>. QED
  BY <1>21, <1>22, <1>23, <1>24, <1>25, <1>26, <1>27

LEMMA LapseStep ==
  ASSUME AlgorandIInv, NEW p \in Payers, Lapse(p)
  PROVE  AlgorandIInv'
<1>. USE DEF AlgorandIInv, AlgorandInv
<1> DEFINE at == "lapsed"
<1>1. /\ group[p].at = "submitted" /\ group' = [group EXCEPT ![p].at = at]
      /\ UNCHANGED <<outside, serverPromise, buyer, request, books, visitor>>
  BY DEF Lapse
<1>2. /\ group' \in [Payers -> [at : {"none", "submitted", "confirmed", "lapsed"},
                                by : Presentations]]
      /\ group'[p].at = at /\ group'[p].by = group[p].by
      /\ \A q \in Payers : q # p => group'[q] = group[q]
  <2> DEFINE G == [at : {"none", "submitted", "confirmed", "lapsed"}, by : Presentations]
             g == [group[p] EXCEPT !.at = at]
  <2>1. group \in [Payers -> G]
    BY DEF AlgorandTypeOK
  <2>2. group[p] \in G
    BY <2>1
  <2>3. g \in G /\ g.at = at /\ g.by = group[p].by
    BY <2>2
  <2>4. group' = [group EXCEPT ![p] = g]
    BY <1>1
  <2> HIDE DEF g
  <2>. QED BY <2>1, <2>3, <2>4
<1>3. /\ \A q \in Payers : amount(q)' = amount(q) /\ withinCap(q)' = withinCap(q)
      /\ \A q \in Presentations : request[q].at # "none" => matches(q)' = matches(q)
  BY <1>1, OffersStayed, MatchesStayed DEF OffersStay, ListingsStay
<1>4. group[p] # [at |-> "confirmed", by |-> group[p].by] /\ group[p].at # "none"
  BY <1>1
<1>21. AlgorandTypeOK'
  BY <1>1, <1>2, <1>3, <1>4, PayerOf DEF AlgorandTypeOK, RequestRecord,
     BuyerRecord, outside
<1>22. ResultsArePaid'
  BY <1>1, <1>2, <1>3, <1>4, PayerOf DEF ResultsArePaid, matches, SettlesItsOwn
<1>23. RefusedMovesNothing'
  BY <1>1, <1>2, <1>3, <1>4, PayerOf DEF RefusedMovesNothing, SettlesItsOwn,
     Refused, Answers
<1>24. ChargedWithinCap'
  BY <1>1, <1>2, <1>3, <1>4, PayerOf DEF ChargedWithinCap
<1>25. DeliveredIsRecorded'
  BY <1>1, <1>2, <1>3, <1>4, PayerOf DEF DeliveredIsRecorded, SettlesItsOwn
<1>26. PresentedWasSigned'
  BY <1>1, <1>2, <1>3, <1>4, PayerOf DEF PresentedWasSigned
<1>27. SettlesItsOwn'
  BY <1>1, <1>2, <1>3, <1>4, PayerOf DEF SettlesItsOwn
<1>. QED
  BY <1>21, <1>22, <1>23, <1>24, <1>25, <1>26, <1>27

LEMMA ServerEndsStep ==
  ASSUME AlgorandIInv, ServerEnds
  PROVE  AlgorandIInv'
<1>. USE DEF AlgorandIInv, AlgorandInv
<1>1. serverPromise' = "none" /\ UNCHANGED <<outside, group, books>>
      /\ visitor' \in {visitor, "idle"}
  BY DEF ServerEnds
<1>2. /\ buyer' \in [Payers -> BuyerRecord]
      /\ OffersStay
      /\ \A p \in Payers : IF asking(p) THEN buyer'[p].at = "resource_unreachable"
                                        ELSE buyer'[p] = buyer[p]
  <2>1. buyer \in [Payers -> BuyerRecord]
    BY DEF AlgorandTypeOK, BuyerRecord
  <2>2. ASSUME NEW p \in Payers
        PROVE  /\ buyer'[p] \in BuyerRecord
               /\ buyer'[p].listing = buyer[p].listing
               /\ buyer'[p].via = buyer[p].via
               /\ buyer'[p].maxUsd = buyer[p].maxUsd
               /\ IF asking(p) THEN buyer'[p].at = "resource_unreachable"
                               ELSE buyer'[p] = buyer[p]
    <3>1. buyer[p] \in BuyerRecord
      BY <2>1
    <3>2. buyer'[p] = IF asking(p) THEN [buyer[p] EXCEPT !.at = "resource_unreachable"]
                      ELSE buyer[p]
      BY DEF ServerEnds
    <3>. QED BY <3>1, <3>2 DEF BuyerRecord, Endings
  <2>3. buyer' \in [Payers -> BuyerRecord]
    BY <2>2 DEF ServerEnds
  <2>. QED BY <2>2, <2>3 DEF OffersStay
<1>4. /\ request' \in [Presentations -> RequestRecord]
      /\ \A r \in Presentations :
           /\ request'[r].listing = request[r].listing
           /\ IF request[r].at \in Underway THEN request'[r].at = "lost"
                                            ELSE request'[r] = request[r]
  <2>1. request \in [Presentations -> RequestRecord]
    BY DEF AlgorandTypeOK, RequestRecord
  <2>2. ASSUME NEW r \in Presentations
        PROVE  /\ request'[r] \in RequestRecord
               /\ request'[r].listing = request[r].listing
               /\ IF request[r].at \in Underway THEN request'[r].at = "lost"
                                                ELSE request'[r] = request[r]
    <3>1. request[r] \in RequestRecord
      BY <2>1
    <3>2. request'[r] = IF request[r].at \in Underway
                        THEN [request[r] EXCEPT !.at = "lost"] ELSE request[r]
      BY DEF ServerEnds
    <3>. QED BY <3>1, <3>2 DEF RequestRecord
  <2>3. request' \in [Presentations -> RequestRecord]
    BY <2>2 DEF ServerEnds
  <2>. QED BY <2>2, <2>3
<1>3. /\ \A q \in Payers : amount(q)' = amount(q) /\ withinCap(q)' = withinCap(q)
      /\ \A q \in Presentations : request[q].at # "none" => matches(q)' = matches(q)
  BY <1>1, <1>2, <1>4, OffersStayed, MatchesStayed DEF OffersStay, ListingsStay
<1>21. AlgorandTypeOK'
  BY <1>1, <1>2, <1>3, <1>4, PayerOf DEF AlgorandTypeOK, RequestRecord,
     BuyerRecord, outside, asking
<1>22. ResultsArePaid'
  BY <1>1, <1>2, <1>3, <1>4, PayerOf DEF ResultsArePaid, matches,
     SettlesItsOwn, Underway
<1>23. RefusedMovesNothing'
  BY <1>1, <1>2, <1>3, <1>4, PayerOf DEF RefusedMovesNothing, SettlesItsOwn,
     Refused, Answers, asking, Underway
<1>24. ChargedWithinCap'
  BY <1>1, <1>2, <1>3, <1>4, PayerOf DEF ChargedWithinCap, asking, OffersStay
<1>25. DeliveredIsRecorded'
  BY <1>1, <1>2, <1>3, <1>4, PayerOf DEF DeliveredIsRecorded, SettlesItsOwn,
     Underway
<1>26. PresentedWasSigned'
  BY <1>1, <1>2, <1>3, <1>4, PayerOf DEF PresentedWasSigned, asking, Underway,
     Presented, OffersStay
<1>27. SettlesItsOwn'
  BY <1>1, <1>2, <1>3, <1>4, PayerOf DEF SettlesItsOwn, Underway
<1>. QED
  BY <1>21, <1>22, <1>23, <1>24, <1>25, <1>26, <1>27

LEMMA AskStep ==
  ASSUME AlgorandIInv, NEW p \in Payers, NEW ask \in Asks,
         Ask(p, ask[1], ask[2], ask[3])
  PROVE  AlgorandIInv'
<1>. USE DEF AlgorandIInv, AlgorandInv
<1> DEFINE b == buyer'[p]
<1>1. /\ buyer[p].at = "idle"
      /\ UNCHANGED <<outside, serverPromise, request, group, books, visitor>>
  BY DEF Ask
<1>2. /\ buyer' \in [Payers -> BuyerRecord]
      /\ \A q \in Payers : q # p => buyer'[q] = buyer[q]
      /\ b.at \in {"bad_max", "asking", "receiver_not_configured"}
      /\ b.at # "bad_max" /\ b.via = "cli" => isCap(b.maxUsd)
  <2>1. /\ ask[1] \in Listings /\ ask[2] \in {"mcp", "cli"}
        /\ ask[3] \in Nat \cup {NaN}
    BY AlgorandAssumption
  <2>2. buyer \in [Payers -> BuyerRecord]
    BY DEF AlgorandTypeOK, BuyerRecord
  <2>. QED BY <2>1, <2>2 DEF Ask, BuyerRecord, Endings, Answers
<1>3. \A q \in Presentations : payerOf(q) = p => request[q].at = "none" /\ q \notin books
  BY <1>1 DEF PresentedWasSigned, Presented, Answers, SettlesItsOwn
<1>4. group[p].at = "none"
  BY <1>3 DEF AlgorandTypeOK
<1>5. /\ \A q \in Payers \ {p} : amount(q)' = amount(q) /\ withinCap(q)' = withinCap(q)
      /\ \A q \in Presentations : payerOf(q) # p => matches(q)' = matches(q)
  <2>1. \A q \in Payers \ {p} : amount(q)' = amount(q) /\ withinCap(q)' = withinCap(q)
    BY <1>2, SameOffer
  <2>2. \A q \in Presentations : payerOf(q) # p => amount(payerOf(q))' = amount(payerOf(q))
    BY <1>2, PayerOf DEF amount, payerOf
  <2>. QED BY <1>1, <2>1, <2>2 DEF matches
<1> HIDE DEF b
<1>21. AlgorandTypeOK'
  BY <1>1, <1>2 DEF AlgorandTypeOK, BuyerRecord, outside
<1>22. ResultsArePaid'
  <2>. SUFFICES ASSUME NEW r \in Presentations,
                       request[r].at \in {"settled", "recorded", "ok"} \/ r \in books
                PROVE  /\ group[payerOf(r)] = [at |-> "confirmed", by |-> r]
                       /\ amount(payerOf(r))' = Price[request[r].listing]
    BY <1>1 DEF ResultsArePaid, payerOf
  <2>1. payerOf(r) # p
    BY <1>3
  <2>2. amount(payerOf(r))' = amount(payerOf(r))
    BY <1>5, <2>1, PayerOf DEF payerOf
  <2>. QED BY <2>2 DEF ResultsArePaid
<1>23. RefusedMovesNothing'
  BY <1>1, <1>2, <1>4 DEF RefusedMovesNothing
<1>24. ChargedWithinCap'
  BY <1>1, <1>2, <1>4, <1>5 DEF ChargedWithinCap
<1>25. DeliveredIsRecorded'
  BY <1>1 DEF DeliveredIsRecorded
<1>26. PresentedWasSigned'
  <2>1. \A r \in Presentations : request[r].at # "none" => payerOf(r) \in Payers \ {p}
    BY <1>3, PayerOf
  <2>2. ASSUME NEW r \in Presentations, request[r].at # "none"
        PROVE  buyer'[payerOf(r)].at \in Presented /\ withinCap(payerOf(r))'
    <3>1. PICK q \in Payers \ {p} : q = payerOf(r)
      BY <2>1, <2>2
    <3>2. buyer'[q].at \in Presented /\ withinCap(q)'
      BY <1>2, <1>5, <2>2, <3>1 DEF PresentedWasSigned
    <3>3. q = payerOf(r)'
      BY <3>1 DEF payerOf
    <3>. QED BY <3>1, <3>2, <3>3
  <2>3. ASSUME NEW q \in Payers, buyer'[q].at = "signed"
        PROVE  withinCap(q)'
    BY <1>2, <1>5, <2>3 DEF PresentedWasSigned, b
  <2>4. ASSUME NEW q \in Payers, buyer'[q].at \notin {"idle", "bad_max"},
               buyer'[q].via = "cli"
        PROVE  isCap(buyer'[q].maxUsd)
    BY <1>2, <2>4 DEF PresentedWasSigned, b
  <2>. QED BY <1>1, <2>2, <2>3, <2>4 DEF PresentedWasSigned, payerOf
<1>27. SettlesItsOwn'
  BY <1>1, <1>3, <1>5 DEF SettlesItsOwn
<1>. QED
  BY <1>21, <1>22, <1>23, <1>24, <1>25, <1>26, <1>27

\* Steps of the facilitator's line, of a visitor, and stuttering.
LEMMA AsideStep ==
  ASSUME AlgorandIInv, UNCHANGED <<buyer, request, group, books>>,
         UNCHANGED payeeSet, facilitatorUp' \in BOOLEAN,
         UNCHANGED serverPromise,
         visitor' \in {visitor, "asking", "idle"}
  PROVE  AlgorandIInv'
<1>. USE DEF AlgorandIInv, AlgorandInv
<1>1. AlgorandTypeOK'
  BY DEF AlgorandTypeOK, payerOf
<1>2. ResultsArePaid' /\ RefusedMovesNothing' /\ ChargedWithinCap' /\ DeliveredIsRecorded'
  BY DEF ResultsArePaid, RefusedMovesNothing, ChargedWithinCap,
     DeliveredIsRecorded,
     amount, payerOf
<1>3. PresentedWasSigned' /\ SettlesItsOwn'
  BY DEF PresentedWasSigned, SettlesItsOwn, matches, withinCap, amount, payerOf
<1>. QED
  BY <1>1, <1>2, <1>3

LEMMA AlgorandStep == AlgorandIInv /\ [AlgorandNext]_algorandVars => AlgorandIInv'
<1>. SUFFICES ASSUME AlgorandIInv, [AlgorandNext]_algorandVars PROVE AlgorandIInv'
  OBVIOUS
<1>1. CASE serverStep
  BY <1>1, ServerStepKeeps
<1>2. CASE \E p \in Payers, ask \in Asks : Ask(p, ask[1], ask[2], ask[3])
  BY <1>2, AskStep
<1>3. CASE \E p \in Payers : buyerStep(p)
  BY <1>3, SignStep, DeliverStep, UnreachableStep, ReadAnswerStep DEF buyerStep
<1>4. CASE \E p \in Payers, l \in Listings : PresentAgain(p, l)
  BY <1>4, PresentAgainStep
<1>5. CASE \E r \in Presentations : sellerStep(r)
  BY <1>5, VerifyStep, SettleStep, SettleAnswersStep, RecordPaidStep,
     AnswerPaidStep
     DEF sellerStep
<1>6. CASE \E p \in Payers : Confirm(p)
  BY <1>6, ConfirmStep
<1>7. CASE \E p \in Payers : Lapse(p)
  BY <1>7, LapseStep
<1>8. CASE FacilitatorOutage \/ AskPrice \/ ReadPrice \/ UNCHANGED algorandVars
  BY <1>8, AsideStep DEF FacilitatorOutage, AskPrice, ReadPrice, algorandVars,
     outside,
     AlgorandIInv, AlgorandInv, AlgorandTypeOK
<1>9. CASE ServerEnds
  BY <1>9, ServerEndsStep
<1>. QED
  BY <1>1, <1>2, <1>3, <1>4, <1>5, <1>6, <1>7, <1>8, <1>9 DEF AlgorandNext

\* Money, results and rows go together, whatever is lost or lapses: no result
\* without its payment, no refusal with one, no charge above a cap, no delivery
\* without a row (algorand-route.ts, algorand-loop.ts, mcp.ts and the command
\* line).
THEOREM AlgorandHolds == AlgorandSpec => []AlgorandInv
<1>1. AlgorandIInv => AlgorandInv
  BY DEF AlgorandIInv
<1>. QED
  BY <1>1, AlgorandInitially, AlgorandStep, PTL DEF AlgorandSpec

-----------------------------------------------------------------------------
(***************************************************************************)
(* ChainChoice.                                                            *)
(***************************************************************************)
\* What a tab that chose last is going to show is what was chosen: it is shown
\* already or on its way.
RefreshBrings ==
  \A t \in Tabs :
    t \in lastBy \ overtaken /\ refreshes[t] = 0
      => IF rendered[t] = noRender THEN shown[t] = renderOf(chosen)
         ELSE rendered[t] = renderOf(chosen)

\* The inductive invariant.
ChoiceIInv == ChoiceTypeOK /\ RefreshBrings /\ RunStaysOnItsChain

\* A page rendered for a chain is one of the pages.
LEMMA RenderOfType == \A v : renderOf(v) \in Render
  BY ChoiceAssumption DEF renderOf, networkOf, settlementChainFor, Render,
     NETWORK_IDS, CHAIN_IDS

\* Another element in a sequence's place i.
LEMMA Replaced ==
  ASSUME NEW S, NEW q \in Seq(S), NEW i \in DOMAIN q, NEW x \in S,
         NEW r, r = [q EXCEPT ![i] = x]
  PROVE  /\ r \in Seq(S) /\ DOMAIN r = DOMAIN q /\ Len(r) = Len(q)
         /\ r[i] = x /\ \A j \in DOMAIN q : j # i => r[j] = q[j]
  OBVIOUS

LEMMA ChoiceInitially == ChoiceInit => ChoiceIInv
<1>. SUFFICES ASSUME ChoiceInit PROVE ChoiceIInv
  OBVIOUS
<1>. USE DEF ChoiceInit
<1>1. ChoiceTypeOK
  BY RenderOfType, ChoiceAssumption DEF ChoiceTypeOK
<1>2. RefreshBrings
  BY DEF RefreshBrings
<1>3. RunStaysOnItsChain
  BY DEF RunStaysOnItsChain
<1>. QED
  BY <1>1, <1>2, <1>3 DEF ChoiceIInv

LEMMA ChoiceStep == ChoiceIInv /\ [ChoiceNext]_choiceVars => ChoiceIInv'
<1>. SUFFICES ASSUME ChoiceIInv, [ChoiceNext]_choiceVars
              PROVE  ChoiceIInv'
  OBVIOUS
<1>. USE DEF ChoiceIInv
<1>1. ASSUME NEW t \in Tabs, NEW id \in NETWORK_IDS, Choose(t, id)
      PROVE  ChoiceIInv'
  <2>. USE <1>1 DEF Choose
  <2>1. ChoiceTypeOK'
    BY ChoiceAssumption DEF ChoiceTypeOK, asked
  <2>2. RefreshBrings'
    BY DEF RefreshBrings, ChoiceTypeOK, asked
  <2>3. RunStaysOnItsChain'
    BY DEF RunStaysOnItsChain
  <2>. QED BY <2>1, <2>2, <2>3
<1>2. ASSUME NEW t \in Tabs, ServeRefresh(t) PROVE ChoiceIInv'
  <2>. USE <1>2 DEF ServeRefresh
  <2>1. ChoiceTypeOK'
    BY RenderOfType DEF ChoiceTypeOK
  <2>2. RefreshBrings'
    BY RenderOfType, ChoiceAssumption DEF RefreshBrings, ChoiceTypeOK
  <2>3. RunStaysOnItsChain'
    BY DEF RunStaysOnItsChain
  <2>. QED BY <2>1, <2>2, <2>3
<1>3. ASSUME NEW t \in Tabs, ApplyRefresh(t) PROVE ChoiceIInv'
  <2>. USE <1>3 DEF ApplyRefresh
  <2>1. ChoiceTypeOK'
    BY DEF ChoiceTypeOK
  <2>2. RefreshBrings'
    BY DEF RefreshBrings, ChoiceTypeOK
  <2>3. RunStaysOnItsChain'
    BY DEF RunStaysOnItsChain
  <2>. QED BY <2>1, <2>2, <2>3
<1>4. ASSUME NEW t \in Tabs, Navigate(t) PROVE ChoiceIInv'
  <2> DEFINE redrawn == [shown[t] EXCEPT !.body = settlementChainFor(chosen)]
  <2>1. settlementChainFor(chosen) \in CHAIN_IDS /\ shown[t] \in Render
    BY ChoiceAssumption DEF settlementChainFor, ChoiceTypeOK
  <2>2. redrawn \in Render /\ (shown[t] = renderOf(chosen) => redrawn = shown[t])
    BY <2>1 DEF Render, renderOf
  <2>3. shown' = [shown EXCEPT ![t] = redrawn]
    BY <1>4 DEF Navigate
  <2>4. /\ \/ UNCHANGED <<refreshes, rendered, overtaken>>
           \/ /\ refreshes' = [refreshes EXCEPT ![t] = 0]
              /\ rendered' = [rendered EXCEPT ![t] = noRender]
              /\ overtaken' = overtaken \cup {t}
        /\ UNCHANGED <<chosen, choices, lastBy, agentRuns>>
    BY <1>4 DEF Navigate
  <2> HIDE DEF redrawn
  <2>5. ChoiceTypeOK'
    <3>1. shown' \in [Tabs -> Render]
      BY <2>2, <2>3 DEF ChoiceTypeOK
    <3>2. refreshes' \in [Tabs -> Nat] /\ overtaken' \subseteq Tabs
      BY <2>4 DEF ChoiceTypeOK
    <3>3. rendered' \in [Tabs -> Render \cup {noRender}]
      BY <2>4 DEF ChoiceTypeOK
    <3>. QED BY <2>4, <3>1, <3>2, <3>3 DEF ChoiceTypeOK
  <2>6. \A u \in Tabs : shown[u] = renderOf(chosen) => shown'[u] = shown[u]
    BY <2>2, <2>3 DEF ChoiceTypeOK
  <2>7. RefreshBrings'
    BY <2>4, <2>6 DEF RefreshBrings, ChoiceTypeOK
  <2>8. RunStaysOnItsChain'
    BY <2>4 DEF RunStaysOnItsChain
  <2>. QED BY <2>5, <2>7, <2>8
<1>5. ASSUME NEW t \in Tabs, LoadTab(t) PROVE ChoiceIInv'
  <2>. USE <1>5 DEF LoadTab
  <2>1. ChoiceTypeOK'
    BY RenderOfType DEF ChoiceTypeOK
  <2>2. RefreshBrings'
    BY DEF RefreshBrings, ChoiceTypeOK
  <2>3. RunStaysOnItsChain'
    BY DEF RunStaysOnItsChain
  <2>. QED BY <2>1, <2>2, <2>3
<1>6. ASSUME StartAgentRun PROVE ChoiceIInv'
  <2>. USE <1>6 DEF StartAgentRun
  <2>1. ChoiceTypeOK'
    BY ChoiceAssumption DEF ChoiceTypeOK, settlementChainFor
  <2>2. RefreshBrings'
    BY DEF RefreshBrings
  <2>3. RunStaysOnItsChain'
    BY DEF RunStaysOnItsChain, ChoiceTypeOK
  <2>. QED BY <2>1, <2>2, <2>3
<1>7. ASSUME NEW r \in DOMAIN agentRuns, PaidCall(r) PROVE ChoiceIInv'
  <2> DEFINE RunRecord == [on : CHAIN_IDS, paidOn : SUBSET CHAIN_IDS]
             paidRun == [agentRuns[r] EXCEPT !.paidOn = @ \cup {agentRuns[r].on}]
  <2>0. agentRuns \in Seq(RunRecord)
    BY DEF ChoiceTypeOK
  <2>1. agentRuns[r] \in RunRecord
    <3> HIDE DEF RunRecord
    <3>. QED BY <2>0
  <2>2. /\ paidRun \in RunRecord
        /\ paidRun.on = agentRuns[r].on
        /\ paidRun.paidOn = agentRuns[r].paidOn \cup {agentRuns[r].on}
    BY <2>1
  <2>3. agentRuns' = [agentRuns EXCEPT ![r] = paidRun]
    BY <1>7 DEF PaidCall, callsOn
  <2>4. UNCHANGED <<chosen, choices, lastBy, shown, refreshes, rendered, overtaken>>
    BY <1>7 DEF PaidCall
  <2> HIDE DEF RunRecord, paidRun
  <2>5. /\ agentRuns' \in Seq(RunRecord)
        /\ DOMAIN agentRuns' = DOMAIN agentRuns
        /\ agentRuns'[r] = paidRun
        /\ \A q \in DOMAIN agentRuns : q # r => agentRuns'[q] = agentRuns[q]
    BY <2>0, <2>2, <2>3, Replaced
  <2>6. ChoiceTypeOK'
    BY <2>4, <2>5 DEF ChoiceTypeOK, RunRecord
  <2>7. RefreshBrings'
    BY <2>4 DEF RefreshBrings
  <2>8. RunStaysOnItsChain'
    BY <2>2, <2>5 DEF RunStaysOnItsChain
  <2>. QED BY <2>6, <2>7, <2>8
<1>8. CASE UNCHANGED choiceVars
  BY <1>8 DEF choiceVars, ChoiceTypeOK, RefreshBrings, RunStaysOnItsChain
<1>. QED
  BY <1>1, <1>2, <1>3, <1>4, <1>5, <1>6, <1>7, <1>8 DEF ChoiceNext

\* A choice takes hold in the tab that made it, once its refresh is over and
\* unless a navigation or another tab overtook it, and a run that began before
\* it keeps to its chain, for any tabs and either default.
THEOREM ChoiceHolds == ChoiceSpec => []ChoiceInv
<1>1. ChoiceIInv => ChoiceInv
  BY DEF ChoiceIInv, ChoiceInv, RefreshBrings, TabFollowsItsChoice
<1>. QED
  BY ChoiceInitially, ChoiceStep, <1>1, PTL DEF ChoiceSpec

-----------------------------------------------------------------------------
(***************************************************************************)
(* Clients of the Nightpass contract.                                      *)
(*                                                                         *)
(* What a transaction of theirs does to it.                                *)
(***************************************************************************)
\* Applying a transaction of a client is a step of the contract.
LEMMA ApplyIsStep ==
  ASSUME NEW ids, NEW x \in Tx(ids), NEW a \in Auditors, Apply(x, a)
  PROVE  Next
<1>1. /\ x.pass \in Pass /\ x.pass.tool \in Tools /\ x.pass.sk \in Secrets
      /\ x.pass.nonce \in Nonces /\ x.calls \in 0 .. MaxUint /\ x.action \in Actions
  BY DEF Tx, Pass
<1>2. CASE x.action = "issuePass"
  BY <1>1, <1>2 DEF Apply, Next
<1>3. CASE x.action = "redeemCall"
  BY <1>1, <1>3 DEF Apply, Next
<1>4. CASE x.action = "attest"
  BY <1>1, <1>4 DEF Apply, Next
<1>. QED BY <1>1, <1>2, <1>3, <1>4 DEF Actions

\* The transaction a circuit was proven for has its type.
LEMMA ProvenTx ==
  ASSUME IInv, NEW ids, NEW id \in ids, NEW action \in Actions, NEW c \in Pass,
         NEW a, NEW calls \in 0 .. MaxUint, circuitHolds(action, c, a, calls)
  PROVE  proven(id, action, c, calls) \in Tx(ids)
BY DEF IInv, TypeOK, circuitHolds, proven, Tx

\* A set that is empty or has one member.
LEMMA OneAtMost == ASSUME NEW S, NEW x, S = {} \/ S = {x} PROVE Cardinality(S) <= 1
<1>1. CASE S = {}
  BY <1>1, FS_EmptySet
<1>2. CASE S = {x}
  <2>1. Cardinality({x}) = 1
    BY FS_Singleton
  <2>. QED BY <1>2, <2>1
<1>. QED BY <1>1, <1>2

-----------------------------------------------------------------------------
(***************************************************************************)
(* NightpassCli.                                                           *)
(*                                                                         *)
(* Beside the promises the invariant ties what was bought to the nonce     *)
(* that was drawn for it, and the operation under way to its transaction.  *)
(***************************************************************************)
\* Everything that was or may yet be bought: leaves, and what pending
\* transactions carry.
Bought == passCommitments \cup {x.pass : x \in pending}

\* A pass that was or may be bought has a nonce that was drawn for its tool,
\* and the wallet holds, for each tool, the nonce drawn for it last.
BoughtInOrder ==
  /\ \A c \in Bought : \E i \in 1 .. nonces :
       c.nonce = FreshNonces[i] /\ drawnFor[i] = c.tool
  /\ \A i \in 1 .. nonces :
       \/ \E p \in passes[drawnFor[i]] : p.nonce = FreshNonces[i]
       \/ \E k \in i + 1 .. nonces : drawnFor[k] = drawnFor[i]

\* One pass for each tool, with a nonce that was drawn for it; one operation,
\* the one begun last.
OneOfEach ==
  /\ \A t \in Tools : passes[t] = {} \/ \E p \in PassSecret : passes[t] = {p}
  /\ \A t \in Tools : \A p \in passes[t] : \E k \in 1 .. nonces :
       p.nonce = FreshNonces[k] /\ drawnFor[k] = t
  /\ op = {} \/ \E o \in Operation : op = {o}
  /\ \A o \in op : o.id = begun

\* What a transaction of the operation can do: nothing before it is submitted;
\* a redemption spends the index the wallet holds.
OperationTrue ==
  \A o \in op :
    /\ ~o.submitted => o.id \notin final /\ \A x \in pending : x.id # o.id
    /\ o.submitted /\ o.action = "redeemCall" =>
         \A p \in passes[o.tool] :
           /\ \A x \in pending : x.id = o.id =>
                /\ x.action = "redeemCall" /\ x.calls = p.callsUsed
                /\ x.pass = MyPass(o.tool, p.nonce)
           /\ o.id \in final =>
                callNullifier(MyPass(o.tool, p.nonce), p.callsUsed) \in spentCalls

CliPart ==
  /\ passes \in [Tools -> SUBSET PassSecret]
  /\ pending \subseteq Tx(1 .. begun) /\ final \subseteq 1 .. begun
  /\ begun \in 0 .. MaxOperations
  /\ drawnFor \in Seq(Tools) /\ nonces \in 0 .. Len(FreshNonces)
  /\ NoCallForgottenByChain /\ BoughtInOrder /\ OneOfEach /\ OperationTrue

\* The inductive invariant: the contract's own, and the client's.
CliIInv == IInv /\ CliPart

\* What it adds to the ledger.
LEMMA ApplyAdds ==
  ASSUME NEW ids, NEW x \in Tx(ids), NEW a, Apply(x, a)
  PROVE  /\ passCommitments' \subseteq passCommitments \cup {x.pass}
         /\ spentCalls \subseteq spentCalls'
         /\ x.action = "redeemCall" => callNullifier(x.pass, x.calls) \in spentCalls'
<1>1. x.pass = passCommitment(x.pass.tool, x.pass.sk, x.pass.nonce) /\ x.action \in Actions
  BY DEF Tx, Pass, passCommitment
<1>2. CASE x.action = "issuePass"
  BY <1>1, <1>2 DEF Apply, issuePass
<1>3. CASE x.action = "redeemCall"
  BY <1>1, <1>3 DEF Apply, redeemCall
<1>4. CASE x.action = "attest"
  BY <1>1, <1>4 DEF Apply, attestUsage
<1>. QED BY <1>1, <1>2, <1>3, <1>4 DEF Actions

\* The tools are listed, and nobody has bought anything.
LEMMA LedgerStarts == CliLedger => IInv
<1>. SUFFICES ASSUME CliLedger PROVE IInv
  OBVIOUS
<1>1. PICK price \in Prices, quota \in Quotas \ {0} :
        tools = [t \in Tools |->
                   [publisherCommitment |-> publisherCommitment(SecretKey),
                    priceAtomic |-> price, quota |-> quota, active |-> TRUE]]
  BY DEF CliLedger
<1>2. TypeOK
  <2>1. tools \in [Tools -> ToolRecord] /\ DOMAIN tools = Tools
    BY <1>1, CliAssumption, BoundsAssumption DEF ToolRecord, Publisher,
       publisherCommitment
  <2>2. callsServed \in [Tools -> 0 .. MaxUint] /\ passesIssued \in 0 .. TreeCapacity
    BY BoundsAssumption DEF CliLedger
  <2>3. DOMAIN attestations \subseteq AuditTag /\ attestations \in [DOMAIN attestations -> Auditors]
    BY DEF CliLedger
  <2>. QED BY <2>1, <2>2, <2>3 DEF CliLedger, TypeOK
<1>3. Cardinality({}) = 0 /\ IsFiniteSet({})
  BY FS_EmptySet
<1>4. Counted
  BY <1>3 DEF CliLedger, Counted
<1>5. ReputationIsExact
  <2>1. \A t : CallsTo(t) = {}
    BY DEF CliLedger, CallsTo
  <2>. QED BY <1>1, <1>3, <2>1 DEF CliLedger, ReputationIsExact
<1>. QED BY <1>2, <1>4, <1>5 DEF CliLedger, IInv, PassesAreForTools,
    SpentCallsAreEntitled,
            AttestationsAreBacked

\* No pass is held and nothing was bought.
LEMMA CliInitially == CliInit => CliIInv
<1>. SUFFICES ASSUME CliInit PROVE CliIInv
  OBVIOUS
<1>1. IInv
  BY LedgerStarts DEF CliInit
<1>2. CliPart
  <2>1. passCommitments = {} /\ Bought = {} /\ drawnFor = <<>> /\ nonces = 0
    BY DEF CliInit, CliLedger, CliWallet, Bought, nonces
  <2>. QED BY <2>1, CliAssumption
           DEF CliInit, CliWallet, CliPart, NoCallForgottenByChain, BoughtInOrder, OneOfEach,
               OperationTrue
<1>. QED BY <1>1, <1>2 DEF CliIInv

\* What every step can use.
LEMMA CliParts ==
  ASSUME CliIInv
  PROVE  /\ TypeOK /\ SpentCallsAreEntitled
         /\ passes \in [Tools -> SUBSET PassSecret]
         /\ pending \subseteq Tx(1 .. begun) /\ final \subseteq 1 .. begun
         /\ begun \in 0 .. MaxOperations /\ drawnFor \in Seq(Tools)
         /\ nonces = Len(drawnFor) /\ nonces \in 0 .. Len(FreshNonces)
         /\ MaxOperations \in Nat /\ Len(FreshNonces) \in Nat
         /\ NoCallForgottenByChain /\ BoughtInOrder /\ OneOfEach /\ OperationTrue
BY CliAssumption DEF CliIInv, CliPart, IInv, nonces

\* Transactions of the operations so far are transactions of more of them.
LEMMA TxGrows ==
  ASSUME NEW m \in Nat, NEW n \in Nat, m <= n
  PROVE  Tx(1 .. m) \subseteq Tx(1 .. n)
<1>1. 1 .. m \subseteq 1 .. n
  OBVIOUS
<1>. QED BY <1>1 DEF Tx

\* An operation begins: it has the next number, which nothing submitted has.
LEMMA BeginStep ==
  ASSUME CliIInv, NEW action \in Actions, NEW t \in Tools, NEW calls \in 0 .. MaxUint,
         begin(action, t, calls)
  PROVE  /\ UNCHANGED <<vars, pending, final>> /\ begun' \in 0 .. MaxOperations
         /\ pending' \subseteq Tx(1 .. begun') /\ final' \subseteq 1 .. begun'
         /\ \E o \in Operation : op' = {o} /\ o.id = begun' /\ ~o.submitted
         /\ begun' \notin final /\ \A x \in pending : x.id # begun'
<1>1. /\ begun' = begun + 1 /\ begun' \in 1 .. MaxOperations
      /\ op' = {[id |-> begun + 1, action |-> action, tool |-> t, calls |-> calls,
                 submitted |-> FALSE]}
      /\ UNCHANGED <<vars, pending, final>>
  BY CliParts DEF begin
<1>2. [id |-> begun + 1, action |-> action, tool |-> t, calls |-> calls,
       submitted |-> FALSE] \in Operation
  BY <1>1 DEF Operation
<1>3. begun' \notin final /\ \A x \in pending : x.id # begun'
  BY <1>1, CliParts DEF Tx
<1>4. pending' \subseteq Tx(1 .. begun') /\ final' \subseteq 1 .. begun'
  BY <1>1, CliParts, TxGrows
<1>5. \E o \in Operation : op' = {o} /\ o.id = begun' /\ ~o.submitted
  BY <1>1, <1>2
<1>. QED BY <1>1, <1>3, <1>4, <1>5

\* A step that leaves the ledger alone keeps what is about the ledger alone.
LEMMA LedgerStays == ASSUME CliIInv, UNCHANGED vars PROVE IInv'
BY NextIInv DEF CliIInv

\* The wallet and what was bought stay: so does what ties them.
LEMMA WalletStays ==
  ASSUME CliIInv, UNCHANGED <<passes, drawnFor>>, Bought' \subseteq Bought, spentCalls \subseteq spentCalls'
  PROVE  NoCallForgottenByChain' /\ BoughtInOrder'
<1>1. NoCallForgottenByChain'
  BY CliParts DEF NoCallForgottenByChain, Spent, CallsOf
<1>2. BoughtInOrder'
  BY CliParts DEF BoughtInOrder, nonces
<1>. QED BY <1>1, <1>2

\* A purchase puts the next nonce in the wallet before it is submitted.
LEMMA BeginIssueStep == ASSUME CliIInv, NEW t \in Tools, BeginIssue(t) PROVE CliIInv'
<1>. DEFINE p == [nonce |-> FreshNonces[nonces + 1], callsUsed |-> 0]
<1>0. /\ drawnFor' = Append(drawnFor, t) /\ nonces < Len(FreshNonces)
      /\ passes' = [passes EXCEPT ![t] = {p}] /\ begin("issuePass", t, 0)
  BY DEF BeginIssue, withPass
<1>1. /\ nonces' = nonces + 1 /\ nonces + 1 \in 1 .. Len(FreshNonces)
      /\ passes' = [passes EXCEPT ![t] = {p}] /\ begin("issuePass", t, 0)
      /\ drawnFor' \in Seq(Tools) /\ drawnFor'[nonces + 1] = t
      /\ \A k \in 1 .. nonces : drawnFor'[k] = drawnFor[k] /\ drawnFor[k] \in Tools
  BY <1>0, CliParts DEF nonces
<1>2. 0 \in 0 .. MaxUint /\ p \in PassSecret
  BY <1>1, CliAssumption, BoundsAssumption DEF PassSecret
<1>3. p.nonce = FreshNonces[nonces + 1] /\ p.callsUsed = 0
  OBVIOUS
<1>. HIDE DEF p
<1>4. /\ UNCHANGED <<vars, pending, final>> /\ begun' \in 0 .. MaxOperations
      /\ pending' \subseteq Tx(1 .. begun') /\ final' \subseteq 1 .. begun'
      /\ \E o \in Operation : op' = {o} /\ o.id = begun' /\ ~o.submitted
      /\ begun' \notin final /\ \A x \in pending : x.id # begun'
  BY <1>1, <1>2, BeginStep DEF Actions
<1>5. /\ passes' \in [Tools -> SUBSET PassSecret] /\ passes'[t] = {p}
      /\ \A u \in Tools : u # t => passes'[u] = passes[u]
  BY <1>1, <1>2, CliParts
<1>6. nonces' \in 0 .. Len(FreshNonces) /\ nonces \in Nat
  BY <1>1, CliParts
<1>7. NoCallForgottenByChain'
  <2>1. spentCalls' = spentCalls
    BY <1>4 DEF vars
  <2>2. ASSUME NEW u \in Tools, NEW q \in passes'[u]
        PROVE  0 .. q.callsUsed - 1 \subseteq Spent(u, q.nonce)'
    <3>1. CASE u = t
      BY <3>1, <2>2, <1>3, <1>5
    <3>2. CASE u # t
      BY <3>2, <2>1, <2>2, <1>5, CliParts DEF NoCallForgottenByChain, Spent,
         CallsOf
    <3>. QED BY <3>1, <3>2
  <2>. QED BY <2>2 DEF NoCallForgottenByChain
<1>8. BoughtInOrder'
  <2>1. Bought' = Bought
    BY <1>4 DEF vars, Bought
  <2>2. ASSUME NEW c \in Bought
        PROVE  \E i \in 1 .. nonces' : c.nonce = FreshNonces[i] /\ drawnFor'[i] = c.tool
    <3>1. PICK i \in 1 .. nonces : c.nonce = FreshNonces[i] /\ drawnFor[i] = c.tool
      BY CliParts DEF BoughtInOrder
    <3>. QED BY <3>1, <1>1, <1>6
  <2>3. ASSUME NEW i \in 1 .. nonces'
        PROVE  \/ \E q \in passes'[drawnFor'[i]] : q.nonce = FreshNonces[i]
               \/ \E k \in i + 1 .. nonces' : drawnFor'[k] = drawnFor'[i]
    <3>1. CASE i = nonces + 1
      BY <3>1, <1>1, <1>3, <1>5
    <3>2. CASE i # nonces + 1 /\ drawnFor'[i] = t
      <4>1. nonces + 1 \in i + 1 .. nonces'
        BY <3>2, <2>3, <1>1, <1>6
      <4>. QED BY <3>2, <4>1, <1>1
    <3>3. CASE i # nonces + 1 /\ drawnFor'[i] # t
      <4>1. i \in 1 .. nonces /\ i + 1 .. nonces \subseteq i + 1 .. nonces'
            /\ \A k \in i + 1 .. nonces : k \in 1 .. nonces
        BY <3>3, <2>3, <1>1, <1>6
      <4>2. drawnFor'[i] = drawnFor[i] /\ passes'[drawnFor[i]] = passes[drawnFor[i]]
        BY <3>3, <4>1, <1>1, <1>5
      <4>3. \/ \E q \in passes[drawnFor[i]] : q.nonce = FreshNonces[i]
            \/ \E k \in i + 1 .. nonces : drawnFor[k] = drawnFor[i]
        BY <4>1, CliParts DEF BoughtInOrder
      <4>. QED BY <4>1, <4>2, <4>3, <1>1
    <3>. QED BY <3>1, <3>2, <3>3
  <2>. QED BY <2>1, <2>2, <2>3 DEF BoughtInOrder
<1>9. OneOfEach'
  <2>1. ASSUME NEW u \in Tools
        PROVE  /\ passes'[u] = {} \/ \E q \in PassSecret : passes'[u] = {q}
               /\ \A q \in passes'[u] : \E k \in 1 .. nonces' :
                    q.nonce = FreshNonces[k] /\ drawnFor'[k] = u
    <3>1. 1 .. nonces \subseteq 1 .. nonces' /\ nonces + 1 \in 1 .. nonces'
      BY <1>1, <1>6
    <3>2. CASE u = t
      BY <3>1, <3>2, <1>1, <1>2, <1>3, <1>5
    <3>3. CASE u # t
      BY <3>1, <3>3, <1>1, <1>5, CliParts DEF OneOfEach
    <3>. QED BY <3>2, <3>3
  <2>. QED BY <2>1, <1>4 DEF OneOfEach
<1>10. OperationTrue'
  BY <1>4 DEF OperationTrue
<1>. QED BY <1>1, <1>4, <1>5, <1>6, <1>7, <1>8, <1>9, <1>10, LedgerStays DEF CliIInv,
    CliPart

\* Nothing of the wallet changes when another operation begins.
LEMMA BeginOtherStep ==
  ASSUME CliIInv, NEW action \in Actions, NEW t \in Tools, NEW calls \in 0 .. MaxUint,
         begin(action, t, calls), UNCHANGED <<passes, drawnFor>>
  PROVE  CliIInv'
<1>4. /\ UNCHANGED <<vars, pending, final>> /\ begun' \in 0 .. MaxOperations
      /\ pending' \subseteq Tx(1 .. begun') /\ final' \subseteq 1 .. begun'
      /\ \E o \in Operation : op' = {o} /\ o.id = begun' /\ ~o.submitted
      /\ begun' \notin final /\ \A x \in pending : x.id # begun'
  BY BeginStep
<1>1. passCommitments' = passCommitments /\ spentCalls' = spentCalls
  BY <1>4 DEF vars
<1>2. Bought' = Bought
  BY <1>1, <1>4 DEF Bought
<1>3. NoCallForgottenByChain' /\ BoughtInOrder'
  BY <1>1, <1>2, WalletStays
<1>5. OneOfEach'
  BY <1>4, CliParts DEF OneOfEach, nonces
<1>6. OperationTrue'
  BY <1>4 DEF OperationTrue
<1>. QED BY <1>3, <1>4, <1>5, <1>6, CliParts, LedgerStays DEF CliIInv, CliPart, nonces

\* A transaction that goes out carries the pass the wallet holds.
LEMMA SubmitStep == ASSUME CliIInv, NEW o \in op, Submit(o) PROVE CliIInv'
<1>1. /\ o \in Operation /\ op = {o} /\ o.id = begun /\ ~o.submitted /\ begun \in 1 .. begun
      /\ o.id \notin final /\ \A x \in pending : x.id # o.id
  BY CliParts DEF OneOfEach, OperationTrue, Submit, Operation
<1>2. PICK p \in passes[o.tool] :
        /\ circuitHolds(o.action, MyPass(o.tool, p.nonce), AuditedBy, callIndex(o, p))
        /\ pending' = pending \cup {proven(o.id, o.action, MyPass(o.tool, p.nonce),
                                           callIndex(o, p))}
  BY DEF Submit
<1>. DEFINE c == MyPass(o.tool, p.nonce)
            x == proven(o.id, o.action, c, callIndex(o, p))
            oo == [o EXCEPT !.submitted = TRUE]
<1>3. /\ UNCHANGED <<vars, passes, final, begun, drawnFor, nonces>> /\ op' = {oo}
      /\ passCommitments' = passCommitments /\ spentCalls' = spentCalls
      /\ pending' = pending \cup {x}
  BY <1>2 DEF Submit, vars, nonces
<1>4. o.tool \in Tools /\ p \in PassSecret /\ passes[o.tool] = {p} /\ o.action \in Actions
  BY <1>1, CliParts DEF Operation, OneOfEach
<1>5. /\ c \in Pass /\ c.tool = o.tool /\ c.nonce = p.nonce
      /\ callIndex(o, p) \in 0 .. MaxUint
      /\ o.action = "redeemCall" => callIndex(o, p) = p.callsUsed
  BY <1>1, <1>4, CliAssumption
     DEF MyPass, passCommitment, Pass, PassSecret, Operation, callIndex
<1>6. x \in Tx(1 .. begun)
  BY <1>1, <1>2, <1>4, <1>5, ProvenTx DEF CliIInv
<1>7. x.id = o.id /\ x.action = o.action /\ x.pass = c /\ x.calls = callIndex(o, p)
  BY DEF proven
<1>8. /\ oo \in Operation /\ oo.id = o.id /\ oo.action = o.action /\ oo.tool = o.tool
      /\ oo.submitted
  BY <1>1 DEF Operation
<1>. HIDE DEF x, oo
<1>9. BoughtInOrder'
  <2>1. Bought' = Bought \cup {c}
    BY <1>3, <1>7 DEF Bought
  <2>2. \E k \in 1 .. nonces : c.nonce = FreshNonces[k] /\ drawnFor[k] = c.tool
    BY <1>2, <1>4, <1>5, CliParts DEF OneOfEach
  <2>. QED BY <2>1, <2>2, <1>3, CliParts DEF BoughtInOrder
<1>10. OneOfEach'
  BY <1>1, <1>3, <1>8, CliParts DEF OneOfEach
<1>11. OperationTrue'
  <2>1. ASSUME NEW y \in pending', y.id = o.id PROVE y = x
    BY <1>1, <1>3, <2>1
  <2>2. c = MyPass(o.tool, p.nonce)
    OBVIOUS
  <2>. HIDE DEF c
  <2>3. ASSUME o.action = "redeemCall", NEW q \in passes[o.tool]
        PROVE  \A y \in pending' : y.id = o.id =>
                 y.action = "redeemCall" /\ y.calls = q.callsUsed /\ y.pass = MyPass(o.tool, q.nonce)
    <3>1. q = p
      BY <1>4, <2>3
    <3>. QED BY <3>1, <2>1, <2>2, <2>3, <1>5, <1>7
  <2>. QED BY <2>3, <1>1, <1>3, <1>8 DEF OperationTrue
<1>12. NoCallForgottenByChain'
  BY <1>3, CliParts DEF NoCallForgottenByChain, Spent, CallsOf
<1>13. pending' \subseteq Tx(1 .. begun)
  BY <1>3, <1>6, CliParts
<1>. QED BY <1>3, <1>9, <1>10, <1>11, <1>12, <1>13, CliParts, LedgerStays
    DEF CliIInv, CliPart

\* A counter advances over a call the chain has, hence stays inside the quota.
LEMMA SucceedStep == ASSUME CliIInv, NEW o \in op, Succeed(o) PROVE CliIInv'
<1>1. /\ UNCHANGED <<vars, pending, final, begun, drawnFor, nonces>> /\ op' = {} /\ o.submitted
      /\ o.id \in final /\ passCommitments' = passCommitments /\ spentCalls' = spentCalls
  BY DEF Succeed, finalised, vars, nonces
<1>2. o \in Operation /\ o.tool \in Tools
  BY CliParts DEF OneOfEach, Operation
<1>3. CASE o.action # "redeemCall"
  <2>1. passes' = passes
    BY <1>3 DEF Succeed
  <2>2. Bought' = Bought
    BY <1>1 DEF Bought
  <2>3. NoCallForgottenByChain' /\ BoughtInOrder' /\ OneOfEach'
    BY <1>1, <2>1, <2>2, CliParts, WalletStays DEF OneOfEach
  <2>. QED BY <1>1, <2>1, <2>3, CliParts, LedgerStays DEF CliIInv, CliPart,
      OperationTrue
<1>4. CASE o.action = "redeemCall" /\ passes[o.tool] = {}
  <2>1. passes' = passes
    <3>1. passes' = [passes EXCEPT ![o.tool] = {[p EXCEPT !.callsUsed = @ + 1] : p \in passes[o.tool]}]
      BY <1>4 DEF Succeed
    <3>. QED BY <3>1, <1>4, <1>2, CliParts
  <2>2. Bought' = Bought
    BY <1>1 DEF Bought
  <2>3. NoCallForgottenByChain' /\ BoughtInOrder' /\ OneOfEach'
    BY <1>1, <2>1, <2>2, CliParts, WalletStays DEF OneOfEach
  <2>. QED BY <1>1, <2>1, <2>3, CliParts, LedgerStays DEF CliIInv, CliPart,
      OperationTrue
<1>5. ASSUME o.action = "redeemCall", NEW p \in PassSecret, passes[o.tool] = {p} PROVE CliIInv'
  <2>. DEFINE n == callNullifier(MyPass(o.tool, p.nonce), p.callsUsed)
              q == [p EXCEPT !.callsUsed = @ + 1]
  <2>1. n \in spentCalls
    BY <1>1, <1>5, CliParts DEF OperationTrue
  <2>2. /\ n.index = p.callsUsed /\ n.pass = MyPass(o.tool, p.nonce) /\ p.callsUsed \in Nat
        /\ q.nonce = p.nonce /\ q.callsUsed = p.callsUsed + 1
    BY DEF callNullifier, PassSecret
  <2>3. p.callsUsed + 1 \in 0 .. MaxUint
    <3>1. n.index < tools[n.pass.tool].quota /\ tools[n.pass.tool].quota \in 1 .. MaxUint
      BY <2>1, CliParts DEF SpentCallsAreEntitled, TypeOK, ToolRecord
    <3>. QED BY <3>1, <2>2, BoundsAssumption
  <2>4. q \in PassSecret
    BY <2>3 DEF PassSecret
  <2>5. /\ passes' \in [Tools -> SUBSET PassSecret] /\ passes'[o.tool] = {q}
        /\ \A u \in Tools : u # o.tool => passes'[u] = passes[u]
    <3>1. passes' = [passes EXCEPT ![o.tool] = {[r EXCEPT !.callsUsed = @ + 1] : r \in passes[o.tool]}]
      BY <1>5 DEF Succeed
    <3>2. {[r EXCEPT !.callsUsed = @ + 1] : r \in passes[o.tool]} = {q}
      BY <1>5
    <3>. HIDE DEF q
    <3>. QED BY <3>1, <3>2, <2>4, <1>2, CliParts
  <2>. HIDE DEF n, q
  <2>6. NoCallForgottenByChain'
    <3>1. ASSUME NEW u \in Tools, NEW r \in passes'[u]
          PROVE  0 .. r.callsUsed - 1 \subseteq Spent(u, r.nonce)
      <4>1. CASE u # o.tool
        BY <4>1, <3>1, <2>5, CliParts DEF NoCallForgottenByChain
      <4>2. CASE u = o.tool
        <5>1. r = q /\ 0 .. p.callsUsed - 1 \subseteq Spent(o.tool, p.nonce)
          BY <4>2, <3>1, <2>5, <1>2, <1>5, CliParts DEF NoCallForgottenByChain
        <5>2. p.callsUsed \in Spent(o.tool, p.nonce)
          BY <2>1, <2>2 DEF Spent, CallsOf
        <5>3. 0 .. q.callsUsed - 1 = (0 .. p.callsUsed - 1) \cup {p.callsUsed}
          BY <2>2
        <5>. QED BY <5>1, <5>2, <5>3, <4>2, <2>2
      <4>. QED BY <4>1, <4>2
    <3>2. \A u, k : Spent(u, k)' = Spent(u, k)
      BY <1>1 DEF Spent, CallsOf
    <3>. QED BY <3>1, <3>2 DEF NoCallForgottenByChain
  <2>7. BoughtInOrder'
    <3>1. Bought' = Bought
      BY <1>1 DEF Bought
    <3>2. ASSUME NEW i \in 1 .. nonces, NEW r \in passes[drawnFor[i]], r.nonce = FreshNonces[i]
          PROVE  \E r2 \in passes'[drawnFor[i]] : r2.nonce = FreshNonces[i]
      <4>1. drawnFor[i] \in Tools
        BY CliParts
      <4>2. CASE drawnFor[i] = o.tool
        BY <3>2, <4>2, <2>2, <2>5, <1>5
      <4>3. CASE drawnFor[i] # o.tool
        BY <3>2, <4>1, <4>3, <2>5
      <4>. QED BY <4>2, <4>3
    <3>. QED BY <3>1, <3>2, <1>1, CliParts DEF BoughtInOrder
  <2>8. OneOfEach'
    <3>1. ASSUME NEW u \in Tools
          PROVE  /\ passes'[u] = {} \/ \E r \in PassSecret : passes'[u] = {r}
                 /\ \A r \in passes'[u] : \E k \in 1 .. nonces :
                      r.nonce = FreshNonces[k] /\ drawnFor[k] = u
      <4>1. CASE u = o.tool
        BY <4>1, <2>2, <2>4, <2>5, <1>2, <1>5, CliParts DEF OneOfEach
      <4>2. CASE u # o.tool
        BY <4>2, <2>5, CliParts DEF OneOfEach
      <4>. QED BY <4>1, <4>2
    <3>. QED BY <3>1, <1>1 DEF OneOfEach
  <2>. QED BY <1>1, <2>5, <2>6, <2>7, <2>8, CliParts, LedgerStays DEF CliIInv,
      CliPart, OperationTrue
<1>. QED BY <1>2, <1>3, <1>4, <1>5, CliParts DEF OneOfEach

\* An operation that failed changes neither wallet nor ledger.
LEMMA AbandonStep == ASSUME CliIInv, NEW o \in op, Abandon(o) PROVE CliIInv'
<1>1. /\ UNCHANGED <<vars, passes, pending, final, begun, drawnFor, nonces>> /\ op' = {}
      /\ passCommitments' = passCommitments /\ spentCalls' = spentCalls
  BY DEF Abandon, afterFailure, vars, nonces
<1>2. Bought' = Bought
  BY <1>1 DEF Bought
<1>3. NoCallForgottenByChain' /\ BoughtInOrder' /\ OneOfEach'
  BY <1>1, <1>2, CliParts, WalletStays DEF OneOfEach
<1>. QED BY <1>1, <1>3, CliParts, LedgerStays DEF CliIInv, CliPart,
    OperationTrue

\* A transaction that lands is a step of the contract.
LEMMA LandStep == ASSUME CliIInv, NEW x \in pending, Land(x) PROVE CliIInv'
<1>1. /\ pending' = pending \ {x} /\ final' = final \cup {x.id}
      /\ UNCHANGED <<passes, op, begun, drawnFor, nonces>> /\ Apply(x, AuditedBy)
  BY DEF Land, nonces
<1>2. x \in Tx(1 .. begun) /\ x.id \in 1 .. begun
  BY CliParts DEF Tx
<1>3. IInv'
  BY <1>1, <1>2, CliAssumption, ApplyIsStep, NextIInv DEF CliIInv
<1>4. /\ passCommitments' \subseteq passCommitments \cup {x.pass}
      /\ spentCalls \subseteq spentCalls'
      /\ x.action = "redeemCall" => callNullifier(x.pass, x.calls) \in spentCalls'
  BY <1>1, <1>2, ApplyAdds
<1>5. Bought' \subseteq Bought
  BY <1>1, <1>4 DEF Bought
<1>6. NoCallForgottenByChain' /\ BoughtInOrder'
  BY <1>1, <1>4, <1>5, WalletStays
<1>7. OneOfEach'
  BY <1>1, CliParts DEF OneOfEach
<1>8. OperationTrue'
  <2>1. ASSUME NEW o \in op, o.submitted, o.action = "redeemCall", NEW p \in passes[o.tool],
               o.id \in final \cup {x.id}
        PROVE  callNullifier(MyPass(o.tool, p.nonce), p.callsUsed) \in spentCalls'
    BY <2>1, <1>4, CliParts DEF OperationTrue
  <2>2. ASSUME NEW o \in op, ~o.submitted PROVE o.id # x.id
    BY <2>2, CliParts DEF OperationTrue
  <2>. QED BY <2>1, <2>2, <1>1, CliParts DEF OperationTrue
<1>9. pending' \subseteq Tx(1 .. begun) /\ final' \subseteq 1 .. begun
  BY <1>1, <1>2, CliParts
<1>. QED BY <1>1, <1>3, <1>5, <1>6, <1>7, <1>8, <1>9, CliParts DEF CliIInv,
    CliPart

\* A transaction that does not land changes nothing else.
LEMMA DropStep == ASSUME CliIInv, NEW x \in pending, Drop(x) PROVE CliIInv'
<1>1. /\ pending' = pending \ {x} /\ UNCHANGED <<vars, passes, op, final, begun, drawnFor, nonces>>
      /\ passCommitments' = passCommitments /\ spentCalls' = spentCalls
  BY DEF Drop, vars, nonces
<1>2. Bought' \subseteq Bought
  BY <1>1 DEF Bought
<1>3. NoCallForgottenByChain' /\ BoughtInOrder' /\ OneOfEach'
  BY <1>1, <1>2, CliParts, WalletStays DEF OneOfEach
<1>4. OperationTrue'
  BY <1>1, CliParts DEF OperationTrue
<1>. QED BY <1>1, <1>2, <1>3, <1>4, CliParts, LedgerStays DEF CliIInv, CliPart

\* Every step of the client keeps the invariant.
LEMMA CliStep == CliIInv /\ [CliNext]_allVars => CliIInv'
<1>. SUFFICES ASSUME CliIInv, [CliNext]_allVars PROVE CliIInv'
  OBVIOUS
<1>1. CASE UNCHANGED allVars
  <2>1. UNCHANGED <<vars, passes, op, pending, final, begun, drawnFor, nonces>>
        /\ passCommitments' = passCommitments /\ spentCalls' = spentCalls
    BY <1>1 DEF allVars, cliVars, vars, nonces
  <2>3. Bought' = Bought
    BY <2>1 DEF Bought
  <2>2. NoCallForgottenByChain' /\ BoughtInOrder' /\ OneOfEach' /\ OperationTrue'
    BY <2>1, <2>3, CliParts, WalletStays DEF OneOfEach, OperationTrue
  <2>. QED BY <2>1, <2>2, CliParts, LedgerStays DEF CliIInv, CliPart
<1>2. ASSUME NEW t \in Tools, BeginRedeem(t) PROVE CliIInv'
  BY <1>2, BeginOtherStep, BoundsAssumption DEF BeginRedeem, Actions
<1>3. ASSUME NEW t \in Tools, NEW calls \in 0 .. MaxUint, BeginAttest(t, calls) PROVE CliIInv'
  BY <1>3, BeginOtherStep DEF BeginAttest, Actions
<1>. QED BY <1>1, <1>2, <1>3, BeginIssueStep, SubmitStep, SucceedStep,
    AbandonStep, LandStep,
            DropStep DEF CliNext

\* However an operation ends, a pass that was bought is in the wallet until the
\* next purchase for its tool is begun, and the wallet counts no call the chain
\* has not, for any tools, number of operations and nonces (api.ts,
\* witnesses.ts).
THEOREM CliHolds == CliSpec => []CliInv
<1>1. CliIInv => CliInv
  <2>. SUFFICES ASSUME CliIInv PROVE CliInv
    OBVIOUS
  <2>1. Cardinality(op) <= 1 /\ \A t \in Tools : Cardinality(passes[t]) <= 1
    BY CliParts, OneAtMost DEF OneOfEach
  <2>2. op \subseteq Operation
    BY CliParts DEF OneOfEach
  <2>3. CliTypeOK
    BY <2>1, <2>2, CliParts DEF CliTypeOK
  <2>4. BoughtPassIsHeldUntilNext
    <3>1. ASSUME NEW i \in 1 .. nonces, NEW t \in Tools,
                 MyPass(t, FreshNonces[i]) \in passCommitments
          PROVE  \/ \E p \in passes[t] : p.nonce = FreshNonces[i]
                 \/ \E k \in i + 1 .. nonces : drawnFor[k] = t
      <4>. DEFINE c == MyPass(t, FreshNonces[i])
      <4>1. c \in Bought /\ c.tool = t /\ c.nonce = FreshNonces[i]
        BY <3>1 DEF Bought, MyPass, passCommitment
      <4>. HIDE DEF c
      <4>2. PICK j \in 1 .. nonces : c.nonce = FreshNonces[j] /\ drawnFor[j] = c.tool
        BY <4>1, CliParts DEF BoughtInOrder
      <4>3. i \in DOMAIN FreshNonces /\ j \in DOMAIN FreshNonces
        BY CliParts, CliAssumption
      <4>4. i = j
        BY <4>1, <4>2, <4>3, CliAssumption
      <4>. QED BY <4>1, <4>2, <4>4, CliParts DEF BoughtInOrder
    <3>. QED BY <3>1 DEF BoughtPassIsHeldUntilNext
  <2>. QED BY <2>3, <2>4, CliParts DEF CliInv
<1>. QED BY <1>1, CliInitially, CliStep, PTL DEF CliSpec

-----------------------------------------------------------------------------
(***************************************************************************)
(* NightpassDemo.                                                          *)
(*                                                                         *)
(* The invariant lays the script out in a line: what this run submitted    *)
(* lies behind where it is, but for the one it waits for; so the index it  *)
(* spends next is spent by nobody before it.                               *)
(***************************************************************************)
\* Where a place lies in the script.
Position(where, at) ==
  CASE where = "list"   -> at
    [] where = "buy"    -> Len(CATALOG) + 1
    [] where = "bought" -> Len(CATALOG) + 2
    [] where = "spend"  -> Len(CATALOG) + 2 + at
    [] where = "attest" -> Len(CATALOG) + 3 + CALLS
    [] OTHER            -> Len(CATALOG) + 4 + CALLS

\* Transactions are of runs so far, and of this run of places that lie behind,
\* but for the one it waits for.
Submitted == applied \cup {x.id : x \in inFlight}

PlacesBehind ==
  \A id \in Submitted :
    /\ id[1] <= runs
    /\ id[1] = runs /\ scene # "none" =>
         Position(id[2], id[3]) < Position(scene, item) \/ (id = here /\ awaiting = {here})

\* From the purchase on the disk holds the pass of this run, and the calls it
\* counts are on the ledger.
callsMade == CASE scene = "bought" -> 0 [] scene = "spend" -> item - 1 [] OTHER -> CALLS

PassInHand ==
  scene \in {"bought", "spend", "attest", "audit"} =>
    /\ disk = [sk |-> mine.agent, held |-> {[nonce |-> mine.nonce, callsUsed |-> callsMade]}]
    /\ \A i \in 0 .. callsMade - 1 : onChain(i)

\* The transaction a run waits for in a call spends the index of that call; no
\* transaction spends one beyond the last.
CallsOfScript ==
  /\ \A n \in spentCalls : n.index < CALLS
  /\ \A x \in inFlight : x.action = "redeemCall" => x.calls < CALLS
  /\ scene = "spend" =>
       /\ here \in applied => onChain(item - 1)
       /\ \A x \in inFlight : x.id = here =>
            x.action = "redeemCall" /\ x.pass = commitment /\ x.calls = item - 1

\* The types, and what is under way at which place.
ScriptShape ==
  /\ disk \in Private /\ (disk.held = {} \/ \E p \in disk.held : disk.held = {p})
  /\ runs \in 0 .. Len(Drawn) /\ scene \in Scenes
  /\ scene # "none" => runs \in 1 .. Len(Drawn)
  /\ scene = "list" => item \in DOMAIN CATALOG
  /\ scene = "spend" => item \in 1 .. CALLS
  /\ scene \notin {"list", "spend"} => item = 0
  /\ scene \in {"none", "buy", "audit"} => awaiting = {}
  /\ awaiting \subseteq {here}
  /\ inFlight \subseteq Tx(Ids) \cup ListTx(Ids)
  /\ applied \subseteq Ids /\ printed \subseteq Printout

\* The script's own part ...
DemoPart == ScriptShape /\ DemoVerdictIsTrue /\ PlacesBehind /\ PassInHand /\ CallsOfScript

\* ... and the inductive invariant, with the contract's.
DemoIInv == IInv /\ DemoPart

\* What it spends.
LEMMA ApplySpends ==
  ASSUME NEW ids, NEW x \in Tx(ids), NEW a, Apply(x, a)
  PROVE  IF x.action = "redeemCall"
         THEN spentCalls' = spentCalls \cup {callNullifier(x.pass, x.calls)}
         ELSE spentCalls' = spentCalls
<1>1. x.pass = passCommitment(x.pass.tool, x.pass.sk, x.pass.nonce) /\ x.action \in Actions
  BY DEF Tx, Pass, passCommitment
<1>2. CASE x.action = "issuePass"
  BY <1>1, <1>2 DEF Apply, issuePass
<1>3. CASE x.action = "redeemCall"
  BY <1>1, <1>3 DEF Apply, redeemCall
<1>4. CASE x.action = "attest"
  BY <1>1, <1>4 DEF Apply, attestUsage
<1>. QED BY <1>1, <1>2, <1>3, <1>4 DEF Actions

\* The catalog has a first tool, and the script spends at least one call.
LEMMA DemoSizes ==
  /\ Len(CATALOG) \in Nat \ {0} /\ CATALOG \in [1 .. Len(CATALOG) -> Tools]
  /\ target \in Tools /\ CALLS \in Nat \ {0} /\ CALLS <= MaxUint /\ MaxUint \in Nat
  /\ Len(Drawn) \in Nat
<1>1. CATALOG \in Seq(Tools) /\ CATALOG # <<>>
  BY DemoAssumption
<1>2. Len(CATALOG) \in Nat \ {0} /\ CATALOG \in [1 .. Len(CATALOG) -> Tools]
  BY <1>1
<1>3. 1 \in 1 .. Len(CATALOG)
  BY <1>2
<1>. QED BY <1>2, <1>3, DemoAssumption, BoundsAssumption DEF target

\* A run's secrets are of their type.
LEMMA MineTyped ==
  ASSUME runs \in 1 .. Len(Drawn)
  PROVE  /\ mine.agent \in Secrets /\ mine.publisher \in Secrets /\ mine.nonce \in Nonces
         /\ commitment \in Pass
<1>1. mine \in [publisher : Secrets, agent : Secrets, nonce : Nonces]
  <2>. DEFINE D == [publisher : Secrets, agent : Secrets, nonce : Nonces]
  <2>1. Drawn \in Seq(D)
    BY DemoAssumption
  <2>. HIDE DEF D
  <2>2. Drawn[runs] \in D
    BY <2>1
  <2>. QED BY <2>2 DEF mine, D
<1>. QED BY <1>1, DemoSizes DEF commitment, passCommitment, Pass

\* Places are in a line.
LEMMA PositionNat ==
  ASSUME NEW where \in Scenes, NEW at \in Nat
  PROVE  Position(where, at) \in Nat
BY DemoSizes DEF Position, Scenes

\* What every step can use.
LEMMA DemoParts ==
  ASSUME DemoIInv
  PROVE  /\ disk \in Private /\ (disk.held = {} \/ \E p \in disk.held : disk.held = {p})
         /\ runs \in 0 .. Len(Drawn) /\ runs \in Nat /\ scene \in Scenes /\ item \in Nat
         /\ scene # "none" => runs \in 1 .. Len(Drawn)
         /\ scene = "list" => item \in 1 .. Len(CATALOG)
         /\ scene = "spend" => item \in 1 .. CALLS
         /\ scene \notin {"list", "spend"} => item = 0
         /\ scene \in {"none", "buy", "audit"} => awaiting = {}
         /\ awaiting \subseteq {here}
         /\ inFlight \subseteq Tx(Ids) \cup ListTx(Ids)
         /\ applied \subseteq Ids /\ printed \subseteq Printout
         /\ DemoVerdictIsTrue /\ PlacesBehind /\ PassInHand /\ CallsOfScript
         /\ TypeOK
<1>1. DOMAIN CATALOG = 1 .. Len(CATALOG)
  BY DemoSizes
<1>. QED BY <1>1, DemoSizes DEF DemoIInv, DemoPart, ScriptShape, IInv

\* A step that leaves the ledger alone keeps what is about it.
LEMMA DemoLedgerStays == ASSUME DemoIInv, UNCHANGED vars PROVE IInv' /\ spentCalls' = spentCalls
BY NextIInv DEF DemoIInv, vars

\* Ids of transactions have their type.
LEMMA SubmittedIds == ASSUME DemoIInv PROVE Submitted \subseteq Ids
BY DemoParts DEF Submitted, Tx, ListTx

\* A run that goes on to a later place leaves its transactions behind.
LEMMA GoesBehind ==
  ASSUME DemoIInv, UNCHANGED <<runs, inFlight, applied>>,
         scene # "none", scene' \in Scenes \ {"none"}, item' \in Nat,
         Position(scene, item) < Position(scene', item')
  PROVE  PlacesBehind' /\ here' \notin Submitted
<1>1. Submitted' = Submitted
  BY DEF Submitted
<1>2. Position(scene, item) \in Nat /\ Position(scene', item') \in Nat
  BY DemoParts, PositionNat
<1>3. ASSUME NEW id \in Submitted
      PROVE  /\ id[1] <= runs
             /\ id[1] = runs => Position(id[2], id[3]) < Position(scene', item')
  <2>1. id \in Ids
    BY SubmittedIds
  <2>2. id[2] \in Scenes /\ id[3] \in Nat
    BY <2>1, DemoSizes DEF Ids
  <2>3. Position(id[2], id[3]) \in Nat
    BY <2>2, PositionNat
  <2>4. /\ id[1] <= runs
        /\ id[1] = runs => Position(id[2], id[3]) < Position(scene, item) \/ id = here
    BY DemoParts DEF PlacesBehind
  <2>5. id = here => Position(id[2], id[3]) = Position(scene, item)
    BY DEF here
  <2>. QED BY <1>2, <2>3, <2>4, <2>5
<1>4. PlacesBehind'
  BY <1>1, <1>3 DEF PlacesBehind
<1>5. here' \notin Submitted
  <2>1. here'[1] = runs /\ here'[2] = scene' /\ here'[3] = item'
    BY DEF here
  <2>. QED BY <2>1, <1>2, <1>3
<1>. QED BY <1>4, <1>5

\* So no call of the script is under way or on the ledger before its turn.
LEMMA CallsBehind ==
  ASSUME DemoIInv, UNCHANGED <<inFlight, applied, spentCalls>>, here' \notin Submitted
  PROVE  CallsOfScript'
BY DemoParts DEF CallsOfScript, Submitted

\* Before the first run nothing is under way.
LEMMA DemoInitially == DemoInit => DemoIInv
<1>. SUFFICES ASSUME DemoInit PROVE DemoIInv
  OBVIOUS
<1>1. IInv
  BY InitIInv DEF DemoInit
<1>2. disk \in Private /\ disk.held = {}
  BY DEF DemoInit, DemoStart, Private, fresh
<1>3. ScriptShape
  BY <1>2, DemoSizes DEF DemoInit, DemoStart, ScriptShape, Scenes
<1>4. spentCalls = {} /\ Submitted = {}
  BY DEF DemoInit, DemoStart, Init, Submitted
<1>5. PlacesBehind /\ PassInHand /\ CallsOfScript /\ DemoVerdictIsTrue
  BY <1>4 DEF DemoInit, DemoStart, PlacesBehind, PassInHand, CallsOfScript,
     DemoVerdictIsTrue
<1>. QED BY <1>1, <1>3, <1>5 DEF DemoIInv, DemoPart

\* The next tool of the catalog, or the purchase after the last.
LEMMA SkipsOn ==
  ASSUME DemoIInv, scene = "list", nextTool
  PROVE  /\ item' \in Nat /\ scene' \in {"list", "buy"}
         /\ scene' = "list" => item' \in 1 .. Len(CATALOG)
         /\ scene' = "buy" => item' = 0
         /\ Position(scene, item) < Position(scene', item')
<1>1. item \in 1 .. Len(CATALOG) /\ Len(CATALOG) \in Nat
  BY DemoParts, DemoSizes
<1>2. CASE item < Len(CATALOG)
  BY <1>1, <1>2 DEF nextTool, goOn, Position
<1>3. CASE ~(item < Len(CATALOG))
  BY <1>1, <1>3 DEF nextTool, goOn, Position
<1>. QED BY <1>2, <1>3

\* The script moves on, and nothing else changes.
LEMMA ListStep ==
  ASSUME DemoIInv, scene = "list", nextTool, awaiting' = {},
         UNCHANGED <<vars, disk, runs, inFlight, applied, printed>>
  PROVE  DemoIInv'
<1>1. /\ item' \in Nat /\ scene' \in {"list", "buy"}
      /\ scene' = "list" => item' \in 1 .. Len(CATALOG)
      /\ scene' = "buy" => item' = 0
      /\ Position(scene, item) < Position(scene', item')
  BY SkipsOn
<1>2. PlacesBehind' /\ here' \notin Submitted
  BY <1>1, GoesBehind DEF Scenes
<1>3. IInv' /\ spentCalls' = spentCalls
  BY DemoLedgerStays
<1>4. CallsOfScript'
  BY <1>2, <1>3, CallsBehind
<1>5. ScriptShape'
  BY <1>1, DemoParts, DemoSizes DEF ScriptShape, Scenes
<1>6. PassInHand' /\ DemoVerdictIsTrue'
  BY <1>1, DemoParts DEF PassInHand, DemoVerdictIsTrue
<1>. QED BY <1>2, <1>3, <1>4, <1>5, <1>6 DEF DemoIInv, DemoPart

\* A run ends, or the next begins.
LEMMA RunEnds ==
  ASSUME DemoIInv, scene' = "none", item' = 0, awaiting' = {},
         UNCHANGED <<vars, disk, runs, inFlight, applied>>,
         printed' \subseteq Printout, DemoVerdictIsTrue'
  PROVE  DemoIInv'
<1>1. IInv' /\ spentCalls' = spentCalls
  BY DemoLedgerStays
<1>2. ScriptShape'
  BY DemoParts DEF ScriptShape, Scenes
<1>3. PlacesBehind' /\ PassInHand' /\ CallsOfScript'
  BY <1>1, DemoParts DEF PlacesBehind, PassInHand, CallsOfScript, Submitted
<1>. QED BY <1>1, <1>2, <1>3 DEF DemoIInv, DemoPart

\* A run starts: what earlier ones submitted is of earlier runs.
LEMMA StartDemoStep == ASSUME DemoIInv, StartDemo PROVE DemoIInv'
<1>1. /\ runs' = runs + 1 /\ runs' \in 1 .. Len(Drawn) /\ scene' = "list" /\ item' = 1
      /\ disk' \in {disk, fresh(Drawn[runs + 1].publisher)} /\ awaiting = {}
      /\ UNCHANGED <<vars, awaiting, inFlight, applied, printed>>
  BY DemoParts, DemoSizes DEF StartDemo, joined
<1>2. IInv' /\ spentCalls' = spentCalls
  BY <1>1, DemoLedgerStays
<1>3. disk' \in Private /\ (disk'.held = {} \/ \E p \in disk'.held : disk'.held = {p})
  <2>. DEFINE D == [publisher : Secrets, agent : Secrets, nonce : Nonces]
  <2>1. Drawn \in Seq(D)
    BY DemoAssumption
  <2>. HIDE DEF D
  <2>2. Drawn[runs + 1] \in D
    BY <1>1, <2>1
  <2>3. fresh(Drawn[runs + 1].publisher) \in Private /\ fresh(Drawn[runs + 1].publisher).held = {}
    BY <2>2 DEF D, fresh, Private
  <2>. QED BY <1>1, <2>3, DemoParts
<1>4. 1 \in DOMAIN CATALOG
  BY DemoSizes
<1>5. ScriptShape'
  BY <1>1, <1>3, <1>4, DemoParts DEF ScriptShape, Scenes
<1>6. Submitted' = Submitted /\ \A id \in Submitted : id[1] <= runs /\ id[1] \in Nat
  BY <1>1, SubmittedIds, DemoParts, DemoSizes DEF Submitted, PlacesBehind, Ids
<1>7. PlacesBehind'
  <2>1. \A id \in Submitted : id[1] <= runs + 1 /\ id[1] # runs + 1
    BY <1>6, DemoParts
  <2>. QED BY <1>1, <1>6, <2>1 DEF PlacesBehind
<1>8. PassInHand' /\ CallsOfScript' /\ DemoVerdictIsTrue'
  BY <1>1, <1>2, DemoParts DEF PassInHand, CallsOfScript, DemoVerdictIsTrue
<1>. QED BY <1>2, <1>5, <1>7, <1>8 DEF DemoIInv, DemoPart

\* A transaction goes out from where the run is.
LEMMA SendStep ==
  ASSUME DemoIInv, scene \in {"list", "bought", "spend", "attest"}, awaiting = {},
         NEW x \in Tx(Ids) \cup ListTx(Ids), x.id = here, send(x),
         x.action = "redeemCall" => x.calls < CALLS,
         scene = "spend" => x.action = "redeemCall" /\ x.pass = commitment /\ x.calls = item - 1
  PROVE  DemoIInv'
<1>1. /\ awaiting' = {here} /\ inFlight' = inFlight \cup {x}
      /\ UNCHANGED <<vars, disk, runs, scene, item, applied, printed>>
  BY DEF send
<1>2. IInv' /\ spentCalls' = spentCalls /\ here' = here
  BY <1>1, DemoLedgerStays DEF here
<1>3. Submitted' = Submitted \cup {here}
  BY <1>1 DEF Submitted
<1>4. PlacesBehind'
  <2>1. here[1] = runs /\ runs <= runs
    BY DemoParts DEF here
  <2>. QED BY <1>1, <1>2, <1>3, <2>1, DemoParts DEF PlacesBehind
<1>5. here \notin Submitted
  <2>1. Position(scene, item) \in Nat /\ here[1] = runs /\ here[2] = scene /\ here[3] = item
    BY DemoParts, PositionNat DEF here
  <2>. QED BY <2>1, DemoParts DEF PlacesBehind
<1>6. ScriptShape'
  BY <1>1, <1>2, DemoParts, DemoSizes DEF ScriptShape
<1>7. PassInHand' /\ DemoVerdictIsTrue'
  BY <1>1, <1>2, DemoParts DEF PassInHand, DemoVerdictIsTrue, callsMade, mine,
     onChain, commitment
<1>8. CallsOfScript'
  <2>1. here \notin applied /\ \A y \in inFlight : y.id # here
    BY <1>5 DEF Submitted
  <2>2. commitment' = commitment
    BY <1>1 DEF commitment, mine
  <2>. QED BY <1>1, <1>2, <2>1, <2>2, DemoParts DEF CallsOfScript
<1>. QED BY <1>2, <1>4, <1>6, <1>7, <1>8 DEF DemoIInv, DemoPart

\* A place of a run is an identifier.
LEMMA HereIsId == ASSUME DemoIInv, scene # "none" PROVE here \in Ids
<1>1. item \in 0 .. MaxUint + Len(CATALOG)
  BY DemoParts, DemoSizes
<1>. QED BY <1>1, DemoParts DEF here, Ids

\* A tool is listed.
LEMMA ListIt == ASSUME DemoIInv, List PROVE DemoIInv'
<1>. DEFINE x == [id |-> here, action |-> "registerTool", tool |-> CATALOG[item], sk |-> disk.sk]
<1>1. scene = "list" /\ awaiting = {} /\ send(x)
  BY DEF List
<1>2. here \in Ids /\ CATALOG[item] \in Tools /\ disk.sk \in Secrets
  BY <1>1, HereIsId, DemoParts, DemoSizes DEF Private
<1>3. x \in ListTx(Ids) /\ x.id = here /\ x.action # "redeemCall"
  BY <1>2 DEF ListTx
<1>. HIDE DEF x
<1>. QED BY <1>1, <1>3, SendStep

\* A circuit is called for the pass on the disk.
LEMMA CallStep == ASSUME DemoIInv, Call PROVE DemoIInv'
<1>. DEFINE index(p) == IF scene = "attest" THEN CALLS ELSE p.callsUsed
            c(p) == passCommitment(target, disk.sk, p.nonce)
            x(p) == proven(here, circuitOf(scene), c(p), index(p))
<1>1. scene \in {"bought", "spend", "attest"} /\ awaiting = {}
  BY DEF Call
<1>2. PICK p \in disk.held : circuitHolds(circuitOf(scene), c(p), DemoAuditor, index(p))
                             /\ send(x(p))
  BY DEF Call
<1>3. disk = [sk |-> mine.agent, held |-> {[nonce |-> mine.nonce, callsUsed |-> callsMade]}]
  BY <1>1, DemoParts DEF PassInHand
<1>4. c(p) = commitment /\ p.callsUsed = callsMade
  BY <1>2, <1>3 DEF commitment
<1>5. runs \in 1 .. Len(Drawn) /\ here \in Ids /\ commitment \in Pass
  BY <1>1, DemoParts, HereIsId, MineTyped
<1>6. index(p) \in 0 .. MaxUint /\ (scene = "spend" => index(p) = item - 1 /\ item - 1 < CALLS)
  <2>1. CASE scene = "bought"
    BY <2>1, <1>4, DemoSizes DEF callsMade
  <2>2. CASE scene = "spend"
    BY <2>2, <1>4, DemoParts, DemoSizes DEF callsMade
  <2>3. CASE scene = "attest"
    BY <2>3, DemoSizes
  <2>. QED BY <1>1, <2>1, <2>2, <2>3
<1>7. circuitOf(scene) \in Actions /\ (circuitOf(scene) = "redeemCall" <=> scene = "spend")
  BY <1>1 DEF circuitOf, Actions
<1>8. x(p) \in Tx(Ids)
  BY <1>2, <1>4, <1>5, <1>6, <1>7, ProvenTx DEF DemoIInv
<1>9. /\ x(p).id = here /\ x(p).action = circuitOf(scene) /\ x(p).pass = commitment
      /\ x(p).calls = index(p)
  BY <1>4 DEF proven
<1>. HIDE DEF x, index, c
<1>. QED BY <1>1, <1>2, <1>6, <1>7, <1>8, <1>9, SendStep

\* A purchase begins with a pass that has made no call.
LEMMA BuyStep == ASSUME DemoIInv, Buy PROVE DemoIInv'
<1>1. /\ scene = "buy" /\ scene' = "bought" /\ item' = 0 /\ awaiting = {} /\ item = 0
      /\ UNCHANGED <<vars, runs, awaiting, inFlight, applied, printed>>
      /\ runs \in 1 .. Len(Drawn)
  BY DemoParts DEF Buy, goOn
<1>2. disk' = [sk |-> mine.agent, held |-> {[nonce |-> mine.nonce, callsUsed |-> 0]}]
  BY DEF Buy, asAgent, fresh
<1>3. disk' \in Private /\ disk'.held = {[nonce |-> mine.nonce, callsUsed |-> 0]}
  BY <1>1, <1>2, MineTyped, DemoSizes DEF Private
<1>4. IInv' /\ spentCalls' = spentCalls
  BY <1>1, DemoLedgerStays
<1>5. Position(scene, item) < Position(scene', item')
  BY <1>1, DemoSizes DEF Position
<1>6. PlacesBehind' /\ here' \notin Submitted
  BY <1>1, <1>5, GoesBehind DEF Scenes
<1>7. CallsOfScript'
  BY <1>1, <1>4, <1>6, CallsBehind
<1>8. ScriptShape'
  BY <1>1, <1>3, DemoParts DEF ScriptShape, Scenes
<1>9. mine' = mine /\ callsMade' = 0
  BY <1>1 DEF mine, callsMade
<1>10. PassInHand' /\ DemoVerdictIsTrue'
  BY <1>1, <1>2, <1>9, DemoParts DEF PassInHand, DemoVerdictIsTrue
<1>. QED BY <1>4, <1>6, <1>7, <1>8, <1>10 DEF DemoIInv, DemoPart

\* An answered call advances the script by one place, and the counter by one
\* call that is on the ledger.
LEMMA ResolveStep == ASSUME DemoIInv, Resolve PROVE DemoIInv'
<1>1. /\ advance /\ awaiting' = {} /\ awaiting # {} /\ awaiting \subseteq applied
      /\ UNCHANGED <<vars, runs, inFlight, applied, printed>>
      /\ scene \in {"list", "bought", "spend", "attest"}
      /\ here \in applied /\ runs \in 1 .. Len(Drawn)
  BY DemoParts DEF Resolve, settled, Scenes
<1>2. CASE scene = "list"
  <2>1. nextTool /\ disk' = disk
    BY <1>2 DEF Resolve, advance
  <2>. QED BY <1>1, <1>2, <2>1, ListStep
<1>3. CASE scene \in {"bought", "spend", "attest"}
  <2>1. /\ scene' \in {"spend", "attest", "audit"} /\ item' \in Nat
        /\ scene' = "spend" => item' \in 1 .. CALLS
        /\ scene' # "spend" => item' = 0
        /\ Position(scene, item) < Position(scene', item')
        /\ callsMade' = IF scene = "spend" THEN callsMade + 1 ELSE callsMade
    <3>1. CASE scene = "bought"
      BY <3>1, <1>1, DemoSizes, DemoParts DEF advance, goOn, callsMade, Position
    <3>2. CASE scene = "spend" /\ item < CALLS
      BY <3>2, <1>1, DemoSizes, DemoParts DEF advance, goOn, callsMade, Position
    <3>3. CASE scene = "spend" /\ ~(item < CALLS)
      <4>1. item = CALLS
        BY <3>3, DemoSizes, DemoParts
      <4>. QED BY <4>1, <3>3, <1>1, DemoSizes, DemoParts DEF advance, goOn,
          callsMade, Position
    <3>4. CASE scene = "attest"
      BY <3>4, <1>1, DemoSizes, DemoParts DEF advance, goOn, callsMade, Position
    <3>. QED BY <1>3, <3>1, <3>2, <3>3, <3>4
  <2>2. PlacesBehind' /\ here' \notin Submitted
    BY <1>1, <2>1, GoesBehind DEF Scenes
  <2>3. IInv' /\ spentCalls' = spentCalls
    BY <1>1, DemoLedgerStays
  <2>4. CallsOfScript'
    BY <1>1, <2>2, <2>3, CallsBehind
  <2>5. mine' = mine /\ (\A i : onChain(i)' = onChain(i)) /\ callsMade \in Nat
    <3>1. mine' = mine
      BY <1>1 DEF mine
    <3>2. \A i : onChain(i)' = onChain(i)
      BY <3>1, <2>3 DEF onChain, commitment
    <3>. QED BY <3>1, <3>2, <1>3, DemoParts, DemoSizes DEF callsMade
  <2>6. disk = [sk |-> mine.agent, held |-> {[nonce |-> mine.nonce, callsUsed |-> callsMade]}]
        /\ \A i \in 0 .. callsMade - 1 : onChain(i)
    BY <1>3, DemoParts DEF PassInHand
  <2>7. disk' = [sk |-> mine.agent, held |-> {[nonce |-> mine.nonce, callsUsed |-> callsMade']}]
    <3>1. CASE scene = "spend"
      <4>1. disk' = [disk EXCEPT !.held = {[p EXCEPT !.callsUsed = @ + 1] : p \in disk.held}]
        BY <3>1 DEF Resolve
      <4>2. disk.held = {[nonce |-> mine.nonce, callsUsed |-> callsMade]}
        BY <2>6
      <4>3. {[p EXCEPT !.callsUsed = @ + 1] : p \in disk.held}
              = {[nonce |-> mine.nonce, callsUsed |-> callsMade + 1]}
        BY <4>2
      <4>. QED BY <4>1, <4>3, <3>1, <2>1, <2>6
    <3>2. CASE scene # "spend"
      BY <3>2, <2>1, <2>6 DEF Resolve
    <3>. QED BY <3>1, <3>2
  <2>8. \A i \in 0 .. callsMade' - 1 : onChain(i)
    <3>1. CASE scene = "spend"
      <4>1. onChain(item - 1) /\ callsMade = item - 1 /\ callsMade' = callsMade + 1
        BY <3>1, <1>1, <2>1, DemoParts DEF CallsOfScript, callsMade
      <4>2. \A i \in 0 .. callsMade' - 1 : i \in 0 .. callsMade - 1 \/ i = callsMade
        BY <4>1, <2>5
      <4>. QED BY <4>1, <4>2, <2>6
    <3>2. CASE scene # "spend"
      BY <3>2, <2>1, <2>6
    <3>. QED BY <3>1, <3>2
  <2>9. PassInHand'
    BY <2>1, <2>5, <2>7, <2>8 DEF PassInHand
  <2>10. disk' \in Private /\ disk'.held = {[nonce |-> mine.nonce, callsUsed |-> callsMade']}
    <3>1. callsMade' \in 0 .. MaxUint
      BY <2>1, DemoSizes DEF callsMade
    <3>. QED BY <3>1, <1>1, <2>7, MineTyped DEF Private
  <2>11. ScriptShape'
    BY <1>1, <2>1, <2>10, DemoParts DEF ScriptShape, Scenes
  <2>12. DemoVerdictIsTrue'
    BY <1>1, DemoParts DEF DemoVerdictIsTrue
  <2>. QED BY <2>2, <2>3, <2>4, <2>9, <2>11, <2>12 DEF DemoIInv, DemoPart
<1>. QED BY <1>1, <1>2, <1>3

\* The verdict: the tag matches, the calls are on the ledger, the next is not.
LEMMA AuditStep == ASSUME DemoIInv, Audit PROVE DemoIInv'
<1>1. /\ scene = "audit" /\ scene' = "none" /\ item' = 0 /\ awaiting = {}
      /\ UNCHANGED <<vars, disk, runs, awaiting, inFlight, applied>>
      /\ runs \in 1 .. Len(Drawn)
  BY DemoParts DEF Audit, goOn
<1>2. /\ disk = [sk |-> mine.agent, held |-> {[nonce |-> mine.nonce, callsUsed |-> CALLS]}]
      /\ \A i \in 0 .. CALLS - 1 : onChain(i)
  BY <1>1, DemoParts DEF PassInHand, callsMade
<1>3. attestedTag = {expectedTag}
  BY <1>2 DEF attestedTag, expectedTag, commitment
<1>4. ~onChain(CALLS)
  <2>1. \A n \in spentCalls : n.index < CALLS
    BY DemoParts DEF CallsOfScript
  <2>. QED BY <2>1, DemoSizes DEF onChain, callNullifier
<1>. DEFINE p == [run |-> runs, tagMatches |-> attestedTag = {expectedTag},
                  everyCallChecks |-> \A i \in 0 .. CALLS - 1 : onChain(i),
                  nextCallAbsent |-> ~onChain(CALLS)]
<1>5. printed' = printed \cup {p}
  BY DEF Audit
<1>6. p \in Printout /\ p.tagMatches /\ p.everyCallChecks /\ p.nextCallAbsent
  BY <1>1, <1>2, <1>3, <1>4 DEF Printout
<1>. HIDE DEF p
<1>7. printed' \subseteq Printout /\ DemoVerdictIsTrue'
  BY <1>5, <1>6, DemoParts DEF DemoVerdictIsTrue
<1>. QED BY <1>1, <1>7, RunEnds

\* A transaction is mined: a step of the contract.
LEMMA MinedStep == ASSUME DemoIInv, NEW x \in inFlight, Mined(x) PROVE DemoIInv'
<1>1. /\ inFlight' = inFlight \ {x} /\ applied' = applied \cup {x.id}
      /\ UNCHANGED <<disk, runs, scene, item, awaiting, printed>>
      /\ x \in Tx(Ids) \cup ListTx(Ids) /\ x.id \in Ids
  BY DemoParts DEF Mined, Tx, ListTx
<1>2. IInv' /\ IF x.action = "redeemCall"
               THEN spentCalls' = spentCalls \cup {callNullifier(x.pass, x.calls)}
               ELSE spentCalls' = spentCalls
  <2>1. CASE x \in ListTx(Ids)
    <3>1. registerTool(x.tool, DemoPrice, DemoQuota, x.sk) /\ x.action = "registerTool"
          /\ x.tool \in Tools /\ x.sk \in Secrets
      BY <2>1 DEF Mined, ListTx
    <3>2. Next /\ spentCalls' = spentCalls
      BY <3>1, DemoAssumption DEF Next, registerTool
    <3>. QED BY <3>1, <3>2, NextIInv DEF DemoIInv
  <2>2. CASE x \in Tx(Ids)
    <3>1. x.action # "registerTool" /\ Apply(x, DemoAuditor)
      BY <2>2 DEF Mined, Tx, Actions
    <3>2. Next
      BY <2>2, <3>1, ApplyIsStep, DemoAssumption
    <3>. QED BY <2>2, <3>1, <3>2, ApplySpends, NextIInv DEF DemoIInv
  <2>. QED BY <1>1, <2>1, <2>2
<1>3. Submitted' \subseteq Submitted /\ here' = here
  BY <1>1 DEF Submitted, here
<1>4. PlacesBehind'
  BY <1>1, <1>3, DemoParts DEF PlacesBehind
<1>5. spentCalls \subseteq spentCalls' /\ mine' = mine /\ commitment' = commitment /\ callsMade' = callsMade
  BY <1>1, <1>2 DEF mine, commitment, callsMade
<1>6. PassInHand' /\ DemoVerdictIsTrue'
  BY <1>1, <1>5, DemoParts DEF PassInHand, DemoVerdictIsTrue, onChain
<1>7. CallsOfScript'
  <2>1. \A n \in spentCalls' : n.index < CALLS
    <3>1. callNullifier(x.pass, x.calls).index = x.calls
      BY DEF callNullifier
    <3>. QED BY <3>1, <1>2, DemoParts DEF CallsOfScript
  <2>2. ASSUME scene = "spend", here \in applied \cup {x.id} PROVE onChain(item - 1)'
    <3>1. CASE here \in applied
      BY <3>1, <2>2, <1>1, <1>5, DemoParts DEF CallsOfScript, onChain
    <3>2. CASE here = x.id
      BY <3>2, <2>2, <1>1, <1>2, <1>5, DemoParts DEF CallsOfScript, onChain
    <3>. QED BY <2>2, <3>1, <3>2
  <2>3. \A y \in inFlight' : y \in inFlight
    BY <1>1
  <2>. QED BY <2>1, <2>2, <2>3, <1>1, <1>3, <1>5, DemoParts DEF CallsOfScript
<1>8. ScriptShape'
  BY <1>1, <1>3, DemoParts, DemoSizes DEF ScriptShape
<1>. QED BY <1>2, <1>4, <1>6, <1>7, <1>8 DEF DemoIInv, DemoPart

\* A transaction is rejected.
LEMMA RejectStep == ASSUME DemoIInv, NEW x \in inFlight, Reject(x) PROVE DemoIInv'
<1>1. /\ inFlight' = inFlight \ {x}
      /\ UNCHANGED <<vars, disk, runs, scene, item, awaiting, applied, printed>>
  BY DEF Reject
<1>2. IInv' /\ spentCalls' = spentCalls
  BY <1>1, DemoLedgerStays
<1>3. Submitted' \subseteq Submitted /\ here' = here
  BY <1>1 DEF Submitted, here
<1>4. PlacesBehind'
  BY <1>1, <1>3, DemoParts DEF PlacesBehind
<1>5. mine' = mine /\ commitment' = commitment /\ callsMade' = callsMade
  BY <1>1 DEF mine, commitment, callsMade
<1>6. PassInHand' /\ DemoVerdictIsTrue'
  BY <1>1, <1>2, <1>5, DemoParts DEF PassInHand, DemoVerdictIsTrue, onChain
<1>7. CallsOfScript'
  BY <1>1, <1>2, <1>3, <1>5, DemoParts DEF CallsOfScript, onChain
<1>8. ScriptShape'
  BY <1>1, <1>3, DemoParts, DemoSizes DEF ScriptShape
<1>. QED BY <1>2, <1>4, <1>6, <1>7, <1>8 DEF DemoIInv, DemoPart

\* Every step of the script keeps the invariant.
LEMMA DemoStep == DemoIInv /\ [DemoNext]_demoAll => DemoIInv'
<1>. SUFFICES ASSUME DemoIInv, [DemoNext]_demoAll PROVE DemoIInv'
  OBVIOUS
<1>1. CASE UNCHANGED demoAll
  <2>1. UNCHANGED <<vars, disk, runs, scene, item, awaiting, inFlight, applied, printed>>
    BY <1>1 DEF demoAll, demoVars
  <2>2. IInv' /\ spentCalls' = spentCalls
    BY <2>1, DemoLedgerStays
  <2>3. Submitted' = Submitted /\ here' = here /\ mine' = mine /\ commitment' = commitment
        /\ callsMade' = callsMade
    BY <2>1 DEF Submitted, here, mine, commitment, callsMade
  <2>4. PlacesBehind' /\ PassInHand' /\ DemoVerdictIsTrue'
    BY <2>1, <2>2, <2>3, DemoParts DEF PlacesBehind, PassInHand,
       DemoVerdictIsTrue, onChain
  <2>5. CallsOfScript'
    BY <2>1, <2>2, <2>3, DemoParts DEF CallsOfScript, onChain
  <2>6. ScriptShape'
    BY <2>1, <2>3, DemoParts, DemoSizes DEF ScriptShape
  <2>. QED BY <2>2, <2>4, <2>5, <2>6 DEF DemoIInv, DemoPart
<1>2. CASE Skip
  <2>1. scene = "list" /\ nextTool /\ awaiting' = {}
        /\ UNCHANGED <<vars, disk, runs, inFlight, applied, printed>>
    BY <1>2 DEF Skip
  <2>. QED BY <2>1, ListStep
<1>3. CASE Leave
  <2>1. /\ scene' = "none" /\ item' = 0 /\ awaiting' = {}
        /\ UNCHANGED <<vars, disk, runs, inFlight, applied, printed>>
    BY <1>3 DEF Leave, goOn
  <2>2. printed' \subseteq Printout /\ DemoVerdictIsTrue'
    BY <2>1, DemoParts DEF DemoVerdictIsTrue
  <2>. QED BY <2>1, <2>2, RunEnds
<1>. QED BY <1>1, <1>2, <1>3, StartDemoStep, ListIt, BuyStep, CallStep,
    ResolveStep, AuditStep,
            MinedStep, RejectStep DEF DemoNext

\* A demo that reaches its end prints three times yes, whatever an earlier run
\* left under way, for any catalog and number of calls (main.ts, step 4).
THEOREM DemoHolds == DemoSpec => []DemoInv
<1>1. DemoIInv => DemoInv
  <2>. SUFFICES ASSUME DemoIInv PROVE DemoInv
    OBVIOUS
  <2>1. Cardinality(disk.held) <= 1
    BY DemoParts, OneAtMost
  <2>2. DOMAIN CATALOG = 1 .. Len(CATALOG)
    BY DemoSizes
  <2>. QED BY <2>1, <2>2, DemoParts DEF DemoInv, DemoTypeOK
<1>. QED BY <1>1, DemoInitially, DemoStep, PTL DEF DemoSpec

-----------------------------------------------------------------------------
(***************************************************************************)
(* AlgorandFunding.                                                        *)
(*                                                                         *)
(* Beside the promises the invariant keeps that an opt-in under way is of  *)
(* an account nobody was told of, and that an agent that is being topped   *)
(* up holds no more than what it was given otherwise.                      *)
(***************************************************************************)
Txn == [kind : {"optin", "algo", "usdc"}, from : Holders, to : Holders, amount : Nat,
        by : {"optin", "fund", "demo"},
        status : {"pending", "confirmed", "dropped", "refused"}]

Draft == [kind : {"none", "optin", "algo", "usdc"}, from : Holders, to : Holders,
          amount : Nat]

Script == [name : {"none", "optin", "fund", "demo"},
           at : {"none", "sending", "waiting", "end", "roles", "opting", "algo", "usdc",
                 "reading", "paying"},
           todo : SUBSET Holders, algo : SUBSET Nat, usdc : SUBSET Nat, tx : Draft]

FundingTypes ==
  /\ algo \in [Holders -> Nat] /\ usdc \in [Holders -> Nat]
  /\ optedIn \subseteq Holders /\ faucet \subseteq Holders
  /\ txns \in Seq(Txn) /\ Len(txns) <= MaxTransfers
  /\ script \in Script
  /\ reported \subseteq DOMAIN txns

\* Where a script is tells which it is and what it is about to send.
ScriptIsReady ==
  /\ script.at \in {"roles", "opting"} => script.name = "optin"
  /\ script.at \in {"algo", "usdc"} => script.name = "fund"
  /\ script.at \in {"reading", "paying"} => script.name = "demo"
  /\ script.at = "sending" =>
       /\ script.name # "none" /\ script.tx.kind # "none"
       /\ script.name = "demo" => script.tx.amount <= TOP_UP
  /\ script.at = "waiting" => txns # <<>> /\ txns[Len(txns)].by = script.name

TopUpsAreBounded ==
  \A i \in DOMAIN txns : txns[i].by = "demo" => txns[i].amount <= TOP_UP

OptInsAreIn ==
  \A i \in DOMAIN txns :
    txns[i].kind = "optin" /\ txns[i].status = "confirmed" => txns[i].from \in optedIn

NoOptInIsRepeated ==
  script.at = "sending" /\ script.tx.kind = "optin" =>
    \A i \in reported : txns[i].kind = "optin" => txns[i].from # script.tx.from

\* What the agent was given, reported top-ups aside.
counted(ts, h, those) ==
  {i \in DOMAIN ts : ts[i].to = h /\ ts[i].kind = "usdc"
     /\ ts[i].status = "confirmed" /\ i \in those}

credited(ts, h, those) ==
  SumFunctionOnSet([i \in DOMAIN ts |-> ts[i].amount], counted(ts, h, those))

demosOf(ts) == {i \in DOMAIN ts : ts[i].by = "demo"}

extra(ts, r, f) ==
  credited(ts, Buyer, demosOf(ts) \ r)
    + (credited(ts, Buyer, DOMAIN ts \ demosOf(ts))
         + (IF Buyer \in f THEN FaucetUsdc ELSE 0))

AgentHoldsOne == usdc[Buyer] <= TOP_UP + extra(txns, reported, faucet)

\* A top-up is sent to an agent that held nothing when its script looked.
AgentHeldNothing ==
  script.name = "demo" /\ script.at \in {"sending", "waiting"} =>
    usdc[Buyer] <= extra(txns, reported, faucet)

FundingIInv ==
  /\ FundingTypes
  /\ ScriptIsReady
  /\ TopUpsAreBounded
  /\ ReportedIsOnChain
  /\ OptInsAreIn
  /\ NoOptInIsRepeated
  /\ OptedInOnce
  /\ AgentHoldsOne
  /\ AgentHeldNothing

-----------------------------------------------------------------------------
LEMMA TxnFields ==
  ASSUME NEW ts \in Seq(Txn)
  PROVE  \A i \in DOMAIN ts :
           /\ ts[i].kind \in {"optin", "algo", "usdc"}
           /\ ts[i].from \in Holders /\ ts[i].to \in Holders /\ ts[i].amount \in Nat
           /\ ts[i].by \in {"optin", "fund", "demo"}
           /\ ts[i].status \in {"pending", "confirmed", "dropped", "refused"}
<1>1. \A i \in DOMAIN ts : ts[i] \in Txn
  OBVIOUS
<1>. QED BY <1>1 DEF Txn

LEMMA CreditedType ==
  ASSUME NEW ts \in Seq(Txn), NEW h, NEW those
  PROVE  /\ IsFiniteSet(counted(ts, h, those))
         /\ \A i \in counted(ts, h, those) : ts[i].amount \in Nat
         /\ credited(ts, h, those) \in Nat
<1>. DEFINE F == [i \in DOMAIN ts |-> ts[i].amount]
            S == counted(ts, h, those)
<1>1. S \subseteq DOMAIN ts
  BY DEF counted
<1>2. IsFiniteSet(DOMAIN ts)
  <2>1. DOMAIN ts = 1 .. Len(ts) /\ Len(ts) \in Nat
    OBVIOUS
  <2>. QED BY <2>1, FS_Interval
<1>. HIDE DEF S
<1>3. IsFiniteSet(S)
  BY <1>1, <1>2, FS_Subset
<1>4. \A i \in S : F[i] = ts[i].amount /\ ts[i].amount \in Nat
  BY <1>1, TxnFields
<1>5. SumFunctionOnSet(F, S) \in Nat
  <2>. HIDE DEF F
  <2>. QED BY <1>3, <1>4, SumProperties
<1>. QED BY <1>3, <1>4, <1>5 DEF S, credited

LEMMA CreditedSame ==
  ASSUME NEW ts \in Seq(Txn), NEW us \in Seq(Txn), NEW h, NEW those, NEW others,
         counted(us, h, others) = counted(ts, h, those),
         \A i \in counted(ts, h, those) : us[i].amount = ts[i].amount
  PROVE  credited(us, h, others) = credited(ts, h, those)
<1>. DEFINE F == [i \in DOMAIN ts |-> ts[i].amount]
            G == [i \in DOMAIN us |-> us[i].amount]
            S == counted(ts, h, those)
<1>1. S \subseteq DOMAIN ts /\ S \subseteq DOMAIN us
  BY DEF counted
<1>2. IsFiniteSet(S) /\ \A i \in S : ts[i].amount \in Nat
  BY CreditedType
<1>3. \A i \in S : F[i] \in Nat /\ G[i] = F[i]
  BY <1>1, <1>2
<1>. HIDE DEF F, G, S
<1>4. SumFunctionOnSet(F, S) = SumFunctionOnSet(G, S)
  BY <1>2, <1>3, SumSame
<1>. QED BY <1>4 DEF credited, F, G, S

LEMMA CreditedOneMore ==
  ASSUME NEW ts \in Seq(Txn), NEW us \in Seq(Txn), NEW h, NEW those, NEW others,
         NEW i \in DOMAIN us, i \notin counted(ts, h, those),
         counted(us, h, others) = counted(ts, h, those) \cup {i},
         \A j \in counted(ts, h, those) : us[j].amount = ts[j].amount
  PROVE  credited(us, h, others) = us[i].amount + credited(ts, h, those)
<1>. DEFINE F == [j \in DOMAIN ts |-> ts[j].amount]
            G == [j \in DOMAIN us |-> us[j].amount]
            S == counted(ts, h, those)
            T == counted(us, h, others)
<1>1. S \subseteq DOMAIN ts /\ T \subseteq DOMAIN us /\ T = S \cup {i} /\ i \notin S
  BY DEF counted
<1>2. IsFiniteSet(S) /\ (\A j \in S : ts[j].amount \in Nat)
      /\ IsFiniteSet(T) /\ \A j \in T : us[j].amount \in Nat
  BY CreditedType
<1>3. \A j \in S : F[j] \in Nat /\ G[j] = F[j]
  BY <1>1, <1>2
<1>4. (\A j \in T : G[j] \in Nat) /\ G[i] = us[i].amount
  BY <1>1, <1>2
<1>. HIDE DEF F, G, S, T
<1>5. SumFunctionOnSet(F, S) = SumFunctionOnSet(G, S)
  BY <1>2, <1>3, SumSame
<1>6. i \in T /\ S = T \ {i}
  BY <1>1
<1>7. SumFunctionOnSet(G, T) = G[i] + SumFunctionOnSet(G, S)
  BY <1>2, <1>4, <1>6, SumProperties
<1>. QED BY <1>4, <1>5, <1>7 DEF credited, F, G, S, T

LEMMA ExtraType ==
  ASSUME NEW ts \in Seq(Txn), NEW r, NEW f PROVE extra(ts, r, f) \in Nat
<1>1. credited(ts, Buyer, demosOf(ts) \ r) \in Nat
      /\ credited(ts, Buyer, DOMAIN ts \ demosOf(ts)) \in Nat
  BY CreditedType
<1>. QED BY <1>1, FundingAssumption DEF extra

LEMMA ExtraIsMeant ==
  ASSUME FundingTypes PROVE AgentHoldsOne => OneTopUpAtATime
<1>1. credited(txns, Buyer, demosOf(txns) \ reported) \in Nat
      /\ credited(txns, Buyer, DOMAIN txns \ demosOf(txns)) \in Nat
  BY CreditedType DEF FundingTypes
<1>2. \A those : amountsTo(Buyer, those) = credited(txns, Buyer, those)
  BY DEF amountsTo, credited, counted
<1>3. usdc[Buyer] \in Nat /\ TOP_UP \in Nat
  BY FundingAssumption DEF FundingTypes
<1>. QED BY <1>1, <1>2, <1>3, FundingAssumption
     DEF AgentHoldsOne, OneTopUpAtATime, extra, demosOf

-----------------------------------------------------------------------------
LEMMA FundingInitial == FundingInit => FundingIInv
<1>1. SUFFICES ASSUME FundingInit PROVE FundingIInv
  OBVIOUS
<1>2. txns = <<>> /\ txns \in Seq(Txn) /\ DOMAIN txns = {} /\ Len(txns) = 0 /\ reported = {}
  BY <1>1 DEF FundingInit
<1>3. script \in Script /\ script.at = "none"
  BY <1>1, FundingAssumption DEF FundingInit, noScript, noTxn, Script, Draft
<1>4. algo \in [Holders -> Nat] /\ usdc \in [Holders -> Nat] /\ usdc[Buyer] = 0
  BY <1>1, FundingAssumption DEF FundingInit
<1>5. FundingTypes
  BY <1>1, <1>2, <1>3, <1>4, FundingAssumption DEF FundingInit, FundingTypes
<1>6. extra(txns, reported, faucet) \in Nat
  BY <1>2, ExtraType
<1>7. AgentHoldsOne /\ AgentHeldNothing
  BY <1>4, <1>6, FundingAssumption DEF AgentHoldsOne, AgentHeldNothing
<1>. QED BY <1>2, <1>3, <1>5, <1>7
     DEF FundingIInv, ScriptIsReady, TopUpsAreBounded, ReportedIsOnChain, OptInsAreIn,
         NoOptInIsRepeated, OptedInOnce

\* A step of a script that moves nothing.
LEMMA ScriptStep ==
  ASSUME FundingIInv, UNCHANGED <<algo, usdc, optedIn, faucet, txns, reported>>,
         script' \in Script, ScriptIsReady', NoOptInIsRepeated', AgentHeldNothing'
  PROVE  FundingIInv'
BY DEF FundingIInv, FundingTypes, TopUpsAreBounded, ReportedIsOnChain, OptInsAreIn,
       OptedInOnce, AgentHoldsOne

LEMMA ScriptMoves ==
  ASSUME FundingIInv, UNCHANGED <<algo, usdc, optedIn, faucet, txns, reported>>,
         script' \in Script, script'.at \notin {"sending", "waiting"}, ScriptIsReady'
  PROVE  FundingIInv'
BY ScriptStep DEF NoOptInIsRepeated, AgentHeldNothing

LEMMA NoScriptIsScript == noScript \in Script /\ noScript.at = "none"
BY FundingAssumption DEF noScript, noTxn, Script, Draft

LEMMA ScriptEnds ==
  ASSUME FundingIInv, UNCHANGED <<algo, usdc, optedIn, faucet, txns, reported>>,
         script' = noScript
  PROVE  FundingIInv'
<1>1. ScriptIsReady'
  BY NoScriptIsScript DEF ScriptIsReady
<1>. QED BY <1>1, NoScriptIsScript, ScriptMoves

LEMMA ScriptStarts ==
  ASSUME FundingIInv, NEW new \in Script, starts(new),
         new.at \in {"roles", "algo", "usdc", "reading"},
         new.at = "roles" => new.name = "optin",
         new.at \in {"algo", "usdc"} => new.name = "fund",
         new.at = "reading" => new.name = "demo"
  PROVE  FundingIInv'
<1>1. UNCHANGED <<algo, usdc, optedIn, faucet, txns, reported>> /\ script' = new
  BY DEF starts, balances
<1>2. ScriptIsReady'
  BY <1>1 DEF ScriptIsReady
<1>. QED BY <1>1, <1>2, ScriptMoves

LEMMA StartOptInStep ==
  ASSUME FundingIInv, NEW roles \in SUBSET Holders, StartOptIn(roles) PROVE FundingIInv'
<1>. DEFINE new == [noScript EXCEPT !.name = "optin", !.at = "roles", !.todo = roles]
<1>1. new \in Script /\ new.at = "roles" /\ new.name = "optin"
  BY NoScriptIsScript DEF Script
<1>2. starts(new)
  BY DEF StartOptIn
<1>. HIDE DEF new
<1>. QED BY <1>1, <1>2, ScriptStarts

LEMMA StartFundStep ==
  ASSUME FundingIInv, NEW route \in Routes, NEW algos \in option(FundAlgo),
         NEW usdcs \in option(FundUsdc), StartFund(route[1], route[2], algos, usdcs)
  PROVE  FundingIInv'
<1>. DEFINE at  == IF algos # {} THEN "algo" ELSE "usdc"
            new == [noScript EXCEPT !.name = "fund", !.algo = algos, !.usdc = usdcs,
                      !.at = at, !.tx.from = route[1], !.tx.to = route[2]]
<1>1. route[1] \in Holders /\ route[2] \in Holders
      /\ algos \in SUBSET Nat /\ usdcs \in SUBSET Nat
  BY FundingAssumption DEF option
<1>2. at \in {"algo", "usdc"}
  OBVIOUS
<1>3. new \in Script /\ new.at = at /\ new.name = "fund"
  BY <1>1, <1>2, NoScriptIsScript DEF Script, Draft
<1>4. starts(new)
  BY DEF StartFund
<1>. HIDE DEF at, new
<1>. QED BY <1>2, <1>3, <1>4, ScriptStarts

LEMMA StartDemoScriptStep ==
  ASSUME FundingIInv, StartDemoScript PROVE FundingIInv'
<1>. DEFINE new == [noScript EXCEPT !.name = "demo", !.at = "reading"]
<1>1. new \in Script /\ new.at = "reading" /\ new.name = "demo"
  BY NoScriptIsScript DEF Script
<1>2. starts(new)
  BY DEF StartDemoScript
<1>. HIDE DEF new
<1>. QED BY <1>1, <1>2, ScriptStarts

LEMMA CheckOptInStep ==
  ASSUME FundingIInv, NEW h \in Holders, CheckOptIn(h) PROVE FundingIInv'
<1>1. script \in Script /\ ScriptIsReady
  BY DEF FundingIInv, FundingTypes
<1>2. script.at = "roles" /\ script.name = "optin"
  BY <1>1 DEF CheckOptIn, ScriptIsReady
<1>3. UNCHANGED <<algo, usdc, optedIn, faucet, txns, reported>>
  BY DEF CheckOptIn, balances
<1>4. script' = [script EXCEPT !.todo = @ \ {h}, !.tx.from = h,
          !.at = IF alreadyIn(h) \/ algo[h] < MIN_ALGO_FOR_OPTIN THEN @ ELSE "opting"]
  BY DEF CheckOptIn
<1>5. script' \in Script /\ script'.at \in {"roles", "opting"} /\ script'.name = "optin"
  BY <1>1, <1>2, <1>4 DEF Script, Draft
<1>6. ScriptIsReady'
  BY <1>5 DEF ScriptIsReady
<1>. QED BY <1>3, <1>5, <1>6, ScriptMoves

LEMMA OptInStep ==
  ASSUME FundingIInv, OptIn PROVE FundingIInv'
<1>. DEFINE h == script.tx.from
<1>1. script \in Script /\ ScriptIsReady /\ script.at = "opting" /\ script.name = "optin"
  BY DEF FundingIInv, FundingTypes, OptIn, ScriptIsReady
<1>2. UNCHANGED <<algo, usdc, optedIn, faucet, txns, reported>>
  BY DEF OptIn, balances
<1>3. CASE alreadyIn(h)
  <2>1. script' = [script EXCEPT !.at = "roles"]
    BY <1>3 DEF OptIn, become
  <2>2. script' \in Script /\ script'.at = "roles" /\ script'.name = "optin"
    BY <1>1, <2>1 DEF Script
  <2>3. ScriptIsReady'
    BY <2>2 DEF ScriptIsReady
  <2>. QED BY <1>2, <2>2, <2>3, ScriptMoves
<1>4. CASE ~alreadyIn(h)
  <2>. DEFINE tx == [kind |-> "optin", from |-> h, to |-> h, amount |-> 0]
  <2>1. script' = [script EXCEPT !.at = "sending", !.tx = tx]
    BY <1>4 DEF OptIn
  <2>2. h \in Holders /\ tx \in Draft
    BY <1>1 DEF Script, Draft
  <2>3. script' \in Script /\ script'.at = "sending" /\ script'.name = "optin"
        /\ script'.tx.kind = "optin" /\ script'.tx.from = h
    BY <1>1, <2>1, <2>2 DEF Script
  <2>4. ScriptIsReady' /\ AgentHeldNothing'
    BY <2>3 DEF ScriptIsReady, AgentHeldNothing
  <2>5. NoOptInIsRepeated'
    <3>1. \A i \in reported : txns[i].kind = "optin" => txns[i].from \in optedIn
      BY DEF FundingIInv, FundingTypes, ReportedIsOnChain, OptInsAreIn
    <3>. QED BY <3>1, <1>2, <1>4, <2>3 DEF NoOptInIsRepeated, alreadyIn
  <2>. QED BY <1>2, <2>3, <2>4, <2>5, ScriptStep
<1>. QED BY <1>3, <1>4

\* A transfer is about to be sent.
LEMMA Sends ==
  ASSUME FundingIInv, UNCHANGED <<algo, usdc, optedIn, faucet, txns, reported>>,
         NEW tx \in Draft, sends(tx), tx.kind \in {"algo", "usdc"},
         script.name # "none",
         script.name = "demo" =>
           tx.amount <= TOP_UP /\ usdc[Buyer] = 0
  PROVE  FundingIInv'
<1>1. script \in Script /\ txns \in Seq(Txn)
  BY DEF FundingIInv, FundingTypes
<1>2. script' = [script EXCEPT !.tx = tx, !.at = "sending"]
  BY DEF sends
<1>3. script' \in Script /\ script'.at = "sending" /\ script'.name = script.name
      /\ script'.tx = tx
  BY <1>1, <1>2 DEF Script
<1>4. ScriptIsReady'
  BY <1>3 DEF ScriptIsReady
<1>5. NoOptInIsRepeated'
  BY <1>3 DEF NoOptInIsRepeated
<1>6. AgentHeldNothing'
  <2>1. extra(txns, reported, faucet) \in Nat
    BY <1>1, ExtraType
  <2>2. SUFFICES ASSUME script.name = "demo"
                 PROVE  usdc'[Buyer] <= extra(txns', reported', faucet')
    BY <1>3 DEF AgentHeldNothing
  <2>. QED BY <2>1, <2>2
<1>. QED BY <1>3, <1>4, <1>5, <1>6, ScriptStep

LEMMA FundWithAlgoStep ==
  ASSUME FundingIInv, NEW sum \in script.algo, FundWithAlgo(sum) PROVE FundingIInv'
<1>1. script \in Script /\ script.name = "fund" /\ sum \in Nat /\ script.tx \in Draft
      /\ UNCHANGED <<algo, usdc, optedIn, faucet, txns, reported>>
  BY DEF FundingIInv, FundingTypes, ScriptIsReady, FundWithAlgo, balances, Script
<1>2. CASE script' = noScript
  BY <1>1, <1>2, ScriptEnds
<1>3. CASE sends([script.tx EXCEPT !.kind = "algo", !.amount = sum])
  <2>. DEFINE tx == [script.tx EXCEPT !.kind = "algo", !.amount = sum]
  <2>1. tx \in Draft /\ tx.kind = "algo"
    BY <1>1 DEF Draft
  <2>. HIDE DEF tx
  <2>2. sends(tx)
    BY <1>3 DEF tx
  <2>. QED BY <1>1, <2>1, <2>2, Sends
<1>. QED BY <1>2, <1>3 DEF FundWithAlgo

LEMMA FundWithUsdcStep ==
  ASSUME FundingIInv, NEW sum \in script.usdc, FundWithUsdc(sum) PROVE FundingIInv'
<1>1. script \in Script /\ script.name = "fund" /\ sum \in Nat /\ script.tx \in Draft
      /\ UNCHANGED <<algo, usdc, optedIn, faucet, txns, reported>>
  BY DEF FundingIInv, FundingTypes, ScriptIsReady, FundWithUsdc, balances, Script
<1>2. CASE script' = noScript
  BY <1>1, <1>2, ScriptEnds
<1>3. CASE sends([script.tx EXCEPT !.kind = "usdc", !.amount = sum])
  <2>. DEFINE tx == [script.tx EXCEPT !.kind = "usdc", !.amount = sum]
  <2>1. tx \in Draft /\ tx.kind = "usdc"
    BY <1>1 DEF Draft
  <2>. HIDE DEF tx
  <2>2. sends(tx)
    BY <1>3 DEF tx
  <2>. QED BY <1>1, <2>1, <2>2, Sends
<1>. QED BY <1>2, <1>3 DEF FundWithUsdc

LEMMA TopUpStep ==
  ASSUME FundingIInv, TopUp PROVE FundingIInv'
<1>1. script \in Script /\ script.name = "demo" /\ usdc \in [Holders -> Nat]
      /\ UNCHANGED <<algo, usdc, optedIn, faucet, txns, reported>>
  BY DEF FundingIInv, FundingTypes, ScriptIsReady, TopUp, balances
<1>. DEFINE part == IF usdc[Treasury] < TOP_UP THEN usdc[Treasury] ELSE TOP_UP
            tx == [kind |-> "usdc", from |-> Treasury, to |-> Buyer, amount |-> part]
<1>2. CASE script' = noScript
  BY <1>1, <1>2, ScriptEnds
<1>3. CASE needsTopUp /\ sends(tx)
  <2>1. usdc[Buyer] = 0 /\ usdc[Treasury] \in Nat /\ TOP_UP \in Nat
    BY <1>1, <1>3, FundingAssumption DEF needsTopUp
  <2>2. part \in Nat /\ part <= TOP_UP
    BY <2>1
  <2>. HIDE DEF part
  <2>3. tx \in Draft /\ tx.kind = "usdc" /\ tx.amount = part
    BY <2>2, FundingAssumption DEF Draft
  <2>. HIDE DEF tx
  <2>. QED BY <1>1, <1>3, <2>1, <2>2, <2>3, Sends
<1>4. CASE script' = [script EXCEPT !.at = "paying"]
  <2>1. script' \in Script /\ script'.at = "paying" /\ script'.name = "demo"
    BY <1>1, <1>4 DEF Script
  <2>2. ScriptIsReady'
    BY <2>1 DEF ScriptIsReady
  <2>. QED BY <1>1, <2>1, <2>2, ScriptMoves
<1>. QED BY <1>2, <1>3, <1>4 DEF TopUp, become

LEMMA GiveUpWaitingStep ==
  ASSUME FundingIInv, GiveUpWaiting PROVE FundingIInv'
BY ScriptEnds DEF GiveUpWaiting, balances

LEMMA EndScriptStep ==
  ASSUME FundingIInv, EndScript PROVE FundingIInv'
BY ScriptEnds DEF EndScript, balances

\* The top-up of demo.ts is reported: what the agent holds was counted.
LEMMA AwaitStep ==
  ASSUME FundingIInv, Await PROVE FundingIInv'
<1>. DEFINE n == Len(txns)
<1>1. /\ script \in Script /\ ScriptIsReady /\ txns \in Seq(Txn) /\ usdc[Buyer] \in Nat
      /\ reported \subseteq DOMAIN txns /\ script.at = "waiting"
      /\ txns # <<>> /\ txns[n].by = script.name
  BY FundingAssumption DEF FundingIInv, FundingTypes, ScriptIsReady, Await
<1>2. /\ UNCHANGED <<algo, usdc, optedIn, faucet, txns>>
      /\ reported' = reported \cup {n} /\ txns[n].status = "confirmed"
      /\ script' = [script EXCEPT !.at = following]
  BY DEF Await, balances, confirmed, become
<1>3. n \in DOMAIN txns /\ DOMAIN txns = 1 .. n
  BY <1>1
<1>4. txns[n].amount \in Nat /\ txns[n].by \in {"optin", "fund", "demo"}
  BY <1>1, <1>3, TxnFields
<1>5. following \in {"roles", "usdc", "paying", "end"}
      /\ (following = "roles" => script.name = "optin")
      /\ (following = "usdc" => script.name = "fund")
      /\ (following = "paying" => script.name = "demo")
  BY SMTT(30) DEF following
<1>6. script' \in Script /\ script'.at = following /\ script'.name = script.name
  BY <1>1, <1>2, <1>5 DEF Script
<1>7. ScriptIsReady' /\ NoOptInIsRepeated' /\ AgentHeldNothing'
  BY <1>5, <1>6 DEF ScriptIsReady, NoOptInIsRepeated, AgentHeldNothing
<1>8. FundingTypes'
  BY <1>2, <1>3, <1>6 DEF FundingIInv, FundingTypes
<1>9. TopUpsAreBounded' /\ ReportedIsOnChain' /\ OptInsAreIn'
  BY <1>2 DEF FundingIInv, TopUpsAreBounded, ReportedIsOnChain, OptInsAreIn
<1>10. OptedInOnce'
  <2>1. \A j \in DOMAIN txns : ~(n < j)
    BY <1>1, <1>3
  <2>. QED BY <2>1, <1>2 DEF FundingIInv, OptedInOnce
<1>11. AgentHoldsOne'
  <2>. DEFINE late == demosOf(txns) \ reported
  <2>1. AgentHoldsOne /\ AgentHeldNothing /\ TopUpsAreBounded
    BY DEF FundingIInv
  <2>2. TOP_UP \in Nat
    BY FundingAssumption
  <2>3. extra(txns, reported, faucet) \in Nat /\ extra(txns, reported', faucet) \in Nat
    BY <1>1, ExtraType
  <2>4. CASE n \notin counted(txns, Buyer, late)
    <3>1. counted(txns, Buyer, demosOf(txns) \ reported') = counted(txns, Buyer, late)
      BY <1>2, <2>4 DEF counted
    <3>2. credited(txns, Buyer, demosOf(txns) \ reported') = credited(txns, Buyer, late)
      BY <1>1, <3>1, CreditedSame
    <3>3. extra(txns, reported', faucet) = extra(txns, reported, faucet)
      BY <3>2 DEF extra
    <3>. QED BY <3>3, <2>1, <1>2 DEF AgentHoldsOne
  <2>5. CASE n \in counted(txns, Buyer, late)
    <3>1. txns[n].by = "demo" /\ n \notin reported
      BY <2>5 DEF counted, demosOf
    <3>2. usdc[Buyer] <= extra(txns, reported, faucet)
      BY <1>1, <2>1, <3>1 DEF AgentHeldNothing
    <3>3. txns[n].amount <= TOP_UP
      BY <2>1, <1>3, <3>1 DEF TopUpsAreBounded
    <3>4. counted(txns, Buyer, late)
             = counted(txns, Buyer, demosOf(txns) \ reported') \cup {n}
          /\ n \notin counted(txns, Buyer, demosOf(txns) \ reported')
      BY <1>2, <2>5 DEF counted
    <3>5. credited(txns, Buyer, late)
            = txns[n].amount + credited(txns, Buyer, demosOf(txns) \ reported')
      <4>. DEFINE rest == demosOf(txns) \ reported'
      <4>1. counted(txns, Buyer, late) = counted(txns, Buyer, rest) \cup {n}
            /\ n \notin counted(txns, Buyer, rest)
        BY <3>4
      <4>. HIDE DEF rest, late, n
      <4>2. \A j \in counted(txns, Buyer, rest) : txns[j].amount = txns[j].amount
        OBVIOUS
      <4>3. credited(txns, Buyer, late) = txns[n].amount + credited(txns, Buyer, rest)
        BY <1>1, <1>3, <4>1, <4>2, CreditedOneMore
      <4>. QED BY <4>3 DEF rest
    <3>6. credited(txns, Buyer, demosOf(txns) \ reported') \in Nat
          /\ credited(txns, Buyer, DOMAIN txns \ demosOf(txns)) \in Nat
      BY <1>1, CreditedType
    <3>7. extra(txns, reported, faucet) = txns[n].amount + extra(txns, reported', faucet)
      BY <3>5, <3>6, <1>4, FundingAssumption DEF extra
    <3>8. usdc[Buyer] <= TOP_UP + extra(txns, reported', faucet)
      BY <3>2, <3>3, <3>7, <2>2, <2>3, <1>1, <1>4
    <3>. QED BY <3>8, <1>2 DEF AgentHoldsOne
  <2>. QED BY <2>4, <2>5
<1>. QED BY <1>7, <1>8, <1>9, <1>10, <1>11 DEF FundingIInv

\* A transaction that is not confirmed credits nobody.
LEMMA SubmitTxnStep ==
  ASSUME FundingIInv, SubmitTxn PROVE FundingIInv'
<1>. DEFINE tx  == script.tx
            new == [kind |-> tx.kind, from |-> tx.from, to |-> tx.to, amount |-> tx.amount,
                    by |-> script.name,
                    status |-> IF valid(tx) THEN "pending" ELSE "refused"]
            n   == Len(txns) + 1
<1>1. /\ FundingTypes /\ ScriptIsReady /\ TopUpsAreBounded /\ ReportedIsOnChain /\ OptInsAreIn
      /\ NoOptInIsRepeated /\ OptedInOnce /\ AgentHoldsOne /\ AgentHeldNothing
  BY DEF FundingIInv
<1>2. /\ script.at = "sending" /\ Len(txns) < MaxTransfers
      /\ txns' = Append(txns, new)
      /\ UNCHANGED <<algo, usdc, optedIn, faucet, reported>>
      /\ IF valid(tx) THEN script' = [script EXCEPT !.at = "waiting"] ELSE script' = noScript
  BY DEF SubmitTxn, balances, become
<1>3. /\ script \in Script /\ txns \in Seq(Txn) /\ reported \subseteq DOMAIN txns
  BY <1>1 DEF FundingTypes
<1>4. /\ tx \in Draft /\ script.name \in {"optin", "fund", "demo"}
      /\ tx.kind \in {"optin", "algo", "usdc"}
      /\ tx.from \in Holders /\ tx.to \in Holders /\ tx.amount \in Nat
  BY <1>1, <1>2, <1>3 DEF Script, Draft, ScriptIsReady
<1>5. /\ new \in Txn /\ new.status \in {"pending", "refused"} /\ new.kind = tx.kind
      /\ new.by = script.name /\ new.amount = tx.amount /\ new.from = tx.from
  <2>1. (IF valid(tx) THEN "pending" ELSE "refused") \in {"pending", "refused"}
    OBVIOUS
  <2>. QED BY <1>4, <2>1 DEF Txn
<1>. HIDE DEF new
<1>6. /\ txns' \in Seq(Txn) /\ Len(txns') = n /\ n \in DOMAIN txns' /\ txns'[n] = new
      /\ DOMAIN txns' = DOMAIN txns \cup {n} /\ n \notin DOMAIN txns
      /\ \A j \in DOMAIN txns : txns'[j] = txns[j] /\ j \in Nat /\ j < n
  BY <1>2, <1>3, <1>5
<1>7. /\ script' \in Script
      /\ \/ script'.at = "waiting" /\ script'.name = script.name
         \/ script'.at = "none"
  BY <1>2, <1>3, NoScriptIsScript DEF Script
<1>8. FundingTypes'
  <2>1. Len(txns') <= MaxTransfers
    BY <1>2, <1>3, <1>6, FundingAssumption
  <2>. QED BY <1>1, <1>2, <1>6, <1>7, <2>1 DEF FundingTypes
<1>9. ScriptIsReady'
  <2>1. txns' # <<>>
    BY <1>6
  <2>. QED BY <2>1, <1>5, <1>6, <1>7 DEF ScriptIsReady
<1>10. TopUpsAreBounded'
  <2>1. ASSUME NEW i \in DOMAIN txns'
        PROVE  txns'[i].by = "demo" => txns'[i].amount <= TOP_UP
    <3>1. CASE i \in DOMAIN txns
      BY <3>1, <1>1, <1>6 DEF TopUpsAreBounded
    <3>2. CASE i = n
      BY <3>2, <1>1, <1>2, <1>5, <1>6 DEF ScriptIsReady
    <3>. QED BY <3>1, <3>2, <1>6
  <2>. QED BY <2>1 DEF TopUpsAreBounded
<1>11. ReportedIsOnChain'
  BY <1>1, <1>2, <1>3, <1>6 DEF ReportedIsOnChain
<1>12. OptInsAreIn'
  BY <1>1, <1>2, <1>5, <1>6 DEF OptInsAreIn
<1>13. NoOptInIsRepeated'
  BY <1>7 DEF NoOptInIsRepeated
<1>14. OptedInOnce'
  <2>1. ASSUME NEW i \in reported, NEW j \in DOMAIN txns', txns'[i].kind = "optin",
               txns'[j].kind = "optin", i < j
        PROVE  txns'[i].from # txns'[j].from
    <3>1. i \in DOMAIN txns /\ txns'[i] = txns[i]
      BY <1>3, <1>6
    <3>2. CASE j \in DOMAIN txns
      BY <2>1, <3>1, <3>2, <1>1, <1>6 DEF OptedInOnce
    <3>3. CASE j = n
      BY <2>1, <3>1, <3>3, <1>1, <1>2, <1>5, <1>6 DEF NoOptInIsRepeated
    <3>. QED BY <3>2, <3>3, <1>6
  <2>. QED BY <2>1, <1>2 DEF OptedInOnce
<1>15. extra(txns', reported, faucet) = extra(txns, reported, faucet)
  <2>1. demosOf(txns') \cap DOMAIN txns = demosOf(txns)
    BY <1>6 DEF demosOf
  <2>2. counted(txns', Buyer, demosOf(txns') \ reported)
          = counted(txns, Buyer, demosOf(txns) \ reported)
    BY <1>5, <1>6, <2>1 DEF counted
  <2>3. counted(txns', Buyer, DOMAIN txns' \ demosOf(txns'))
          = counted(txns, Buyer, DOMAIN txns \ demosOf(txns))
    BY <1>5, <1>6, <2>1 DEF counted
  <2>4. \A those : \A i \in counted(txns, Buyer, those) : txns'[i].amount = txns[i].amount
    BY <1>6 DEF counted
  <2>5. credited(txns', Buyer, demosOf(txns') \ reported)
          = credited(txns, Buyer, demosOf(txns) \ reported)
    BY <1>3, <1>6, <2>2, <2>4, CreditedSame
  <2>6. credited(txns', Buyer, DOMAIN txns' \ demosOf(txns'))
          = credited(txns, Buyer, DOMAIN txns \ demosOf(txns))
    BY <1>3, <1>6, <2>3, <2>4, CreditedSame
  <2>. QED BY <2>5, <2>6 DEF extra
<1>16. AgentHoldsOne' /\ AgentHeldNothing'
  BY <1>1, <1>2, <1>7, <1>15 DEF AgentHoldsOne, AgentHeldNothing
<1>. QED BY <1>8, <1>9, <1>10, <1>11, <1>12, <1>13, <1>14, <1>16 DEF FundingIInv

\* A transaction that gets another status is otherwise the same.
hasStatus(us, ts, i, status) ==
  /\ us \in Seq(Txn) /\ DOMAIN us = DOMAIN ts /\ Len(us) = Len(ts)
  /\ us[i].status = status
  /\ \A j \in DOMAIN ts :
       /\ us[j].kind = ts[j].kind /\ us[j].from = ts[j].from
       /\ us[j].to = ts[j].to /\ us[j].amount = ts[j].amount
       /\ us[j].by = ts[j].by
       /\ j # i => us[j].status = ts[j].status

LEMMA TxnStatus ==
  ASSUME txns \in Seq(Txn), NEW i \in DOMAIN txns,
         NEW status \in {"pending", "confirmed", "dropped", "refused"},
         txns' = [txns EXCEPT ![i].status = status]
  PROVE  hasStatus(txns', txns, i, status)
<1>. DEFINE tx == [txns[i] EXCEPT !.status = status]
<1>1. txns[i] \in Txn
  OBVIOUS
<1>2. tx \in Txn /\ tx.kind = txns[i].kind /\ tx.from = txns[i].from /\ tx.to = txns[i].to
      /\ tx.amount = txns[i].amount /\ tx.by = txns[i].by /\ tx.status = status
  BY <1>1 DEF Txn
<1>3. txns' = [txns EXCEPT ![i] = tx]
  OBVIOUS
<1>. HIDE DEF tx
<1>4. txns' \in Seq(Txn) /\ Len(txns') = Len(txns) /\ DOMAIN txns' = DOMAIN txns
  BY <1>2, <1>3
<1>5. \A j \in DOMAIN txns : txns'[j] = IF j = i THEN tx ELSE txns[j]
  BY <1>3
<1>6. txns'[i].status = status
  BY <1>2, <1>5
<1>7. ASSUME NEW j \in DOMAIN txns
      PROVE  /\ txns'[j].kind = txns[j].kind /\ txns'[j].from = txns[j].from
             /\ txns'[j].to = txns[j].to /\ txns'[j].amount = txns[j].amount
             /\ txns'[j].by = txns[j].by
             /\ j # i => txns'[j].status = txns[j].status
  BY <1>2, <1>5
<1>. QED BY <1>4, <1>6, <1>7 DEF hasStatus

LEMMA DropTxnStep ==
  ASSUME FundingIInv, NEW i \in DOMAIN txns, DropTxn(i) PROVE FundingIInv'
<1>1. /\ FundingTypes /\ ScriptIsReady /\ TopUpsAreBounded /\ ReportedIsOnChain /\ OptInsAreIn
      /\ NoOptInIsRepeated /\ OptedInOnce /\ AgentHoldsOne /\ AgentHeldNothing
      /\ txns \in Seq(Txn) /\ reported \subseteq DOMAIN txns
  BY DEF FundingIInv, FundingTypes
<1>2. /\ txns[i].status = "pending" /\ txns' = [txns EXCEPT ![i].status = "dropped"]
      /\ UNCHANGED <<algo, usdc, optedIn, faucet, script, reported>>
  BY DEF DropTxn
<1>3. /\ txns' \in Seq(Txn) /\ DOMAIN txns' = DOMAIN txns /\ Len(txns') = Len(txns)
      /\ txns'[i].status = "dropped"
      /\ \A j \in DOMAIN txns :
           /\ txns'[j].kind = txns[j].kind /\ txns'[j].from = txns[j].from
           /\ txns'[j].to = txns[j].to /\ txns'[j].amount = txns[j].amount
           /\ txns'[j].by = txns[j].by
           /\ j # i => txns'[j].status = txns[j].status
  <2>1. txns \in Seq(Txn) /\ txns' = [txns EXCEPT ![i].status = "dropped"]
    BY <1>1, <1>2
  <2>2. hasStatus(txns', txns, i, "dropped")
    BY <2>1, TxnStatus
  <2>. QED BY <2>2 DEF hasStatus
<1>4. FundingTypes' /\ TopUpsAreBounded' /\ ReportedIsOnChain' /\ OptInsAreIn'
  BY <1>1, <1>2, <1>3 DEF FundingTypes, TopUpsAreBounded, ReportedIsOnChain, OptInsAreIn
<1>5. ScriptIsReady'
  <2>1. txns # <<>> => txns' # <<>> /\ Len(txns) \in DOMAIN txns
    BY <1>1, <1>3
  <2>. QED BY <2>1, <1>1, <1>2, <1>3 DEF ScriptIsReady
<1>6. NoOptInIsRepeated' /\ OptedInOnce'
  BY <1>1, <1>2, <1>3 DEF NoOptInIsRepeated, OptedInOnce
<1>7. extra(txns', reported, faucet) = extra(txns, reported, faucet)
  <2>1. demosOf(txns') = demosOf(txns)
    BY <1>3 DEF demosOf
  <2>2. \A those : counted(txns', Buyer, those) = counted(txns, Buyer, those)
    BY <1>2, <1>3 DEF counted
  <2>3. \A those : \A j \in counted(txns, Buyer, those) : txns'[j].amount = txns[j].amount
    BY <1>3 DEF counted
  <2>4. \A those : credited(txns', Buyer, those) = credited(txns, Buyer, those)
    BY <1>1, <1>3, <2>2, <2>3, CreditedSame
  <2>. QED BY <1>3, <2>1, <2>4 DEF extra
<1>8. AgentHoldsOne' /\ AgentHeldNothing'
  BY <1>1, <1>2, <1>7 DEF AgentHoldsOne, AgentHeldNothing
<1>. QED BY <1>4, <1>5, <1>6, <1>8 DEF FundingIInv

LEMMA GiveTypes ==
  ASSUME NEW balance \in [Holders -> Nat], NEW from \in Holders, NEW to \in Holders,
         NEW sum \in Nat, sum <= balance[from]
  PROVE  /\ give(balance, from, to, sum) \in [Holders -> Nat]
         /\ \A h \in Holders :
              give(balance, from, to, sum)[h]
                <= balance[h] + (IF h = to THEN sum ELSE 0)
BY DEF give

\* A transfer that lands is counted: it has not been reported yet.
LEMMA LandTxnStep ==
  ASSUME FundingIInv, NEW i \in DOMAIN txns, LandTxn(i) PROVE FundingIInv'
<1>. DEFINE tx   == txns[i]
            more == IF tx.kind = "usdc" /\ tx.to = Buyer THEN tx.amount ELSE 0
<1>1. /\ FundingTypes /\ ScriptIsReady /\ TopUpsAreBounded /\ ReportedIsOnChain /\ OptInsAreIn
      /\ NoOptInIsRepeated /\ OptedInOnce /\ AgentHoldsOne /\ AgentHeldNothing
      /\ txns \in Seq(Txn) /\ reported \subseteq DOMAIN txns
      /\ algo \in [Holders -> Nat] /\ usdc \in [Holders -> Nat]
  BY DEF FundingIInv, FundingTypes
<1>2. /\ tx.status = "pending" /\ valid(tx)
      /\ txns' = [txns EXCEPT ![i].status = "confirmed"]
      /\ UNCHANGED <<faucet, script, reported>>
      /\ optedIn' = IF tx.kind = "optin" THEN optedIn \cup {tx.from} ELSE optedIn
  BY DEF LandTxn
<1>3. /\ txns' \in Seq(Txn) /\ DOMAIN txns' = DOMAIN txns /\ Len(txns') = Len(txns)
      /\ txns'[i].status = "confirmed"
      /\ \A j \in DOMAIN txns :
           /\ txns'[j].kind = txns[j].kind /\ txns'[j].from = txns[j].from
           /\ txns'[j].to = txns[j].to /\ txns'[j].amount = txns[j].amount
           /\ txns'[j].by = txns[j].by
           /\ j # i => txns'[j].status = txns[j].status
  <2>1. txns \in Seq(Txn) /\ txns' = [txns EXCEPT ![i].status = "confirmed"]
    BY <1>1, <1>2
  <2>2. hasStatus(txns', txns, i, "confirmed")
    BY <2>1, TxnStatus
  <2>. HIDE DEF tx, more
  <2>. QED BY <2>2 DEF hasStatus
<1>4. /\ tx.kind \in {"optin", "algo", "usdc"} /\ tx.from \in Holders /\ tx.to \in Holders
      /\ tx.amount \in Nat
  BY <1>1, TxnFields
<1>5. usdc' \in [Holders -> Nat] /\ usdc'[Buyer] <= usdc[Buyer] + more
  <2>1. CASE tx.kind = "usdc"
    <3>1. tx.amount <= usdc[tx.from]
      BY <1>1, <1>2, <1>4, <2>1 DEF valid
    <3>2. usdc' = give(usdc, tx.from, tx.to, tx.amount)
      BY <2>1 DEF LandTxn
    <3>. HIDE DEF tx
    <3>. QED BY <1>1, <1>4, <2>1, <3>1, <3>2, GiveTypes, FundingAssumption
  <2>2. CASE tx.kind # "usdc"
    <3>1. usdc' = usdc
      BY <2>2 DEF LandTxn
    <3>2. usdc[Buyer] \in Nat
      BY <1>1, FundingAssumption
    <3>. QED BY <1>1, <2>2, <3>1, <3>2
  <2>. QED BY <2>1, <2>2
<1>6. algo' \in [Holders -> Nat]
  <2>. DEFINE paid == [algo EXCEPT ![tx.from] = @ - FEE]
              leaves == IF tx.kind = "algo" THEN tx.amount ELSE 0
  <2>1. leaves + FEE <= algo[tx.from] /\ leaves \in Nat /\ FEE \in Nat
    <3>1. \E opted \in BOOLEAN : algo[tx.from] >= leaves + FEE + minBalance(opted)
      BY <1>2, Zenon DEF valid
    <3>2. \A opted \in BOOLEAN : minBalance(opted) \in Nat
      BY DEF minBalance
    <3>. QED BY <3>1, <3>2, <1>1, <1>4 DEF FEE
  <2>2. algo' = IF tx.kind = "algo" THEN give(paid, tx.from, tx.to, tx.amount) ELSE paid
    BY DEF LandTxn
  <2>. HIDE DEF tx
  <2>3. paid \in [Holders -> Nat] /\ leaves <= paid[tx.from]
    BY <1>1, <1>4, <2>1
  <2>. HIDE DEF paid
  <2>4. CASE tx.kind = "algo"
    BY <1>4, <2>2, <2>3, <2>4, GiveTypes
  <2>5. CASE tx.kind # "algo"
    BY <2>2, <2>3, <2>5
  <2>. QED BY <2>4, <2>5
<1>7. optedIn' \subseteq Holders /\ optedIn \subseteq optedIn'
  BY <1>1, <1>2, <1>4 DEF FundingTypes
<1>8. FundingTypes'
  BY <1>1, <1>2, <1>3, <1>5, <1>6, <1>7 DEF FundingTypes
<1>9. TopUpsAreBounded'
  BY <1>1, <1>3 DEF TopUpsAreBounded
<1>10. ReportedIsOnChain'
  BY <1>1, <1>2, <1>3 DEF ReportedIsOnChain
<1>11. OptInsAreIn'
  BY <1>1, <1>2, <1>3, <1>7 DEF OptInsAreIn
<1>12. ScriptIsReady'
  <2>1. txns # <<>> => txns' # <<>> /\ Len(txns) \in DOMAIN txns
    BY <1>1, <1>3
  <2>. QED BY <2>1, <1>1, <1>2, <1>3 DEF ScriptIsReady
<1>13. NoOptInIsRepeated' /\ OptedInOnce'
  BY <1>1, <1>2, <1>3 DEF NoOptInIsRepeated, OptedInOnce
<1>14. extra(txns', reported, faucet) = extra(txns, reported, faucet) + more
  <2>. DEFINE demos == demosOf(txns)
              late  == demos \ reported
              given == DOMAIN txns \ demos
  <2>1. demosOf(txns') = demos /\ ((i \in late /\ i \notin given) \/ (i \in given /\ i \notin late))
    BY <1>1, <1>2, <1>3 DEF demosOf, ReportedIsOnChain
  <2>2. \A those : \A j \in counted(txns, Buyer, those) : txns'[j].amount = txns[j].amount
    BY <1>3 DEF counted
  <2>3. \A those : i \notin counted(txns, Buyer, those)
    BY <1>2 DEF counted
  <2>. DEFINE toAgent == tx.kind = "usdc" /\ tx.to = Buyer
  <2>4. ASSUME NEW those, ~(toAgent /\ i \in those)
        PROVE  credited(txns', Buyer, those) = credited(txns, Buyer, those)
    <3>1. counted(txns', Buyer, those) = counted(txns, Buyer, those)
      BY <2>4, <1>2, <1>3 DEF counted
    <3>. QED BY <3>1, <1>1, <1>3, <2>2, CreditedSame
  <2>5. ASSUME NEW those, i \in those, toAgent
        PROVE  credited(txns', Buyer, those) = tx.amount + credited(txns, Buyer, those)
    <3>1. counted(txns', Buyer, those) = counted(txns, Buyer, those) \cup {i}
      BY <2>5, <1>2, <1>3 DEF counted
    <3>2. i \in DOMAIN txns' /\ i \notin counted(txns, Buyer, those)
          /\ \A j \in counted(txns, Buyer, those) : txns'[j].amount = txns[j].amount
      BY <1>3, <2>2, <2>3
    <3>3. txns \in Seq(Txn) /\ txns' \in Seq(Txn)
      BY <1>1, <1>3
    <3>4. credited(txns', Buyer, those) = txns'[i].amount + credited(txns, Buyer, those)
      <4>. HIDE DEF tx, more, toAgent, demos, late, given
      <4>. QED BY <3>1, <3>2, <3>3, CreditedOneMore
    <3>. QED BY <3>4, <1>3
  <2>6. credited(txns, Buyer, late) \in Nat /\ credited(txns, Buyer, given) \in Nat
    BY <1>1, CreditedType
  <2>7. extra(txns, reported, faucet) = credited(txns, Buyer, late)
          + (credited(txns, Buyer, given) + (IF Buyer \in faucet THEN FaucetUsdc ELSE 0))
    BY DEF extra
  <2>8. extra(txns', reported, faucet) = credited(txns', Buyer, late)
          + (credited(txns', Buyer, given) + (IF Buyer \in faucet THEN FaucetUsdc ELSE 0))
    BY <1>3, <2>1 DEF extra
  <2>9. (IF Buyer \in faucet THEN FaucetUsdc ELSE 0) \in Nat
    BY FundingAssumption
  <2>10. more = IF toAgent THEN tx.amount ELSE 0
    OBVIOUS
  <2>. HIDE DEF late, given, demos, toAgent, more
  <2>11. CASE toAgent
    <3>1. CASE i \in late /\ i \notin given
      <4>1. credited(txns', Buyer, late) = more + credited(txns, Buyer, late)
        BY <2>10, <2>11, <3>1, <2>5
      <4>2. credited(txns', Buyer, given) = credited(txns, Buyer, given)
        BY <3>1, <2>4
      <4>. QED BY <4>1, <4>2, <2>6, <2>7, <2>8, <2>9, <2>10, <2>11, <1>4
    <3>2. CASE i \in given /\ i \notin late
      <4>1. credited(txns', Buyer, given) = more + credited(txns, Buyer, given)
        BY <2>10, <2>11, <3>2, <2>5
      <4>2. credited(txns', Buyer, late) = credited(txns, Buyer, late)
        BY <3>2, <2>4
      <4>. QED BY <4>1, <4>2, <2>6, <2>7, <2>8, <2>9, <2>10, <2>11, <1>4
    <3>. QED BY <3>1, <3>2, <2>1
  <2>12. CASE ~toAgent
    <3>1. more = 0
      BY <2>10, <2>12
    <3>2. credited(txns', Buyer, late) = credited(txns, Buyer, late)
          /\ credited(txns', Buyer, given) = credited(txns, Buyer, given)
      BY <2>12, <2>4
    <3>. QED BY <3>1, <3>2, <2>6, <2>7, <2>8, <2>9
  <2>. QED BY <2>11, <2>12
<1>15. AgentHoldsOne' /\ AgentHeldNothing'
  <2>1. extra(txns, reported, faucet) \in Nat /\ more \in Nat /\ TOP_UP \in Nat
        /\ usdc[Buyer] \in Nat /\ usdc'[Buyer] \in Nat
    BY <1>1, <1>4, <1>5, ExtraType, FundingAssumption
  <2>2. extra(txns', reported', faucet') = extra(txns, reported, faucet) + more
    BY <1>2, <1>14
  <2>. HIDE DEF more
  <2>3. AgentHoldsOne'
    BY <1>1, <1>5, <2>1, <2>2 DEF AgentHoldsOne
  <2>4. AgentHeldNothing'
    BY <1>1, <1>2, <1>5, <2>1, <2>2 DEF AgentHeldNothing
  <2>. QED BY <2>3, <2>4
<1>. QED BY <1>8, <1>9, <1>10, <1>11, <1>12, <1>13, <1>15 DEF FundingIInv

LEMMA FaucetGivesStep ==
  ASSUME FundingIInv, NEW h \in Holders, FaucetGives(h) PROVE FundingIInv'
<1>1. /\ FundingTypes /\ ScriptIsReady /\ TopUpsAreBounded /\ ReportedIsOnChain /\ OptInsAreIn
      /\ NoOptInIsRepeated /\ OptedInOnce /\ AgentHoldsOne /\ AgentHeldNothing
      /\ txns \in Seq(Txn) /\ usdc \in [Holders -> Nat]
  BY DEF FundingIInv, FundingTypes
<1>2. /\ faucet = {} /\ faucet' = {h} /\ usdc' = [usdc EXCEPT ![h] = @ + FaucetUsdc]
      /\ UNCHANGED <<algo, optedIn, txns, script, reported>>
  BY DEF FaucetGives
<1>3. FundingTypes'
  BY <1>1, <1>2, FundingAssumption DEF FundingTypes
<1>. DEFINE more == IF h = Buyer THEN FaucetUsdc ELSE 0
<1>4. more \in Nat /\ usdc[Buyer] \in Nat /\ usdc'[Buyer] = usdc[Buyer] + more
  BY <1>1, <1>2, FundingAssumption
<1>5. extra(txns, reported, faucet') = extra(txns, reported, faucet) + more
  <2>1. credited(txns, Buyer, demosOf(txns) \ reported) \in Nat
        /\ credited(txns, Buyer, DOMAIN txns \ demosOf(txns)) \in Nat
    BY <1>1, CreditedType
  <2>2. /\ (IF Buyer \in faucet THEN FaucetUsdc ELSE 0) = 0
        /\ (IF Buyer \in faucet' THEN FaucetUsdc ELSE 0) = more
    BY <1>2
  <2>. HIDE DEF more
  <2>. QED BY <1>4, <2>1, <2>2 DEF extra
<1>6. extra(txns, reported, faucet) \in Nat /\ TOP_UP \in Nat
  BY <1>1, ExtraType, FundingAssumption
<1>. HIDE DEF more
<1>7. AgentHoldsOne' /\ AgentHeldNothing'
  BY <1>1, <1>2, <1>4, <1>5, <1>6 DEF AgentHoldsOne, AgentHeldNothing
<1>8. ScriptIsReady' /\ TopUpsAreBounded' /\ ReportedIsOnChain' /\ OptInsAreIn'
      /\ NoOptInIsRepeated' /\ OptedInOnce'
  BY <1>1, <1>2 DEF ScriptIsReady, TopUpsAreBounded, ReportedIsOnChain, OptInsAreIn,
                    NoOptInIsRepeated, OptedInOnce
<1>. QED BY <1>3, <1>7, <1>8 DEF FundingIInv

LEMMA PayStep ==
  ASSUME FundingIInv, Pay PROVE FundingIInv'
<1>1. /\ FundingTypes /\ ScriptIsReady /\ TopUpsAreBounded /\ ReportedIsOnChain /\ OptInsAreIn
      /\ OptedInOnce /\ AgentHoldsOne
      /\ txns \in Seq(Txn) /\ usdc \in [Holders -> Nat] /\ script \in Script
  BY DEF FundingIInv, FundingTypes
<1>2. /\ usdc[Buyer] >= CallPrice /\ usdc' = give(usdc, Buyer, Treasury, CallPrice)
      /\ script' = [script EXCEPT !.at = "end"]
      /\ UNCHANGED <<algo, optedIn, faucet, txns, reported>>
  BY DEF Pay, become
<1>3. usdc' \in [Holders -> Nat] /\ usdc'[Buyer] <= usdc[Buyer]
  <2>1. CallPrice \in Nat /\ Buyer \in Holders /\ Treasury \in Holders /\ Buyer # Treasury
        /\ CallPrice <= usdc[Buyer] /\ usdc[Buyer] \in Nat
    BY <1>1, <1>2, FundingAssumption
  <2>. QED BY <1>1, <1>2, <2>1, GiveTypes
<1>4. script' \in Script /\ script'.at = "end"
  BY <1>1, <1>2 DEF Script
<1>5. FundingTypes'
  BY <1>1, <1>2, <1>3, <1>4 DEF FundingTypes
<1>6. ScriptIsReady' /\ NoOptInIsRepeated' /\ AgentHeldNothing'
  BY <1>4 DEF ScriptIsReady, NoOptInIsRepeated, AgentHeldNothing
<1>7. AgentHoldsOne'
  <2>1. extra(txns, reported, faucet) \in Nat /\ TOP_UP \in Nat
        /\ usdc[Buyer] \in Nat /\ usdc'[Buyer] \in Nat
    BY <1>1, <1>3, ExtraType, FundingAssumption
  <2>. QED BY <1>1, <1>2, <1>3, <2>1 DEF AgentHoldsOne
<1>8. TopUpsAreBounded' /\ ReportedIsOnChain' /\ OptInsAreIn' /\ OptedInOnce'
  BY <1>1, <1>2 DEF TopUpsAreBounded, ReportedIsOnChain, OptInsAreIn, OptedInOnce
<1>. QED BY <1>5, <1>6, <1>7, <1>8 DEF FundingIInv

LEMMA FundingStep == FundingIInv /\ [FundingNext]_fundingVars => FundingIInv'
<1>1. SUFFICES ASSUME FundingIInv, [FundingNext]_fundingVars PROVE FundingIInv'
  OBVIOUS
<1>2. CASE UNCHANGED fundingVars
  BY <1>1, <1>2
     DEF fundingVars, FundingIInv, FundingTypes, ScriptIsReady, TopUpsAreBounded,
         ReportedIsOnChain, OptInsAreIn, NoOptInIsRepeated, OptedInOnce, AgentHoldsOne,
         AgentHeldNothing
<1>3. CASE FundingNext
  BY <1>1, <1>3, LandTxnStep, DropTxnStep, FaucetGivesStep, CheckOptInStep, StartOptInStep,
     OptInStep, StartFundStep, FundWithAlgoStep, FundWithUsdcStep, StartDemoScriptStep, TopUpStep,
     PayStep, SubmitTxnStep, AwaitStep, GiveUpWaitingStep, EndScriptStep
     DEF FundingNext
<1>. QED BY <1>1, <1>2, <1>3

LEMMA FundingIsHonest == FundingIInv => FundingInv
<1>1. SUFFICES ASSUME FundingIInv PROVE FundingInv
  OBVIOUS
<1>2. /\ FundingTypes /\ TopUpsAreBounded /\ ReportedIsOnChain /\ OptedInOnce /\ AgentHoldsOne
      /\ txns \in Seq(Txn) /\ script \in Script
  BY <1>1 DEF FundingIInv, FundingTypes
<1>3. FundingTypeOK
  <2>1. \A i \in DOMAIN txns :
          /\ txns[i].kind \in {"optin", "algo", "usdc"}
          /\ txns[i].status \in {"pending", "confirmed", "dropped", "refused"}
          /\ txns[i].from \in Holders /\ txns[i].to \in Holders
          /\ txns[i].amount \in Nat
    BY <1>2, TxnFields
  <2>2. script.todo \subseteq Holders
    BY <1>2 DEF Script
  <2>. QED BY <1>2, <2>1, <2>2 DEF FundingTypeOK, FundingTypes, TopUpsAreBounded
<1>. QED BY <1>2, <1>3, ExtraIsMeant DEF FundingInv

-----------------------------------------------------------------------------
(***************************************************************************)
(* CasperFunding.                                                          *)
(*                                                                         *)
(* Beside the promises the invariant keeps that a balance which was read   *)
(* while the wallet had nothing on its way is there when the transaction   *)
(* is put, and while it is accepted, until another one overtakes it.       *)
(***************************************************************************)
Kinds == {"fund", "wrap", "transfer", "install"}
Order == [kind : Kinds, from : Wallets, to : Wallets, amount : Nat]

PutTx == [kind : Kinds, from : Wallets, to : Wallets, amount : Nat, quiet : BOOLEAN,
          status : {"accepted", "executed", "failed", "expired", "refused"}]

CsprTypes ==
  /\ cspr \in [Wallets -> Nat] /\ wcspr \in [Wallets -> Nat]
  /\ puts \in Seq(PutTx)
  /\ command \in [at : {"none", "checking", "putting", "polling"}, quiet : BOOLEAN,
                  tx : Order]

\* A later transaction of the wallet, or the transaction itself, was put while
\* another was on its way.
Disturbed(i) ==
  \E j \in DOMAIN puts : puts[j].from = puts[i].from /\ j >= i /\ ~puts[j].quiet

alone(i) ==
  \A j \in DOMAIN puts :
    puts[j].status = "accepted" /\ puts[j].from = puts[i].from => j = i

\* A balance that was read while nothing was on its way is still there.
CheckStillHolds ==
  command.at = "putting" /\ command.quiet =>
    quiet(command.tx.from) /\ cspr[command.tx.from] >= needed(command.tx)

AcceptedCanPay ==
  \A i \in DOMAIN puts :
    puts[i].status = "accepted" /\ puts[i].kind # "transfer" =>
      \/ Disturbed(i)
      \/ alone(i) /\ cspr[puts[i].from] >= payment(puts[i]) + attached(puts[i])

CsprIInv ==
  /\ CsprInv
  /\ CsprTypes
  /\ CheckStillHolds
  /\ AcceptedCanPay

LEMMA Fees ==
  ASSUME NEW tx, tx.kind \in Kinds, tx.amount \in Nat
  PROVE  /\ payment(tx) \in Nat /\ attached(tx) \in Nat
         /\ tx.kind # "transfer" => needed(tx) = payment(tx) + attached(tx)
BY CasperFundingAssumption, SMTT(30)
   DEF payment, attached, needed, Kinds, TRANSFER_FEE

LEMMA PutFields ==
  ASSUME NEW ps \in Seq(PutTx)
  PROVE  \A i \in DOMAIN ps :
           /\ ps[i].kind \in Kinds /\ ps[i].from \in Wallets /\ ps[i].to \in Wallets
           /\ ps[i].amount \in Nat /\ ps[i].quiet \in BOOLEAN
           /\ ps[i].status \in {"accepted", "executed", "failed", "expired", "refused"}
<1>1. \A i \in DOMAIN ps : ps[i] \in PutTx
  OBVIOUS
<1>. QED BY <1>1 DEF PutTx

LEMMA CsprInitial == CsprInit => CsprIInv
<1>1. SUFFICES ASSUME CsprInit PROVE CsprIInv
  OBVIOUS
<1>2. cspr \in [Wallets -> Nat] /\ wcspr \in [Wallets -> Nat]
  BY <1>1, CasperFundingAssumption DEF CsprInit
<1>3. command \in [at : {"none", "checking", "putting", "polling"}, quiet : BOOLEAN,
                   tx : Order] /\ command.at = "none"
  BY <1>1, CasperFundingAssumption DEF CsprInit, noCommand, Order, Kinds
<1>4. puts = <<>> /\ puts \in Seq(PutTx) /\ DOMAIN puts = {} /\ Len(puts) = 0 /\ announced = {}
  BY <1>1 DEF CsprInit
<1>5. CsprTypes
  BY <1>2, <1>3, <1>4 DEF CsprTypes
<1>6. CsprInv
  BY <1>2, <1>3, <1>4, CasperFundingAssumption
     DEF CsprInv, CsprTypeOK, AnnouncedIsExecuted, ChecksAreEnough
<1>. QED
  BY <1>3, <1>4, <1>5, <1>6 DEF CsprIInv, CheckStillHolds, AcceptedCanPay

\* A transaction of the chain's changes its status.
StatusStep(i, status) ==
  /\ puts[i].status = "accepted"
  /\ puts' = [puts EXCEPT ![i].status = status]
  /\ UNCHANGED <<command, announced>>

LEMMA StatusChanges ==
  ASSUME CsprTypes, NEW i \in DOMAIN puts, NEW status \in {"executed", "failed", "expired"},
         StatusStep(i, status)
  PROVE  /\ DOMAIN puts' = DOMAIN puts /\ Len(puts') = Len(puts)
         /\ puts' \in Seq(PutTx)
         /\ puts'[i].status = status
         /\ \A j \in DOMAIN puts :
              /\ puts'[j].kind = puts[j].kind /\ puts'[j].from = puts[j].from
              /\ puts'[j].to = puts[j].to /\ puts'[j].amount = puts[j].amount
              /\ puts'[j].quiet = puts[j].quiet
              /\ j # i => puts'[j].status = puts[j].status
<1>1. puts \in Seq(PutTx) /\ puts' = [puts EXCEPT ![i].status = status]
  BY DEF CsprTypes, StatusStep
<1>2. puts[i] \in PutTx
  BY <1>1
<1>3. [puts[i] EXCEPT !.status = status] \in PutTx
  BY <1>2 DEF PutTx
<1>4. puts' = [puts EXCEPT ![i] = [puts[i] EXCEPT !.status = status]]
  BY <1>1
<1>5. puts' \in Seq(PutTx) /\ Len(puts') = Len(puts) /\ DOMAIN puts' = DOMAIN puts
  BY <1>1, <1>3, <1>4
<1>6. \A j \in DOMAIN puts :
        puts'[j] = IF j = i THEN [puts[i] EXCEPT !.status = status] ELSE puts[j]
  BY <1>1, <1>4
<1>7. \A j \in DOMAIN puts : puts[j] \in PutTx
  BY <1>1
<1>. QED BY <1>2, <1>5, <1>6, <1>7 DEF PutTx

\* Whatever executes, fails or expires keeps the invariant, when it takes from
\* its sender only, and fails only when it could not pay.
LEMMA StatusKeeps ==
  ASSUME CsprIInv, NEW i \in DOMAIN puts, NEW status \in {"executed", "failed", "expired"},
         StatusStep(i, status),
         cspr' \in [Wallets -> Nat], wcspr' \in [Wallets -> Nat],
         \A w \in Wallets : w # puts[i].from => cspr'[w] >= cspr[w],
         status = "failed" => ~succeeds(puts[i])
  PROVE  CsprIInv'
<1>1. CsprTypes /\ AnnouncedIsExecuted /\ ChecksAreEnough /\ CheckStillHolds /\ AcceptedCanPay
      /\ CsprTypeOK
  BY DEF CsprIInv, CsprInv
<1>2. /\ DOMAIN puts' = DOMAIN puts /\ Len(puts') = Len(puts)
      /\ puts' \in Seq(PutTx)
      /\ puts'[i].status = status
      /\ \A j \in DOMAIN puts :
           /\ puts'[j].kind = puts[j].kind /\ puts'[j].from = puts[j].from
           /\ puts'[j].to = puts[j].to /\ puts'[j].amount = puts[j].amount
           /\ puts'[j].quiet = puts[j].quiet
           /\ j # i => puts'[j].status = puts[j].status
  BY <1>1, StatusChanges
<1>3. \A j \in DOMAIN puts :
        puts[j].kind \in Kinds /\ puts[j].from \in Wallets /\ puts[j].amount \in Nat
  BY <1>1, PutFields DEF CsprTypes
<1>4. command' = command /\ announced' = announced /\ puts[i].status = "accepted"
  BY DEF StatusStep
<1>5. CsprTypes'
  BY <1>1, <1>2, <1>4 DEF CsprTypes
<1>6. \A j \in DOMAIN puts : Disturbed(j) => Disturbed(j)'
  BY <1>2 DEF Disturbed
<1>7. CsprTypeOK'
  <2>1. Len(puts') <= MaxPuts /\ announced' \subseteq DOMAIN puts'
    BY <1>1, <1>2, <1>4 DEF CsprTypeOK
  <2>2. command'.at = "polling" => puts' # <<>> /\ puts'[Len(puts')].status # "refused"
    <3>1. SUFFICES ASSUME command.at = "polling"
                   PROVE  puts' # <<>> /\ puts'[Len(puts')].status # "refused"
      BY <1>4
    <3>2. puts # <<>> /\ puts[Len(puts)].status # "refused" /\ puts \in Seq(PutTx)
      BY <3>1, <1>1 DEF CsprTypeOK, CsprTypes
    <3>3. Len(puts) \in DOMAIN puts /\ Len(puts') # 0
      BY <3>2, <1>2
    <3>4. puts'[Len(puts)].status # "refused"
      BY <3>2, <3>3, <1>2
    <3>5. puts' # <<>>
      BY <3>3
    <3>. QED BY <3>4, <3>5, <1>2
  <2>3. \A j \in DOMAIN puts' : puts'[j].status
             \in {"accepted", "executed", "failed", "expired", "refused"}
    BY <1>2, PutFields
  <2>4. command'.at \in {"none", "checking", "putting", "polling"}
    BY <1>1, <1>4 DEF CsprTypeOK
  <2>. QED BY <2>1, <2>2, <2>3, <2>4 DEF CsprTypeOK
<1>8. AnnouncedIsExecuted'
  BY <1>1, <1>2, <1>4 DEF AnnouncedIsExecuted, CsprTypeOK
<1>9. ChecksAreEnough'
  <2>1. ASSUME NEW j \in DOMAIN puts, puts'[j].kind # "transfer",
               puts'[j].status \in {"failed", "refused"}
        PROVE  Disturbed(j)
    <3>1. CASE j # i
      BY <3>1, <2>1, <1>1, <1>2 DEF ChecksAreEnough, Disturbed
    <3>2. CASE j = i
      <4>1. puts[i].kind # "transfer" /\ ~succeeds(puts[i])
        BY <3>2, <2>1, <1>2
      <4>2. cspr[puts[i].from] \in Nat
            /\ payment(puts[i]) \in Nat /\ attached(puts[i]) \in Nat
        BY <1>1, <1>3, Fees DEF CsprTypes
      <4>3. ~(cspr[puts[i].from] >= payment(puts[i]) + attached(puts[i]))
        BY <4>1 DEF succeeds
      <4>. QED BY <3>2, <4>1, <4>3, <1>1, <1>4 DEF AcceptedCanPay
    <3>. QED BY <3>1, <3>2
  <2>2. \A j \in DOMAIN puts : Disturbed(j)' =>
          \E k \in DOMAIN puts' : puts'[k].from = puts'[j].from /\ k >= j /\ ~puts'[k].quiet
    BY DEF Disturbed
  <2>. QED BY <2>1, <2>2, <1>2, <1>6 DEF ChecksAreEnough
<1>10. CheckStillHolds'
  <2>1. SUFFICES ASSUME command.at = "putting", command.quiet
                 PROVE  quiet(command.tx.from)' /\ cspr'[command.tx.from] >= needed(command.tx)
    BY <1>4 DEF CheckStillHolds
  <2>2. quiet(command.tx.from) /\ cspr[command.tx.from] >= needed(command.tx)
    BY <2>1, <1>1 DEF CheckStillHolds
  <2>3. command.tx \in Order
    BY <1>1 DEF CsprTypes
  <2>4. command.tx.from \in Wallets /\ needed(command.tx) \in Nat
    <3>1. command.tx.kind \in Kinds /\ command.tx.amount \in Nat /\ command.tx.from \in Wallets
      BY <2>3 DEF Order
    <3>2. needed(command.tx) \in Nat
      BY <3>1, CasperFundingAssumption, SMTT(30) DEF needed, Kinds, TRANSFER_FEE
    <3>. QED BY <3>1, <3>2
  <2>5. puts[i].from # command.tx.from
    BY <2>2, <1>4 DEF quiet
  <2>6. cspr'[command.tx.from] >= cspr[command.tx.from]
        /\ cspr[command.tx.from] \in Nat /\ cspr'[command.tx.from] \in Nat
    BY <2>4, <2>5, <1>1 DEF CsprTypes
  <2>7. quiet(command.tx.from)'
    <3>1. \A j \in DOMAIN puts' : puts'[j].status = "accepted" => puts'[j].from # command.tx.from
      BY <2>2, <1>2 DEF quiet
    <3>. QED BY <3>1, <1>4 DEF quiet
  <2>. QED BY <2>2, <2>4, <2>6, <2>7
<1>11. AcceptedCanPay'
  <2>1. SUFFICES ASSUME NEW j \in DOMAIN puts, puts'[j].status = "accepted",
                        puts'[j].kind # "transfer", ~Disturbed(j)
                 PROVE  alone(j)' /\ cspr'[puts'[j].from] >= payment(puts'[j]) + attached(puts'[j])
    BY <1>2, <1>6 DEF AcceptedCanPay
  <2>2. j # i /\ puts[j].status = "accepted" /\ puts[j].kind # "transfer"
    BY <2>1, <1>2
  <2>3. alone(j) /\ cspr[puts[j].from] >= payment(puts[j]) + attached(puts[j])
    BY <2>1, <2>2, <1>1 DEF AcceptedCanPay
  <2>4. puts[i].from # puts[j].from
    BY <2>2, <2>3, <1>4 DEF alone
  <2>5. payment(puts'[j]) = payment(puts[j]) /\ attached(puts'[j]) = attached(puts[j])
    BY <1>2 DEF payment, attached
  <2>6. payment(puts[j]) \in Nat /\ attached(puts[j]) \in Nat
    BY <1>3, Fees
  <2>7. cspr'[puts[j].from] >= cspr[puts[j].from]
        /\ cspr[puts[j].from] \in Nat /\ cspr'[puts[j].from] \in Nat
    BY <1>3, <2>4, <1>1 DEF CsprTypes
  <2>8. alone(j)'
    BY <2>3, <2>2, <1>2 DEF alone
  <2>9. puts'[j].from = puts[j].from
    BY <1>2
  <2>. QED BY <2>3, <2>5, <2>6, <2>7, <2>8, <2>9
<1>. QED
  BY <1>5, <1>7, <1>8, <1>9, <1>10, <1>11 DEF CsprIInv, CsprInv

LEMMA RunStep ==
  ASSUME CsprIInv, NEW i \in DOMAIN puts, Run(i) PROVE CsprIInv'
<1>1. CsprTypes
  BY DEF CsprIInv
<1>2. puts[i].kind \in Kinds /\ puts[i].from \in Wallets /\ puts[i].to \in Wallets
      /\ puts[i].amount \in Nat
  BY <1>1, PutFields DEF CsprTypes
<1>. DEFINE tx == puts[i]
<1>3. payment(tx) \in Nat /\ attached(tx) \in Nat /\ payment(tx) + attached(tx) <= cspr[tx.from]
      /\ (tx.kind = "transfer" => tx.amount <= wcspr[tx.from])
  <2>1. cspr[tx.from] \in Nat /\ wcspr[tx.from] \in Nat
    BY <1>1, <1>2 DEF CsprTypes
  <2>. QED BY <1>2, <2>1, Fees DEF Run, succeeds
<1>4. StatusStep(i, "executed")
  BY DEF Run, StatusStep, after
<1>5. cspr' \in [Wallets -> Nat] /\ \A w \in Wallets : w # tx.from => cspr'[w] >= cspr[w]
  <2>1. cspr' = [w \in Wallets |->
           cspr[w] - (IF w = tx.from THEN payment(tx) + attached(tx) ELSE 0)
             + (IF w = tx.to /\ tx.kind = "fund" THEN tx.amount ELSE 0)]
    BY DEF Run
  <2>. DEFINE out == payment(tx) + attached(tx)
              in  == IF tx.kind = "fund" THEN tx.amount ELSE 0
  <2>2. out \in Nat /\ in \in Nat /\ out <= cspr[tx.from]
    BY <1>2, <1>3
  <2>3. cspr' = [w \in Wallets |-> cspr[w] - (IF w = tx.from THEN out ELSE 0)
                                     + (IF w = tx.to THEN in ELSE 0)]
    BY <2>1
  <2>. HIDE DEF out, in, tx
  <2>4. cspr \in [Wallets -> Nat]
    BY <1>1 DEF CsprTypes
  <2>. QED BY <2>2, <2>3, <2>4
<1>6. wcspr' \in [Wallets -> Nat]
  <2>1. wcspr' = [w \in Wallets |->
           wcspr[w] - (IF w = tx.from /\ tx.kind = "transfer" THEN tx.amount ELSE 0)
             + (IF w = tx.to /\ tx.kind \in {"wrap", "transfer"} THEN tx.amount ELSE 0)]
    BY DEF Run
  <2>2. wcspr \in [Wallets -> Nat] /\ tx.amount \in Nat
    BY <1>1, <1>2 DEF CsprTypes
  <2>. HIDE DEF tx
  <2>. QED BY <2>1, <2>2, <1>3
<1>. QED BY <1>4, <1>5, <1>6, StatusKeeps

LEMMA RunFailsStep ==
  ASSUME CsprIInv, NEW i \in DOMAIN puts, RunFails(i) PROVE CsprIInv'
<1>1. CsprTypes
  BY DEF CsprIInv
<1>2. puts[i].kind \in Kinds /\ puts[i].from \in Wallets /\ puts[i].amount \in Nat
  BY <1>1, PutFields DEF CsprTypes
<1>3. payment(puts[i]) \in Nat
  BY <1>2, Fees
<1>4. StatusStep(i, "failed") /\ ~succeeds(puts[i])
  BY DEF RunFails, StatusStep, after
<1>5. cspr' \in [Wallets -> Nat] /\ wcspr' \in [Wallets -> Nat]
      /\ \A w \in Wallets : w # puts[i].from => cspr'[w] >= cspr[w]
  BY <1>1, <1>2, <1>3 DEF RunFails, CsprTypes
<1>. QED BY <1>4, <1>5, StatusKeeps

LEMMA ExpirePutStep ==
  ASSUME CsprIInv, NEW i \in DOMAIN puts, ExpirePut(i) PROVE CsprIInv'
<1>1. CsprTypes
  BY DEF CsprIInv
<1>2. StatusStep(i, "expired")
  BY DEF ExpirePut, StatusStep, after
<1>3. cspr' \in [Wallets -> Nat] /\ wcspr' \in [Wallets -> Nat]
      /\ \A w \in Wallets : cspr'[w] >= cspr[w]
  BY <1>1 DEF ExpirePut, CsprTypes
<1>. QED BY <1>2, <1>3, StatusKeeps

\* A step of a script that puts nothing.
LEMMA ScriptKeeps ==
  ASSUME CsprIInv, UNCHANGED <<cspr, wcspr, puts>>,
         command' \in [at : {"none", "checking", "putting", "polling"}, quiet : BOOLEAN,
                       tx : Order],
         command'.at # "polling", CheckStillHolds',
         announced' \subseteq DOMAIN puts,
         \A i \in announced' : puts[i].status = "executed"
  PROVE  CsprIInv'
<1>1. CsprTypes' /\ AnnouncedIsExecuted'
  BY DEF CsprIInv, CsprTypes, AnnouncedIsExecuted
<1>2. CsprTypeOK' /\ ChecksAreEnough'
  BY DEF CsprIInv, CsprInv, CsprTypeOK, ChecksAreEnough
<1>3. AcceptedCanPay'
  <2>1. \A i : Disturbed(i)' = Disturbed(i) /\ alone(i)' = alone(i)
    BY DEF Disturbed, alone
  <2>. QED BY <2>1 DEF CsprIInv, AcceptedCanPay
<1>. QED BY <1>1, <1>2, <1>3 DEF CsprIInv, CsprInv

LEMMA NoCommandIsOrder ==
  /\ noCommand \in [at : {"none", "checking", "putting", "polling"}, quiet : BOOLEAN,
                    tx : Order]
  /\ noCommand.at = "none"
BY CasperFundingAssumption DEF noCommand, Order, Kinds

LEMMA BeginPutStep ==
  ASSUME CsprIInv, NEW kind \in Kinds, NEW from \in Wallets, NEW to \in Wallets,
         NEW sum \in Amounts, Begin(kind, from, to, sum)
  PROVE  CsprIInv'
<1>. DEFINE tx == [kind |-> kind, from |-> from, to |-> to, amount |-> sum]
<1>1. tx \in Order
  BY CasperFundingAssumption DEF Order
<1>. HIDE DEF tx
<1>2. command' = [noCommand EXCEPT !.at = "checking", !.tx = tx]
      /\ UNCHANGED <<cspr, wcspr, puts, announced>>
  BY DEF Begin, tx
<1>3. command' \in [at : {"none", "checking", "putting", "polling"}, quiet : BOOLEAN,
                    tx : Order] /\ command'.at = "checking"
  BY <1>1, <1>2, NoCommandIsOrder
<1>4. CheckStillHolds'
  BY <1>3 DEF CheckStillHolds
<1>5. announced \subseteq DOMAIN puts /\ \A i \in announced : puts[i].status = "executed"
  BY DEF CsprIInv, CsprInv, CsprTypeOK, AnnouncedIsExecuted
<1>. QED BY <1>2, <1>3, <1>4, <1>5, ScriptKeeps

LEMMA CheckStep ==
  ASSUME CsprIInv, Check PROVE CsprIInv'
<1>1. announced \subseteq DOMAIN puts /\ (\A i \in announced : puts[i].status = "executed")
      /\ CsprTypes
  BY DEF CsprIInv, CsprInv, CsprTypeOK, AnnouncedIsExecuted
<1>2. UNCHANGED <<cspr, wcspr, puts, announced>> /\ command.at = "checking"
  BY DEF Check
<1>. DEFINE w == command.tx.from
<1>3. w \in Wallets /\ cspr[w] \in Nat /\ quiet(w) \in BOOLEAN
  BY <1>1 DEF CsprTypes, Order, quiet
<1>4. needed(command.tx) \in Nat
  <2>1. command.tx.kind \in Kinds /\ command.tx.amount \in Nat
    BY <1>1 DEF CsprTypes, Order
  <2>. QED BY <2>1, CasperFundingAssumption, SMTT(30) DEF needed, Kinds, TRANSFER_FEE
<1>5. CASE cspr[w] < needed(command.tx)
  <2>1. command' = noCommand
    BY <1>5 DEF Check
  <2>2. CheckStillHolds'
    BY <2>1, NoCommandIsOrder DEF CheckStillHolds
  <2>. QED BY <2>1, <2>2, <1>1, <1>2, NoCommandIsOrder, ScriptKeeps
<1>6. CASE ~(cspr[w] < needed(command.tx))
  <2>1. command' = [command EXCEPT !.at = "putting", !.quiet = quiet(w)]
    BY <1>6 DEF Check
  <2>2. command' \in [at : {"none", "checking", "putting", "polling"}, quiet : BOOLEAN,
                      tx : Order]
        /\ command'.at = "putting" /\ command'.tx = command.tx /\ command'.quiet = quiet(w)
    BY <2>1, <1>1, <1>3 DEF CsprTypes
  <2>3. quiet(w)' = quiet(w)
    BY <1>2, <2>2 DEF quiet
  <2>4. needed(command.tx)' = needed(command.tx)
    BY <2>2 DEF needed
  <2>5. CheckStillHolds'
    BY <1>2, <1>3, <1>4, <1>6, <2>2, <2>3, <2>4 DEF CheckStillHolds
  <2>. QED BY <2>2, <2>5, <1>1, <1>2, ScriptKeeps
<1>. QED BY <1>5, <1>6

LEMMA AnnounceStep ==
  ASSUME CsprIInv, Announce PROVE CsprIInv'
<1>1. announced \subseteq DOMAIN puts /\ (\A i \in announced : puts[i].status = "executed")
      /\ CsprTypes /\ puts # <<>>
  BY DEF CsprIInv, CsprInv, CsprTypeOK, AnnouncedIsExecuted, Announce
<1>2. UNCHANGED <<cspr, wcspr, puts>> /\ command' = noCommand
      /\ announced' = announced \cup {Len(puts)} /\ puts[Len(puts)].status = "executed"
  BY DEF Announce, goneThrough
<1>3. Len(puts) \in DOMAIN puts
  BY <1>1 DEF CsprTypes
<1>4. CheckStillHolds'
  BY <1>2, NoCommandIsOrder DEF CheckStillHolds
<1>. QED BY <1>1, <1>2, <1>3, <1>4, NoCommandIsOrder, ScriptKeeps

LEMMA FailStep ==
  ASSUME CsprIInv, Fail PROVE CsprIInv'
<1>1. announced \subseteq DOMAIN puts /\ (\A i \in announced : puts[i].status = "executed")
  BY DEF CsprIInv, CsprInv, CsprTypeOK, AnnouncedIsExecuted
<1>2. UNCHANGED <<cspr, wcspr, puts, announced>> /\ command' = noCommand
  BY DEF Fail
<1>3. CheckStillHolds'
  BY <1>2, NoCommandIsOrder DEF CheckStillHolds
<1>. QED BY <1>1, <1>2, <1>3, NoCommandIsOrder, ScriptKeeps

\* A new transaction is last; it is refused only to a wallet that cannot pay.
LEMMA PutStep ==
  ASSUME CsprIInv, Put PROVE CsprIInv'
<1>. DEFINE tx     == command.tx
            status == IF cspr[tx.from] >= payment(tx) THEN "accepted" ELSE "refused"
            new    == [kind |-> tx.kind, from |-> tx.from, to |-> tx.to,
                       amount |-> tx.amount, quiet |-> command.quiet, status |-> status]
            n      == Len(puts) + 1
<1>1. CsprTypes /\ AnnouncedIsExecuted /\ ChecksAreEnough /\ CheckStillHolds /\ AcceptedCanPay
      /\ CsprTypeOK
  BY DEF CsprIInv, CsprInv
<1>2. /\ tx.kind \in Kinds /\ tx.from \in Wallets /\ tx.to \in Wallets /\ tx.amount \in Nat
      /\ command.quiet \in BOOLEAN /\ tx \in Order
      /\ puts \in Seq(PutTx) /\ cspr[tx.from] \in Nat
  BY <1>1 DEF CsprTypes, Order
<1>3. payment(tx) \in Nat /\ attached(tx) \in Nat
      /\ (tx.kind # "transfer" => needed(tx) = payment(tx) + attached(tx))
  BY <1>2, Fees
<1>4. new \in PutTx
  BY <1>2 DEF PutTx
<1>5. /\ puts' = Append(puts, new) /\ Len(puts) < MaxPuts
      /\ command.at = "putting" /\ UNCHANGED <<cspr, wcspr, announced>>
  BY DEF Put
<1>6. \/ cspr[tx.from] >= payment(tx) /\ command' = [command EXCEPT !.at = "polling"]
      \/ command' = noCommand
  BY DEF Put, tookIt
<1>. HIDE DEF new
<1>7. /\ puts' \in Seq(PutTx) /\ Len(puts') = n /\ n \in DOMAIN puts' /\ puts'[n] = new
      /\ DOMAIN puts' = DOMAIN puts \cup {n} /\ n \notin DOMAIN puts
      /\ \A j \in DOMAIN puts : puts'[j] = puts[j] /\ j \in Nat /\ j < n
  BY <1>2, <1>4, <1>5
<1>8. /\ new.kind = tx.kind /\ new.from = tx.from /\ new.amount = tx.amount
      /\ new.quiet = command.quiet /\ new.status = status
  BY DEF new
<1>9. CsprTypes'
  BY <1>1, <1>5, <1>6, <1>7, NoCommandIsOrder DEF CsprTypes
<1>10. AnnouncedIsExecuted'
  BY <1>1, <1>5, <1>7 DEF AnnouncedIsExecuted, CsprTypeOK
<1>11. CsprTypeOK'
  <2>1. Len(puts') <= MaxPuts
    <3>1. MaxPuts \in Nat /\ Len(puts) \in Nat
      BY <1>2, CasperFundingAssumption
    <3>. QED BY <3>1, <1>5, <1>7
  <2>2. announced' \subseteq DOMAIN puts'
    BY <1>1, <1>5, <1>7 DEF CsprTypeOK
  <2>3. \A j \in DOMAIN puts' : puts'[j].status
             \in {"accepted", "executed", "failed", "expired", "refused"}
    BY <1>7, PutFields
  <2>4. command'.at \in {"none", "checking", "putting", "polling"}
    BY <1>9 DEF CsprTypes
  <2>5. command'.at = "polling" => puts' # <<>> /\ puts'[Len(puts')].status # "refused"
    <3>1. command'.at = "polling" => cspr[tx.from] >= payment(tx)
      BY <1>6, NoCommandIsOrder
    <3>2. puts' # <<>>
      BY <1>7
    <3>. QED BY <3>1, <3>2, <1>7, <1>8
  <2>. QED BY <2>1, <2>2, <2>3, <2>4, <2>5, <1>9 DEF CsprTypeOK, CsprTypes
<1>12. \A j \in DOMAIN puts : Disturbed(j) => Disturbed(j)'
  BY <1>7 DEF Disturbed
<1>13. command.quiet => quiet(tx.from) /\ cspr[tx.from] >= needed(tx)
  BY <1>1, <1>5 DEF CheckStillHolds
<1>14. CheckStillHolds'
  <2>1. command'.at # "putting"
    BY <1>1, <1>6, NoCommandIsOrder DEF CsprTypes
  <2>. QED BY <2>1 DEF CheckStillHolds
<1>15. CASE ~command.quiet
  <2>1. \A j \in DOMAIN puts' : puts'[j].from = tx.from => Disturbed(j)'
    BY <1>15, <1>7, <1>8 DEF Disturbed
  <2>2. ChecksAreEnough'
    <3>1. ASSUME NEW j \in DOMAIN puts', puts'[j].kind # "transfer",
                 puts'[j].status \in {"failed", "refused"}
          PROVE  Disturbed(j)'
      <4>1. CASE j \in DOMAIN puts
        BY <4>1, <3>1, <1>1, <1>7, <1>12 DEF ChecksAreEnough, Disturbed
      <4>2. CASE j = n
        BY <4>2, <2>1, <1>7, <1>8
      <4>. QED BY <4>1, <4>2, <1>7
    <3>. QED BY <3>1 DEF ChecksAreEnough, Disturbed
  <2>3. AcceptedCanPay'
    <3>1. SUFFICES ASSUME NEW j \in DOMAIN puts', puts'[j].status = "accepted",
                          puts'[j].kind # "transfer", ~Disturbed(j)'
                   PROVE  alone(j)' /\ cspr'[puts'[j].from]
                                         >= payment(puts'[j]) + attached(puts'[j])
      BY DEF AcceptedCanPay
    <3>2. j \in DOMAIN puts /\ puts'[j] = puts[j] /\ puts[j].from # tx.from
      BY <3>1, <2>1, <1>7, <1>8
    <3>3. alone(j) /\ cspr[puts[j].from] >= payment(puts[j]) + attached(puts[j])
      BY <3>1, <3>2, <1>1, <1>12 DEF AcceptedCanPay
    <3>4. alone(j)'
      BY <3>2, <3>3, <1>7, <1>8 DEF alone
    <3>. QED BY <3>2, <3>3, <3>4, <1>5
  <2>. QED BY <2>2, <2>3, <1>9, <1>10, <1>11, <1>14 DEF CsprIInv, CsprInv
<1>16. CASE command.quiet
  <2>1. quiet(tx.from) /\ cspr[tx.from] >= needed(tx)
    BY <1>13, <1>16
  <2>2. tx.kind # "transfer" =>
          cspr[tx.from] >= payment(tx) + attached(tx) /\ status = "accepted"
    BY <2>1, <1>2, <1>3
  <2>3. ChecksAreEnough'
    <3>1. ASSUME NEW j \in DOMAIN puts', puts'[j].kind # "transfer",
                 puts'[j].status \in {"failed", "refused"}
          PROVE  Disturbed(j)'
      <4>1. CASE j \in DOMAIN puts
        BY <4>1, <3>1, <1>1, <1>7, <1>12 DEF ChecksAreEnough, Disturbed
      <4>2. CASE j = n
        BY <4>2, <3>1, <2>2, <1>7, <1>8
      <4>. QED BY <4>1, <4>2, <1>7
    <3>. QED BY <3>1 DEF ChecksAreEnough, Disturbed
  <2>4. AcceptedCanPay'
    <3>1. SUFFICES ASSUME NEW j \in DOMAIN puts', puts'[j].status = "accepted",
                          puts'[j].kind # "transfer", ~Disturbed(j)'
                   PROVE  alone(j)' /\ cspr'[puts'[j].from]
                                         >= payment(puts'[j]) + attached(puts'[j])
      BY DEF AcceptedCanPay
    <3>2. CASE j \in DOMAIN puts
      <4>1. puts'[j] = puts[j] /\ puts[j].from # tx.from
        BY <3>1, <3>2, <2>1, <1>7 DEF quiet
      <4>2. alone(j) /\ cspr[puts[j].from] >= payment(puts[j]) + attached(puts[j])
        BY <3>1, <3>2, <4>1, <1>1, <1>12 DEF AcceptedCanPay
      <4>3. alone(j)'
        BY <4>1, <4>2, <3>2, <1>7, <1>8 DEF alone
      <4>. QED BY <4>1, <4>2, <4>3, <1>5
    <3>3. CASE j = n
      <4>1. puts'[j] = new
        BY <3>3, <1>7
      <4>2. alone(j)'
        BY <3>3, <4>1, <2>1, <1>7, <1>8 DEF alone, quiet
      <4>3. payment(new) = payment(tx) /\ attached(new) = attached(tx)
        BY <1>8 DEF payment, attached
      <4>. QED BY <3>1, <4>1, <4>2, <4>3, <2>2, <1>5, <1>8
    <3>. QED BY <3>2, <3>3, <1>7
  <2>. QED BY <2>3, <2>4, <1>9, <1>10, <1>11, <1>14 DEF CsprIInv, CsprInv
<1>. QED BY <1>2, <1>15, <1>16

LEMMA CsprStep == CsprIInv /\ [CsprNext]_csprVars => CsprIInv'
<1>1. SUFFICES ASSUME CsprIInv, [CsprNext]_csprVars PROVE CsprIInv'
  OBVIOUS
<1>2. CASE UNCHANGED csprVars
  <2>1. UNCHANGED <<cspr, wcspr, puts, command, announced>>
    BY <1>2 DEF csprVars
  <2>2. CsprTypes' /\ CheckStillHolds'
    BY <1>1, <2>1 DEF CsprIInv, CsprTypes, CheckStillHolds, quiet
  <2>3. CsprInv'
    BY <1>1, <2>1 DEF CsprIInv, CsprInv, CsprTypeOK, AnnouncedIsExecuted, ChecksAreEnough
  <2>4. AcceptedCanPay'
    <3>1. \A i : Disturbed(i)' = Disturbed(i) /\ alone(i)' = alone(i)
      BY <2>1 DEF Disturbed, alone
    <3>. QED BY <1>1, <2>1, <3>1 DEF CsprIInv, AcceptedCanPay
  <2>. QED BY <2>2, <2>3, <2>4 DEF CsprIInv
<1>3. CASE CsprNext
  BY <1>1, <1>3, RunStep, RunFailsStep, ExpirePutStep, BeginPutStep, CheckStep, PutStep,
     AnnounceStep, FailStep
     DEF CsprNext, Kinds
<1>. QED BY <1>1, <1>2, <1>3

-----------------------------------------------------------------------------
\* What the set-up scripts announce happened: an opt-in is not repeated, an
\* agent is topped up once at a time, and on Casper what a wallet was found to
\* hold is enough unless another transaction of it is under way
\* (scripts/algorand/optin.ts, fund.ts and demo.ts, scripts/casper/fund.ts,
\* wrap.ts and deploy-registry.ts).
THEOREM ScriptsHold == FundingSpec /\ CsprSpec => []ScriptsAreHonest
<1>1. FundingIInv /\ CsprIInv => ScriptsAreHonest
  BY FundingIsHonest DEF CsprIInv, ScriptsAreHonest
<1>. QED BY <1>1, FundingInitial, FundingStep, CsprInitial, CsprStep, PTL
         DEF FundingSpec, CsprSpec
=============================================================================
