--------------------------- MODULE OperatorProofs ---------------------------
(***************************************************************************)
(* Theorems about what an operator runs beside the website: Casper         *)
(* payments and the buyers that make them, for every set of authorizations *)
(* and any number of requests; the demo's daily allowance, for any         *)
(* processes and plans; and the Casper keys, for any roles, runs and       *)
(* interruptions.                                                          *)
(***************************************************************************)
EXTENDS CasperBuyer, DemoSpend, CasperKeys, FiniteSetTheorems, TLAPS

-----------------------------------------------------------------------------
(***************************************************************************)
(* CasperPayment.                                                          *)
(***************************************************************************)
(***************************************************************************)
(* The inductive invariant.  A request is served only after its own        *)
(* transfer was seen to execute; the contract executes one transfer per    *)
(* authorization; a request that was answered with 200 or 202 has left its *)
(* row behind.  Executed transfers stay executed and rows stay written, so *)
(* what a request saw before an await is still so after it.                *)
(***************************************************************************)
ServedWasPaid ==
  \A i \in Ids :
    requests[i].stage \in {"settled", "served"} => transfer[i] = "executed"

OneTransferPerAuth ==
  \A i, j \in Ids :
    /\ transfer[i] = "executed" /\ transfer[j] = "executed"
    /\ requests[i].auth = requests[j].auth
    => i = j

AnsweredIsRecorded ==
  /\ \A r \in ledger : r.status = "settled" => transfer[r.request] = "executed"
  /\ \A i \in Ids : requests[i].stage \in {"accepted", "served"} =>
                       \E r \in ledger : r.request = i

PaymentIInv ==
  /\ TypeOK
  /\ ServedWasPaid
  /\ OneTransferPerAuth
  /\ AnsweredIsRecorded

-----------------------------------------------------------------------------
\* At the start there is no request.
LEMMA PaymentInitially == Init => PaymentIInv
<1> SUFFICES ASSUME Init PROVE PaymentIInv
  OBVIOUS
<1>1. Ids = {} /\ Ids = 1 .. 0
  BY DEF Init, Ids
<1>2. TypeOK
  BY <1>1, RequestsAssumption DEF Init, TypeOK
<1> QED
  BY <1>1, <1>2 DEF Init, PaymentIInv, ServedWasPaid, OneTransferPerAuth,
                    AnsweredIsRecorded

-----------------------------------------------------------------------------
(***************************************************************************)
(* Steps of the server.                                                    *)
(***************************************************************************)
\* A new request is appended with no transfer of its own.
LEMMA ArriveStep ==
  ASSUME PaymentIInv, NEW a \in Auths, Arrive(a)
  PROVE  PaymentIInv'
<1>1. PICK k \in 0 .. MaxRequests : Ids = 1 .. k
  BY DEF PaymentIInv, TypeOK
<1>2. Cardinality(Ids) = k
  BY <1>1, FS_Interval
<1>3. /\ k + 1 \in 0 .. MaxRequests
      /\ Ids' = 1 .. k + 1
      /\ requests' = [i \in 1 .. k + 1 |->
           IF i \in 1 .. k THEN requests[i]
           ELSE [auth |-> a, stage |-> "received"]]
      /\ transfer' = [i \in 1 .. k + 1 |->
           IF i \in 1 .. k THEN transfer[i] ELSE "none"]
      /\ UNCHANGED <<expired, ledger>>
  BY <1>1, <1>2, RequestsAssumption DEF Arrive, Ids
<1>4. /\ \A i \in 1 .. k : requests'[i] = requests[i] /\ transfer'[i] = transfer[i]
      /\ requests'[k + 1] = [auth |-> a, stage |-> "received"]
      /\ transfer'[k + 1] = "none"
      /\ \A i \in Ids' : i \in 1 .. k \/ i = k + 1
      /\ Ids \subseteq Ids'
  BY <1>1, <1>3
<1>5. TypeOK'
  <2>1. requests' \in [Ids' -> [auth : Auths, stage : Stages]]
    BY <1>1, <1>3 DEF PaymentIInv, TypeOK, Stages
  <2>2. transfer' \in [Ids' -> Transfers]
    BY <1>1, <1>3 DEF PaymentIInv, TypeOK, Transfers
  <2>3. \A i \in Ids' : requests'[i].stage \in {"received", "verified"} =>
                           transfer'[i] = "none"
    BY <1>1, <1>4 DEF PaymentIInv, TypeOK
  <2>4. ledger' \subseteq [request : Ids', status : {"settled", "pending"}]
    BY <1>3, <1>4 DEF PaymentIInv, TypeOK
  <2> QED
    BY <1>3, <2>1, <2>2, <2>3, <2>4 DEF PaymentIInv, TypeOK
<1>6. ServedWasPaid'
  BY <1>1, <1>4 DEF PaymentIInv, ServedWasPaid
<1>7. OneTransferPerAuth'
  BY <1>1, <1>4 DEF PaymentIInv, OneTransferPerAuth
<1>8. AnsweredIsRecorded'
  BY <1>1, <1>3, <1>4 DEF PaymentIInv, TypeOK, AnsweredIsRecorded
<1> QED
  BY <1>5, <1>6, <1>7, <1>8 DEF PaymentIInv

\* Moving request i to another stage touches nothing else.
LEMMA AdvanceKeepsType ==
  ASSUME TypeOK, NEW i \in Ids, NEW stage \in Stages, advance(i, stage)
  PROVE  /\ requests' \in [Ids -> [auth : Auths, stage : Stages]]
         /\ Ids' = Ids
         /\ requests'[i].stage = stage
         /\ \A j \in Ids : /\ requests'[j].auth = requests[j].auth
                           /\ j # i => requests'[j] = requests[j]
<1>1. requests' = [requests EXCEPT ![i].stage = stage]
  BY DEF advance
<1>2. requests \in [Ids -> [auth : Auths, stage : Stages]]
  BY DEF TypeOK
<1> QED
  BY <1>1, <1>2 DEF Ids

\* A step that only moves request i to a stage it is entitled to keeps the
\* invariant.  This is every step of the server but the submission and the
\* two that write a row.
LEMMA AdvanceStep ==
  ASSUME PaymentIInv, NEW i \in Ids, NEW stage \in Stages, advance(i, stage),
         UNCHANGED <<expired, transfer, ledger>>,
         stage \in {"received", "verified"} => transfer[i] = "none",
         stage \in {"settled", "served"} => transfer[i] = "executed",
         stage \notin {"accepted", "served"}
  PROVE  PaymentIInv'
<1>1. /\ requests' \in [Ids -> [auth : Auths, stage : Stages]]
      /\ Ids' = Ids
      /\ requests'[i].stage = stage
      /\ \A j \in Ids : /\ requests'[j].auth = requests[j].auth
                        /\ j # i => requests'[j] = requests[j]
  BY AdvanceKeepsType DEF PaymentIInv
<1>2. TypeOK'
  BY <1>1 DEF PaymentIInv, TypeOK
<1>3. ServedWasPaid'
  BY <1>1 DEF PaymentIInv, ServedWasPaid
<1>4. OneTransferPerAuth'
  BY <1>1 DEF PaymentIInv, OneTransferPerAuth
<1>5. AnsweredIsRecorded'
  BY <1>1 DEF PaymentIInv, AnsweredIsRecorded
<1> QED
  BY <1>2, <1>3, <1>4, <1>5 DEF PaymentIInv

\* Verification: what is verified has no transfer yet.
LEMMA VerifyStep ==
  ASSUME PaymentIInv, NEW i \in Ids, Verify(i)
  PROVE  PaymentIInv'
<1>1. transfer[i] = "none" /\ UNCHANGED <<expired, transfer, ledger>>
  BY DEF Verify, PaymentIInv, TypeOK
<1>2. PICK stage \in {"verified", "rejected"} : advance(i, stage)
  BY DEF Verify
<1> QED
  BY <1>1, <1>2, AdvanceStep DEF Stages

\* A submission starts a transfer that has not executed, whatever the server
\* is told.
LEMMA SubmitStep ==
  ASSUME PaymentIInv, NEW i \in Ids, Submit(i)
  PROVE  PaymentIInv'
<1>0. transfer[i] = "none"
  BY DEF Submit, PaymentIInv, TypeOK
<1>1. CASE advance(i, "rejected") /\ UNCHANGED <<transfer, expired, ledger>>
  BY <1>1, AdvanceStep DEF Stages
<1>2. ASSUME transfer' = [transfer EXCEPT ![i] = "accepted"],
             UNCHANGED <<expired, ledger>>,
             NEW stage \in {"polling", "rejected"}, advance(i, stage)
      PROVE  PaymentIInv'
  <2>1. /\ requests' \in [Ids -> [auth : Auths, stage : Stages]]
        /\ Ids' = Ids
        /\ requests'[i].stage = stage
        /\ \A j \in Ids : /\ requests'[j].auth = requests[j].auth
                          /\ j # i => requests'[j] = requests[j]
    BY <1>2, AdvanceKeepsType DEF PaymentIInv, Stages
  <2>2. /\ transfer' \in [Ids -> Transfers]
        /\ transfer'[i] = "accepted"
        /\ \A j \in Ids : j # i => transfer'[j] = transfer[j]
    BY <1>2 DEF PaymentIInv, TypeOK, Transfers
  <2>3. TypeOK'
    BY <1>2, <2>1, <2>2 DEF PaymentIInv, TypeOK
  <2>4. ServedWasPaid'
    BY <1>2, <2>1, <2>2 DEF PaymentIInv, ServedWasPaid
  <2>5. OneTransferPerAuth'
    BY <1>2, <2>1, <2>2 DEF PaymentIInv, OneTransferPerAuth
  <2>6. AnsweredIsRecorded'
    <3>1. \A r \in ledger : r.request \in Ids
      BY DEF PaymentIInv, TypeOK
    <3>2. \A r \in ledger : r.status = "settled" => r.request # i
      BY <1>0 DEF PaymentIInv, AnsweredIsRecorded
    <3> QED
      BY <1>2, <2>1, <2>2, <3>1, <3>2 DEF PaymentIInv, AnsweredIsRecorded
  <2> QED
    BY <2>3, <2>4, <2>5, <2>6 DEF PaymentIInv
<1> QED
  BY <1>1, <1>2 DEF Submit, lostReply

\* Polling: only execution counts as settled.
LEMMA PollStep ==
  ASSUME PaymentIInv, NEW i \in Ids, Poll(i)
  PROVE  PaymentIInv'
<1>1. PICK stage \in {"settled", "unconfirmed", "rejected"} :
        advance(i, stage) /\ (stage = "settled" => transfer[i] = "executed")
  BY DEF Poll, confirms, timeout
<1> QED
  BY <1>1, AdvanceStep DEF Poll, Stages

\* Answers 200 and 202 come with a row; a settled row is for a transfer that
\* executed.
LEMMA AnswerStep ==
  ASSUME PaymentIInv, NEW i \in Ids, Serve(i) \/ AnswerPending(i)
  PROVE  PaymentIInv'
<1>1. PICK stage \in {"served", "accepted"}, status \in {"settled", "pending"} :
        /\ advance(i, stage)
        /\ ledger' = ledger \cup {[request |-> i, status |-> status]}
        /\ UNCHANGED <<expired, transfer>>
        /\ stage = "served" \/ status = "settled" => transfer[i] = "executed"
  <2>1. CASE Serve(i)
    BY <2>1 DEF Serve, PaymentIInv, ServedWasPaid
  <2>2. CASE AnswerPending(i)
    BY <2>2 DEF AnswerPending
  <2> QED
    BY <2>1, <2>2
<1>2. /\ requests' \in [Ids -> [auth : Auths, stage : Stages]]
      /\ Ids' = Ids
      /\ requests'[i].stage = stage
      /\ \A j \in Ids : /\ requests'[j].auth = requests[j].auth
                        /\ j # i => requests'[j] = requests[j]
  BY <1>1, AdvanceKeepsType DEF PaymentIInv, Stages
<1>3. TypeOK'
  BY <1>1, <1>2 DEF PaymentIInv, TypeOK
<1>4. ServedWasPaid'
  BY <1>1, <1>2 DEF PaymentIInv, ServedWasPaid
<1>5. OneTransferPerAuth'
  BY <1>1, <1>2 DEF PaymentIInv, OneTransferPerAuth
<1>6. AnsweredIsRecorded'
  <2>1. \A r \in ledger' : r.status = "settled" => transfer'[r.request] = "executed"
    BY <1>1 DEF PaymentIInv, AnsweredIsRecorded
  <2>2. \E r \in ledger' : r.request = i
    <3> DEFINE row == [request |-> i, status |-> status]
    <3>1. row \in ledger' /\ row.request = i
      BY <1>1
    <3> QED
      BY <3>1
  <2> QED
    BY <1>1, <1>2, <2>1, <2>2 DEF PaymentIInv, AnsweredIsRecorded
<1> QED
  BY <1>3, <1>4, <1>5, <1>6 DEF PaymentIInv

-----------------------------------------------------------------------------
(***************************************************************************)
(* Steps of the chain.                                                     *)
(***************************************************************************)
\* A transfer executes only while its authorization is unused.
LEMMA ExecuteStep ==
  ASSUME PaymentIInv, NEW i \in Ids, Execute(i)
  PROVE  PaymentIInv'
<1>1. /\ transfer' \in [Ids -> Transfers]
      /\ transfer[i] = "accepted" /\ transfer'[i] = "executed"
      /\ \A j \in Ids : j # i => transfer'[j] = transfer[j]
      /\ \A j \in Ids : requests[j].auth = requests[i].auth =>
                           transfer[j] # "executed"
      /\ UNCHANGED <<expired, requests, ledger>> /\ Ids' = Ids
  BY DEF Execute, used, PaymentIInv, TypeOK, Transfers, Ids
<1>2. TypeOK'
  BY <1>1 DEF PaymentIInv, TypeOK
<1>3. ServedWasPaid' /\ OneTransferPerAuth'
  BY <1>1 DEF PaymentIInv, ServedWasPaid, OneTransferPerAuth
<1>4. AnsweredIsRecorded'
  BY <1>1 DEF PaymentIInv, TypeOK, AnsweredIsRecorded
<1> QED
  BY <1>2, <1>3, <1>4 DEF PaymentIInv

\* A transfer that reverts had not executed.
LEMMA RevertStep ==
  ASSUME PaymentIInv, NEW i \in Ids, Revert(i)
  PROVE  PaymentIInv'
<1>1. /\ transfer' \in [Ids -> Transfers]
      /\ transfer[i] = "accepted" /\ transfer'[i] = "reverted"
      /\ \A j \in Ids : j # i => transfer'[j] = transfer[j]
      /\ UNCHANGED <<expired, requests, ledger>> /\ Ids' = Ids
  BY DEF Revert, PaymentIInv, TypeOK, Transfers, Ids
<1>2. TypeOK'
  BY <1>1 DEF PaymentIInv, TypeOK
<1>3. ServedWasPaid' /\ OneTransferPerAuth'
  BY <1>1 DEF PaymentIInv, ServedWasPaid, OneTransferPerAuth
<1>4. AnsweredIsRecorded'
  BY <1>1 DEF PaymentIInv, TypeOK, AnsweredIsRecorded
<1> QED
  BY <1>2, <1>3, <1>4 DEF PaymentIInv

-----------------------------------------------------------------------------
\* Every step keeps the invariant.
LEMMA PaymentStep == PaymentIInv /\ [Next]_paymentVars => PaymentIInv'
<1> SUFFICES ASSUME PaymentIInv, [Next]_paymentVars PROVE PaymentIInv'
  OBVIOUS
<1>1. ASSUME NEW a \in Auths, Arrive(a) PROVE PaymentIInv'
  BY <1>1, ArriveStep
<1>2. ASSUME NEW i \in Ids, Verify(i) PROVE PaymentIInv'
  BY <1>2, VerifyStep
<1>3. ASSUME NEW i \in Ids, Submit(i) PROVE PaymentIInv'
  BY <1>3, SubmitStep
<1>4. ASSUME NEW i \in Ids, Poll(i) PROVE PaymentIInv'
  BY <1>4, PollStep
<1>5. ASSUME NEW i \in Ids, Serve(i) \/ AnswerPending(i) PROVE PaymentIInv'
  BY <1>5, AnswerStep
<1>6. ASSUME NEW i \in Ids, Lose(i) PROVE PaymentIInv'
  BY <1>6, AdvanceStep DEF Lose, Stages
<1>7. ASSUME NEW i \in Ids, Execute(i) PROVE PaymentIInv'
  BY <1>7, ExecuteStep
<1>8. ASSUME NEW i \in Ids, Revert(i) PROVE PaymentIInv'
  BY <1>8, RevertStep
<1>9. ASSUME NEW a \in Auths, Expire(a) PROVE PaymentIInv'
  BY <1>9 DEF Expire, PaymentIInv, TypeOK, ServedWasPaid, OneTransferPerAuth,
              AnsweredIsRecorded, Ids
<1>10. CASE UNCHANGED paymentVars
  BY <1>10 DEF paymentVars, PaymentIInv, TypeOK, ServedWasPaid,
     OneTransferPerAuth,
               AnsweredIsRecorded, Ids
<1> QED
  BY <1>1, <1>2, <1>3, <1>4, <1>5, <1>6, <1>7, <1>8, <1>9, <1>10 DEF Next

-----------------------------------------------------------------------------
\* The invariant holds in every reachable state of casper-route.ts, a node
\* and the token contract.
THEOREM PaymentInvariant == Spec => []PaymentIInv
<1> QED
  BY PaymentInitially, PaymentStep, PTL DEF Spec

\* Every field keeps its type, and no transfer exists for a request that was
\* not verified and submitted.
THEOREM TypeCorrect == Spec => []TypeOK
<1>1. PaymentIInv => TypeOK
  BY DEF PaymentIInv
<1> QED
  BY <1>1, PaymentInvariant, PTL

\* No two requests are served on one authorization, however casper-route.ts
\* interleaves them: each was served after its own transfer executed, and the
\* contract executes one.
THEOREM OneService == Spec => []OneServicePerPayment
<1>1. PaymentIInv => OneServicePerPayment
  BY DEF PaymentIInv, ServedWasPaid, OneTransferPerAuth, OneServicePerPayment
<1> QED
  BY <1>1, PaymentInvariant, PTL

\* A settled row of the ledger is a transfer that executed, and a paid request
\* answered 200 or 202 has its row.
THEOREM HonestLedger == Spec => []LedgerIsHonest
<1>1. PaymentIInv => LedgerIsHonest
  BY DEF PaymentIInv, AnsweredIsRecorded, LedgerIsHonest
<1> QED
  BY <1>1, PaymentInvariant, PTL

-----------------------------------------------------------------------------
(***************************************************************************)
(* CasperBuyer.                                                            *)
(*                                                                         *)
(* Beside the server's invariant, whose parts a buyer can leave alone, the *)
(* books follow from what an answer says: the row and the transfer behind  *)
(* it say it too, and a call has seen the answer to its own request.       *)
(***************************************************************************)
\* What an answer says, the row and the transfer behind it say too.
AnswersAreBacked ==
  \A i \in Ids :
    /\ requests[i].stage = "served" =>
         /\ [request |-> i, status |-> "settled"] \in ledger
         /\ transfer[i] = "executed"
    /\ requests[i].stage = "accepted" =>
         [request |-> i, status |-> "pending"] \in ledger
    /\ requests[i].stage \in {"polling", "settled", "unconfirmed", "accepted"} =>
         transfer[i] # "none"

\* A call has seen the answer to its own request.
CallsFollow ==
  /\ calls \in [Auths -> CallStages]
  /\ sentAs \in [Auths -> {0} \cup Ids]
  /\ \A a \in Auths :
       /\ calls[a] \in {"sent", "paid", "paidPending"} => sentAs[a] \in Ids
       /\ calls[a] = "paid" => requests[sentAs[a]].stage = "served"
       /\ calls[a] = "paidPending" => requests[sentAs[a]].stage = "accepted"
BIInv == AnswersAreBacked /\ CallsFollow

\* The inductive invariant of the two together.
BuyerIInv == PaymentIInv /\ AnswersAreBacked /\ CallsFollow

\* What a step of the server or of the chain leaves of a request: an answer is
\* final, a transfer that started or executed has, and rows stay written.
Kept ==
  /\ Ids \subseteq Ids'
  /\ \A i \in Ids : /\ requests[i].stage \in Answered => requests'[i] = requests[i]
                    /\ transfer[i] # "none" => transfer'[i] # "none"
                    /\ transfer[i] = "executed" => transfer'[i] = "executed"
  /\ ledger \subseteq ledger'

\* A request moves on: nothing answered changes.
LEMMA AdvanceKeeps ==
  ASSUME PaymentIInv, NEW i \in Ids, NEW stage \in Stages, advance(i, stage),
         requests[i].stage \notin Answered, ledger \subseteq ledger',
         transfer' \in [Ids -> Transfers], \A j \in Ids : j # i => transfer'[j] = transfer[j],
         transfer[i] = "none" \/ transfer'[i] = transfer[i]
  PROVE  Kept /\ Ids' = Ids /\ requests'[i].stage = stage
         /\ \A j \in Ids : j # i => requests'[j] = requests[j]
<1>1. /\ Ids' = Ids /\ requests'[i].stage = stage
      /\ \A j \in Ids : j # i => requests'[j] = requests[j]
  BY AdvanceKeepsType DEF PaymentIInv
<1>2. ASSUME NEW j \in Ids
      PROVE  /\ requests[j].stage \in Answered => requests'[j] = requests[j]
             /\ transfer[j] # "none" => transfer'[j] # "none"
             /\ transfer[j] = "executed" => transfer'[j] = "executed"
  BY <1>1
<1>. QED BY <1>1, <1>2 DEF Kept

\* Every step keeps what it should and leaves each new answer backed.
LEMMA ServerKeeps ==
  ASSUME PaymentIInv, AnswersAreBacked, [Next]_paymentVars
  PROVE  Kept /\ AnswersAreBacked'
<1>0. /\ requests \in [Ids -> [auth : Auths, stage : Stages]]
      /\ transfer \in [Ids -> Transfers]
      /\ \A i \in Ids : requests[i].stage \in {"received", "verified"} => transfer[i] = "none"
      /\ \A i \in Ids : requests[i].stage \in {"settled", "served"} => transfer[i] = "executed"
  BY DEF PaymentIInv, TypeOK, ServedWasPaid
<1>1. ASSUME NEW a \in Auths, Arrive(a) PROVE Kept /\ AnswersAreBacked'
  <2>1. PICK k \in 0 .. MaxRequests : Ids = 1 .. k
    BY DEF PaymentIInv, TypeOK
  <2>2. Cardinality(Ids) = k
    BY <2>1, FS_Interval
  <2>3. /\ Ids' = 1 .. k + 1
        /\ requests' = [i \in 1 .. k + 1 |->
             IF i \in 1 .. k THEN requests[i] ELSE [auth |-> a, stage |-> "received"]]
        /\ transfer' = [i \in 1 .. k + 1 |-> IF i \in 1 .. k THEN transfer[i] ELSE "none"]
        /\ ledger' = ledger
    BY <1>1, <2>1, <2>2, RequestsAssumption DEF Arrive, Ids
  <2>4. /\ \A i \in Ids : requests'[i] = requests[i] /\ transfer'[i] = transfer[i]
        /\ requests'[k + 1].stage = "received" /\ Ids \subseteq Ids'
        /\ \A i \in Ids' : i \in Ids \/ i = k + 1
    BY <2>1, <2>3
  <2>5. Kept
    BY <2>3, <2>4 DEF Kept
  <2>. QED BY <2>3, <2>4, <2>5 DEF AnswersAreBacked
<1>2. ASSUME NEW i \in Ids, NEW stage \in Stages, advance(i, stage),
             requests[i].stage \notin Answered,
             transfer' \in [Ids -> Transfers], \A j \in Ids : j # i => transfer'[j] = transfer[j],
             transfer[i] = "none" \/ transfer'[i] = transfer[i],
             ledger \subseteq ledger',
             stage = "served" => /\ [request |-> i, status |-> "settled"] \in ledger'
                                 /\ transfer[i] = "executed",
             stage = "accepted" => [request |-> i, status |-> "pending"] \in ledger',
             stage \in {"polling", "settled", "unconfirmed", "accepted"} => transfer'[i] # "none"
      PROVE  Kept /\ AnswersAreBacked'
  <2>1. /\ Kept /\ Ids' = Ids /\ requests'[i].stage = stage
        /\ \A j \in Ids : j # i => requests'[j] = requests[j]
    BY <1>2, AdvanceKeeps
  <2>. QED BY <1>2, <2>1 DEF AnswersAreBacked, Kept
<1>3. ASSUME NEW i \in Ids, Verify(i) PROVE Kept /\ AnswersAreBacked'
  <2>1. PICK stage \in {"verified", "rejected"} : advance(i, stage)
    BY <1>3 DEF Verify
  <2>2. requests[i].stage \notin Answered /\ UNCHANGED <<transfer, ledger>>
    BY <1>3 DEF Verify, Answered
  <2>. QED BY <2>1, <2>2, <1>0, <1>2 DEF Stages
<1>4. ASSUME NEW i \in Ids, Submit(i) PROVE Kept /\ AnswersAreBacked'
  <2>1. /\ requests[i].stage \notin Answered /\ transfer[i] = "none" /\ UNCHANGED ledger
    BY <1>4, <1>0 DEF Submit, Answered
  <2>2. CASE advance(i, "rejected") /\ UNCHANGED transfer
    BY <2>1, <2>2, <1>0, <1>2 DEF Stages
  <2>3. ASSUME transfer' = [transfer EXCEPT ![i] = "accepted"],
               NEW stage \in {"polling", "rejected"}, advance(i, stage)
        PROVE  Kept /\ AnswersAreBacked'
    <3>1. /\ transfer' \in [Ids -> Transfers] /\ transfer'[i] # "none"
          /\ \A j \in Ids : j # i => transfer'[j] = transfer[j]
      BY <2>3, <1>0 DEF Transfers
    <3>. QED BY <2>1, <2>3, <3>1, <1>2 DEF Stages
  <2>. QED BY <1>4, <2>2, <2>3 DEF Submit, lostReply
<1>5. ASSUME NEW i \in Ids, Poll(i) PROVE Kept /\ AnswersAreBacked'
  <2>1. PICK stage \in {"settled", "unconfirmed", "rejected"} : advance(i, stage)
    BY <1>5 DEF Poll, timeout
  <2>2. /\ requests[i].stage \notin Answered /\ UNCHANGED <<transfer, ledger>>
        /\ transfer[i] # "none"
    BY <1>5 DEF Poll, Answered, AnswersAreBacked
  <2>. QED BY <2>1, <2>2, <1>0, <1>2 DEF Stages
<1>6. ASSUME NEW i \in Ids, Serve(i) PROVE Kept /\ AnswersAreBacked'
  <2>1. /\ requests[i].stage \notin Answered /\ transfer[i] = "executed" /\ UNCHANGED transfer
        /\ advance(i, "served") /\ [request |-> i, status |-> "settled"] \in ledger'
        /\ ledger \subseteq ledger'
    BY <1>6, <1>0 DEF Serve, Answered
  <2>. QED BY <2>1, <1>0, <1>2 DEF Stages
<1>7. ASSUME NEW i \in Ids, AnswerPending(i) PROVE Kept /\ AnswersAreBacked'
  <2>1. /\ requests[i].stage \notin Answered /\ transfer[i] # "none" /\ UNCHANGED transfer
        /\ advance(i, "accepted") /\ [request |-> i, status |-> "pending"] \in ledger'
        /\ ledger \subseteq ledger'
    BY <1>7 DEF AnswerPending, Answered, AnswersAreBacked
  <2>. QED BY <2>1, <1>0, <1>2 DEF Stages
<1>8. ASSUME NEW i \in Ids, Lose(i) PROVE Kept /\ AnswersAreBacked'
  <2>1. /\ requests[i].stage \notin Answered /\ UNCHANGED <<transfer, ledger>> /\ advance(i, "lost")
    BY <1>8 DEF Lose
  <2>. QED BY <2>1, <1>0, <1>2 DEF Stages
<1>9. ASSUME NEW i \in Ids, Execute(i) \/ Revert(i) PROVE Kept /\ AnswersAreBacked'
  <2>1. /\ Ids' = Ids /\ UNCHANGED <<requests, ledger>>
        /\ transfer[i] = "accepted" /\ transfer'[i] \in {"executed", "reverted"}
        /\ \A j \in Ids : j # i => transfer'[j] = transfer[j]
    BY <1>9, <1>0 DEF Execute, Revert, Ids
  <2>2. Kept
    BY <2>1 DEF Kept
  <2>. QED BY <2>1, <2>2 DEF AnswersAreBacked, Kept
<1>10. ASSUME UNCHANGED <<requests, transfer, ledger>> PROVE Kept /\ AnswersAreBacked'
  <2>1. Ids' = Ids
    BY <1>10 DEF Ids
  <2>. QED BY <1>10, <2>1 DEF Kept, AnswersAreBacked
<1>11. ASSUME NEW a \in Auths, Expire(a) PROVE Kept /\ AnswersAreBacked'
  BY <1>10, <1>11 DEF Expire
<1>12. CASE UNCHANGED paymentVars
  BY <1>10, <1>12 DEF paymentVars
<1>. QED BY <1>1, <1>3, <1>4, <1>5, <1>6, <1>7, <1>8, <1>9, <1>11, <1>12
    DEF Next

\* Calls that stand still still say what they saw.
LEMMA CallsStand ==
  ASSUME CallsFollow, Kept, UNCHANGED <<calls, sentAs>> PROVE CallsFollow'
<1>1. /\ calls' \in [Auths -> CallStages] /\ sentAs' \in [Auths -> {0} \cup Ids']
  BY DEF CallsFollow, Kept
<1>2. ASSUME NEW a \in Auths
      PROVE  /\ calls'[a] \in {"sent", "paid", "paidPending"} => sentAs'[a] \in Ids'
             /\ calls'[a] = "paid" => requests'[sentAs'[a]].stage = "served"
             /\ calls'[a] = "paidPending" => requests'[sentAs'[a]].stage = "accepted"
  <2>1. sentAs'[a] = sentAs[a] /\ calls'[a] = calls[a]
    OBVIOUS
  <2>2. sentAs[a] \in Ids /\ requests[sentAs[a]].stage \in Answered
          => sentAs[a] \in Ids' /\ requests'[sentAs[a]] = requests[sentAs[a]]
    BY DEF Kept
  <2>. QED BY <2>1, <2>2 DEF CallsFollow, Kept, Answered
<1>. QED BY <1>1, <1>2 DEF CallsFollow

\* A call that goes on may say no more than its request does.
LEMMA CallStep ==
  ASSUME CallsFollow, NEW a \in Auths, NEW stage \in CallStages, goesOn(a, stage),
         UNCHANGED <<requests, sentAs>>,
         stage \in {"sent", "paid", "paidPending"} => sentAs[a] \in Ids,
         stage = "paid" => requests[sentAs[a]].stage = "served",
         stage = "paidPending" => requests[sentAs[a]].stage = "accepted"
  PROVE  CallsFollow'
<1>1. Ids' = Ids
  BY DEF Ids
<1>2. /\ calls' \in [Auths -> CallStages] /\ calls'[a] = stage
      /\ \A b \in Auths : b # a => calls'[b] = calls[b]
  BY DEF goesOn, CallsFollow
<1>. QED BY <1>1, <1>2 DEF CallsFollow

LEMMA BuyerStep == BuyerIInv /\ [BuyerNext]_buyerVars => BuyerIInv'
<1>. SUFFICES ASSUME BuyerIInv, [BuyerNext]_buyerVars PROVE BuyerIInv'
  OBVIOUS
<1>0. PaymentIInv /\ AnswersAreBacked /\ CallsFollow
  BY DEF BuyerIInv
<1>1. ASSUME [Next]_paymentVars PROVE PaymentIInv' /\ Kept /\ AnswersAreBacked'
  BY <1>0, <1>1, PaymentStep, ServerKeeps
<1>2. ASSUME NEW a \in Auths, ReadQuote(a) PROVE BuyerIInv'
  <2>1. PaymentIInv' /\ AnswersAreBacked' /\ UNCHANGED <<requests, sentAs>>
    BY <1>1, <1>2 DEF ReadQuote, paymentVars
  <2>2. PICK stage \in {"signed", "unsigned", "threw"} : goesOn(a, stage)
    BY <1>2 DEF ReadQuote
  <2>. QED BY <2>1, <2>2, <1>0, CallStep DEF CallStages, BuyerIInv
<1>3. ASSUME NEW a \in Auths, Present(a) PROVE BuyerIInv'
  <2>1. PaymentIInv' /\ AnswersAreBacked' /\ Kept
    <3>1. Next
      BY <1>3 DEF Present, Next
    <3>. QED BY <1>1, <3>1
  <2>2. PICK k \in 0 .. MaxRequests : Ids = 1 .. k
    BY <1>0 DEF PaymentIInv, TypeOK
  <2>3. Cardinality(Ids) = k
    BY <2>2, FS_Interval
  <2>4. k + 1 \in Ids'
    BY <1>3, <2>2, <2>3 DEF Present, Arrive, Ids
  <2>5. /\ sentAs' = [sentAs EXCEPT ![a] = k + 1] /\ calls' = [calls EXCEPT ![a] = "sent"]
    BY <1>3, <2>3 DEF Present, goesOn
  <2>6. /\ calls' \in [Auths -> CallStages] /\ sentAs' \in [Auths -> {0} \cup Ids']
        /\ calls'[a] = "sent" /\ sentAs'[a] = k + 1
        /\ \A b \in Auths : b # a => calls'[b] = calls[b] /\ sentAs'[b] = sentAs[b]
    BY <2>5, <2>4, <1>0, <2>1 DEF CallsFollow, CallStages, Kept
  <2>7. ASSUME NEW b \in Auths
        PROVE  /\ calls'[b] \in {"sent", "paid", "paidPending"} => sentAs'[b] \in Ids'
               /\ calls'[b] = "paid" => requests'[sentAs'[b]].stage = "served"
               /\ calls'[b] = "paidPending" => requests'[sentAs'[b]].stage = "accepted"
    <3>1. CASE b = a
      BY <3>1, <2>4, <2>6
    <3>2. CASE b # a
      <4>1. sentAs'[b] = sentAs[b] /\ calls'[b] = calls[b]
        BY <3>2, <2>6
      <4>2. sentAs[b] \in Ids /\ requests[sentAs[b]].stage \in Answered
              => requests'[sentAs[b]] = requests[sentAs[b]]
        BY <2>1 DEF Kept
      <4>. QED BY <4>1, <4>2, <2>1, <1>0 DEF CallsFollow, Kept, Answered
    <3>. QED BY <3>1, <3>2
  <2>. QED BY <2>1, <2>6, <2>7 DEF BuyerIInv, CallsFollow
<1>4. ASSUME NEW a \in Auths, PresentToo(a) PROVE BuyerIInv'
  <2>1. Next /\ UNCHANGED <<calls, sentAs>>
    BY <1>4 DEF PresentToo, Next
  <2>. QED BY <2>1, <1>0, <1>1, CallsStand DEF BuyerIInv
<1>5. ASSUME NEW a \in Auths, ReadAnswer(a) PROVE BuyerIInv'
  <2>1. PaymentIInv' /\ AnswersAreBacked' /\ UNCHANGED <<requests, sentAs>>
    BY <1>1, <1>5 DEF ReadAnswer, paymentVars
  <2>2. sentAs[a] \in Ids
    BY <1>5, <1>0 DEF ReadAnswer, CallsFollow
  <2>3. \/ goesOn(a, "refused")
        \/ goesOn(a, "paid") /\ requests[sentAs[a]].stage = "served"
        \/ goesOn(a, "paidPending") /\ requests[sentAs[a]].stage = "accepted"
    BY <1>5 DEF ReadAnswer, isOk
  <2>. QED BY <2>1, <2>2, <2>3, <1>0, CallStep DEF CallStages, BuyerIInv
<1>6. ASSUME NEW a \in Auths, FetchThrows(a) PROVE BuyerIInv'
  <2>1. PaymentIInv' /\ AnswersAreBacked' /\ UNCHANGED <<requests, sentAs>> /\ goesOn(a, "threw")
    BY <1>1, <1>6 DEF FetchThrows, paymentVars
  <2>. QED BY <2>1, <1>0, CallStep DEF CallStages, BuyerIInv
<1>7. CASE serverSteps /\ UNCHANGED <<calls, sentAs>>
  <2>1. Next
    BY <1>7 DEF serverSteps, Next
  <2>. QED BY <2>1, <1>7, <1>0, <1>1, CallsStand DEF BuyerIInv
<1>8. CASE UNCHANGED buyerVars
  BY <1>8, <1>0, <1>1, CallsStand DEF BuyerIInv, buyerVars, paymentVars
<1>. QED BY <1>2, <1>3, <1>4, <1>5, <1>6, <1>7, <1>8 DEF BuyerNext

LEMMA BuyerInitially == BuyerInit => BuyerIInv
<1>. SUFFICES ASSUME BuyerInit PROVE BuyerIInv
  OBVIOUS
<1>1. PaymentIInv
  BY PaymentInitially DEF BuyerInit
<1>2. Ids = {}
  BY DEF BuyerInit, Init, Ids
<1>. QED BY <1>1, <1>2 DEF BuyerInit, BuyerIInv, AnswersAreBacked, CallsFollow,
    CallStages

\* What a buyer was told is on the books: a result it got is a settled row, a
\* result still pending a row (casper-route.ts answers after it wrote the row),
\* whatever the answers do on their way.
THEOREM BuyersAreOnTheBooks == BuyerSpec => []OkIsOnTheBooks
<1>1. BuyerIInv => OkIsOnTheBooks
  BY DEF BuyerIInv, AnswersAreBacked, CallsFollow, OkIsOnTheBooks
<1>. QED BY <1>1, BuyerInitially, BuyerStep, PTL DEF BuyerSpec

-----------------------------------------------------------------------------
(***************************************************************************)
(* DemoSpend.                                                              *)
(*                                                                         *)
(* Beside the promises the invariant keeps, per call, what moved and what  *)
(* remains as parts of the budget; and what Redis counts for refused       *)
(* requests as the sum of what waits to be given back, by a running total  *)
(* over the requests.                                                      *)
(***************************************************************************)
\* What is left of a budget is what has not moved, until a call fails.
BudgetIsKept ==
  /\ \A i \in CallIds :
       /\ spends[i].stage = "paying" => spends[i].moved + spends[i].remaining = spends[i].budget
       /\ spends[i].stage \in {"asking", "over"} =>
            spends[i].moved = 0 /\ spends[i].remaining = spends[i].budget
  /\ grantedBy = local

\* What Redis counts for refused requests is what those that wait to give back
\* add up to: a running total over the requests.
owed(i) == IF spends[i].stage = "over" THEN spends[i].budget ELSE 0

RunningTotal(S) ==
  /\ S[0] = 0 /\ S[Len(spends)] = refused
  /\ \A i \in CallIds : S[i] = S[i - 1] + owed(i)
  /\ \A i, j \in 0 .. Len(spends) : i <= j => S[i] <= S[j]

RefusedAddUp == \E S \in [0 .. Len(spends) -> 0 .. refused] : RunningTotal(S)
\* The inductive invariant.
SpendIInv == SpendInv /\ BudgetIsKept /\ RefusedAddUp

SpendRecord == [process : Processes, plan : Seq(Nat \ {0}), budget : Nat,
                stage : SpendStages, reserved : {"nothing", "redis", "local"},
                remaining : Nat, next : Nat \ {0}, moved : Nat]

LEMMA SpendParts ==
  ASSUME SpendIInv
  PROVE  /\ redis \in Nat /\ granted \in Nat /\ refused \in Nat
         /\ local \in [Processes -> Nat] /\ grantedBy = local
         /\ ended \subseteq Processes /\ spends \in Seq(SpendRecord)
         /\ CallIds = 1 .. Len(spends) /\ Len(spends) \in Nat
         /\ \A i \in CallIds : spends[i] \in SpendRecord
         /\ granted <= Cap /\ \A p \in Processes : grantedBy[p] <= Cap
         /\ redis >= granted + refused
<1>1. spends \in Seq(SpendRecord)
  BY DEF SpendIInv, SpendInv, SpendTypeOK, SpendRecord
<1>2. CallIds = 1 .. Len(spends) /\ Len(spends) \in Nat
         /\ \A i \in CallIds : spends[i] \in SpendRecord
  BY <1>1 DEF CallIds
<1>. QED BY <1>1, <1>2 DEF SpendIInv, SpendInv, SpendTypeOK, GrantsWithinCap,
              AllowanceNotReturnedTwice, BudgetIsKept

\* The converse: the parts make the invariant of the next state.
LEMMA SpendWhole ==
  ASSUME redis' \in Nat, granted' \in Nat, refused' \in Nat,
         local' \in [Processes -> Nat], grantedBy' = local',
         ended' \subseteq Processes, spends' \in Seq(SpendRecord),
         granted' <= Cap, \A p \in Processes : grantedBy'[p] <= Cap,
         redis' >= granted' + refused',
         \A i \in 1 .. Len(spends') :
           /\ spends'[i].moved <= spends'[i].budget
           /\ spends'[i].stage = "paying" =>
                spends'[i].moved + spends'[i].remaining = spends'[i].budget
           /\ spends'[i].stage \in {"asking", "over"} =>
                spends'[i].moved = 0 /\ spends'[i].remaining = spends'[i].budget,
         RefusedAddUp'
  PROVE  SpendIInv'
<1>1. SpendTypeOK'
  BY DEF SpendTypeOK, SpendRecord
<1>2. CallIds' = 1 .. Len(spends')
  BY DEF CallIds
<1>3. RunStaysInBudget' /\ BudgetIsKept' /\ GrantsWithinCap' /\ AllowanceNotReturnedTwice'
  BY <1>2 DEF RunStaysInBudget, BudgetIsKept, GrantsWithinCap,
     AllowanceNotReturnedTwice
<1>. QED BY <1>1, <1>3 DEF SpendIInv, SpendInv

LEMMA SpendInitially == SpendInit => SpendIInv
<1>. SUFFICES ASSUME SpendInit PROVE SpendIInv
  OBVIOUS
<1>1. SpendTypeOK /\ RunStaysInBudget /\ GrantsWithinCap /\ AllowanceNotReturnedTwice
  BY SpendAssumption DEF SpendInit, SpendTypeOK, RunStaysInBudget,
     GrantsWithinCap,
     AllowanceNotReturnedTwice, CallIds
<1>2. BudgetIsKept
  BY DEF SpendInit, BudgetIsKept, CallIds
<1>3. RefusedAddUp
  <2>. DEFINE S == [i \in 0 .. 0 |-> 0]
  <2>0. PICK T : T = S
    OBVIOUS
  <2>1. T \in [0 .. Len(spends) -> 0 .. refused]
    BY <2>0 DEF SpendInit
  <2>2. RunningTotal(T)
    BY <2>0 DEF SpendInit, RunningTotal, CallIds
  <2>. QED BY <2>1, <2>2 DEF RefusedAddUp
<1>. QED BY <1>1, <1>2, <1>3 DEF SpendIInv, SpendInv

\* A running total over debts: T ends with what they add up to.
Total(T, n, debt, sum) ==
  /\ T \in [0 .. n -> 0 .. sum] /\ T[0] = 0 /\ T[n] = sum
  /\ \A j \in 1 .. n : T[j] = T[j - 1] + debt[j]
  /\ \A j, k \in 0 .. n : j <= k => T[j] <= T[k]

\* One debt changes.
LEMMA TotalShifts ==
  ASSUME NEW n \in Nat, NEW r \in Nat, NEW i \in 1 .. n, NEW o \in [1 .. n -> Nat],
         NEW e \in Nat, NEW S, Total(S, n, o, r)
  PROVE  \E T : Total(T, n, [o EXCEPT ![i] = e], r - o[i] + e) /\ r - o[i] + e \in Nat
<1>. DEFINE d == e - o[i]
            T == [j \in 0 .. n |-> IF j >= i THEN S[j] + d ELSE S[j]]
<1>1. /\ S \in [0 .. n -> 0 .. r] /\ S[0] = 0 /\ S[n] = r
      /\ \A j \in 1 .. n : S[j] = S[j - 1] + o[j]
      /\ \A j, k \in 0 .. n : j <= k => S[j] <= S[k]
  BY DEF Total
<1>2. (\A j \in 0 .. n : S[j] \in Nat) /\ o[i] \in Nat /\ d \in Int
  BY <1>1
<1>3. \A j \in 0 .. n : T[j] = IF j >= i THEN S[j] + d ELSE S[j]
  OBVIOUS
<1>4. S[i] + d = S[i - 1] + e /\ S[i - 1] \in Nat /\ i - 1 \in 0 .. n
  BY <1>1, <1>2
<1>5. T \in [0 .. n -> Int]
  BY <1>2
<1>. HIDE DEF d, T
<1>6. ASSUME NEW j \in 0 .. n, NEW k \in 0 .. n, j <= k PROVE T[j] <= T[k]
  <2>1. S[j] <= S[k] /\ S[j] \in Nat /\ S[k] \in Nat
    BY <1>1, <1>2, <1>6
  <2>2. CASE j >= i
    <3>1. T[j] = S[j] + d /\ T[k] = S[k] + d
      BY <2>2, <1>3, <1>6
    <3>. QED BY <2>1, <3>1, <1>2
  <2>3. CASE k < i
    <3>1. T[j] = S[j] /\ T[k] = S[k]
      BY <2>3, <1>3, <1>6
    <3>. QED BY <2>1, <3>1
  <2>4. CASE j < i /\ k >= i
    <3>1. S[j] <= S[i - 1] /\ S[i] <= S[k] /\ S[i] \in Nat
      <4>1. i \in 0 .. n /\ i - 1 \in 0 .. n /\ j <= i - 1 /\ i <= k
        BY <2>4
      <4>2. S[j] <= S[i - 1]
        BY <4>1, <1>1
      <4>3. S[i] <= S[k]
        BY <4>1, <1>1
      <4>. QED BY <4>1, <4>2, <4>3, <1>2
    <3>2. T[j] = S[j] /\ T[k] = S[k] + d
      BY <2>4, <1>3
    <3>3. S[i] + d <= S[k] + d
      BY <3>1, <2>1, <1>2
    <3>4. S[j] <= S[i] + d
      BY SMTT(30), <3>1, <2>1, <1>4
    <3>5. S[i] + d \in Int /\ S[k] + d \in Int /\ S[j] \in Int
      BY SMTT(30), <3>1, <2>1, <1>2
    <3>. QED BY <3>2, <3>3, <3>4, <3>5
  <2>. QED BY <2>2, <2>3, <2>4
<1>7. T[0] = 0 /\ T[n] = r + d /\ r + d = r - o[i] + e
  <2>1. 0 \in 0 .. n /\ n \in 0 .. n /\ ~(0 >= i) /\ n >= i
    OBVIOUS
  <2>2. T[0] = S[0] /\ T[n] = S[n] + d
    BY <2>1, <1>3
  <2>. QED BY <2>2, <1>1, <1>2 DEF d
<1>8. ASSUME NEW j \in 0 .. n PROVE T[j] \in 0 .. r + d
  <2>1. T[j] \in Int /\ T[0] <= T[j] /\ T[j] <= T[n]
    BY <1>5, <1>6
  <2>. QED BY <2>1, <1>7, <1>2
<1>9. T \in [0 .. n -> 0 .. r + d] /\ r + d \in Nat
  BY <1>5, <1>7, <1>8, <1>2
<1>10. ASSUME NEW j \in 1 .. n PROVE T[j] = T[j - 1] + [o EXCEPT ![i] = e][j]
  <2>1. CASE j = i
    <3>1. T[j] = S[i] + d /\ T[j - 1] = S[i - 1]
      BY <2>1, <1>3, <1>4
    <3>. QED BY <2>1, <3>1, <1>4
  <2>2. CASE j # i
    <3>0. j - 1 \in 0 .. n /\ o[j] \in Nat
      OBVIOUS
    <3>1. S[j] = S[j - 1] + o[j] /\ o[j] \in Nat /\ j - 1 \in 0 .. n /\ S[j - 1] \in Nat
      BY <3>0, <1>1, <1>2
    <3>2. (j >= i <=> j - 1 >= i) /\ [o EXCEPT ![i] = e][j] = o[j]
      BY <2>2
    <3>3. T[j] = (IF j >= i THEN S[j] + d ELSE S[j]) /\ T[j - 1] = (IF j >= i THEN S[j - 1] + d ELSE S[j - 1])
      BY <1>3, <3>1, <3>2
    <3>. QED BY SMTT(30), <3>1, <3>2, <3>3, <1>2
  <2>. QED BY <2>1, <2>2
<1>11. Total(T, n, [o EXCEPT ![i] = e], r - o[i] + e) /\ r - o[i] + e \in Nat
  BY <1>6, <1>7, <1>9, <1>10 DEF Total
<1>. QED BY <1>11

\* One more, which owes nothing.
LEMMA TotalExtends ==
  ASSUME NEW n \in Nat, NEW r \in Nat, NEW o \in [1 .. n -> Nat],
         NEW p \in [1 .. n + 1 -> Nat], p[n + 1] = 0, \A j \in 1 .. n : p[j] = o[j],
         NEW S, Total(S, n, o, r)
  PROVE  \E T : Total(T, n + 1, p, r)
<1>. DEFINE T == [j \in 0 .. n + 1 |-> IF j <= n THEN S[j] ELSE r]
<1>1. /\ S \in [0 .. n -> 0 .. r] /\ S[0] = 0 /\ S[n] = r
      /\ \A j \in 1 .. n : S[j] = S[j - 1] + o[j]
      /\ \A j, k \in 0 .. n : j <= k => S[j] <= S[k]
  BY DEF Total
<1>2. /\ \A j \in 0 .. n : T[j] = S[j] /\ S[j] \in 0 .. r
      /\ T[n + 1] = r
  BY <1>1
<1>3. T \in [0 .. n + 1 -> 0 .. r]
  BY <1>1
<1>. HIDE DEF T
<1>4. ASSUME NEW j \in 1 .. n + 1 PROVE T[j] = T[j - 1] + p[j]
  <2>1. CASE j = n + 1
    BY <2>1, <1>1, <1>2
  <2>2. CASE j \in 1 .. n
    <3>1. T[j] = S[j] /\ T[j - 1] = S[j - 1] /\ p[j] = o[j]
      BY <2>2, <1>2
    <3>. QED BY <2>2, <3>1, <1>1
  <2>. QED BY <2>1, <2>2
<1>5. ASSUME NEW j \in 0 .. n + 1, NEW k \in 0 .. n + 1, j <= k PROVE T[j] <= T[k]
  <2>1. CASE k = n + 1
    <3>1. T[j] \in 0 .. r
      BY <1>3
    <3>. QED BY <2>1, <3>1, <1>2
  <2>2. CASE k \in 0 .. n
    <3>1. j \in 0 .. n
      BY <2>2, <1>5
    <3>2. T[j] = S[j] /\ T[k] = S[k] /\ S[j] <= S[k]
      BY <2>2, <3>1, <1>5, <1>1, <1>2
    <3>. QED BY <3>2
  <2>. QED BY <2>1, <2>2
<1>6. T[0] = 0
  BY <1>1, <1>2
<1>. QED BY <1>2, <1>3, <1>4, <1>5, <1>6 DEF Total

\* In these terms.
LEMMA AddUp ==
  ASSUME NEW n \in Nat, n = Len(spends), CallIds = 1 .. n, NEW r \in Nat, r = refused,
         NEW o \in [1 .. n -> Nat], \A j \in 1 .. n : o[j] = owed(j)
  PROVE  RefusedAddUp <=> \E T : Total(T, n, o, r)
BY DEF RefusedAddUp, RunningTotal, Total

LEMMA OwedIsNat == ASSUME SpendIInv PROVE \A j \in CallIds : owed(j) \in Nat
<1>1. ASSUME NEW j \in CallIds PROVE owed(j) \in Nat
  <2>1. spends[j] \in SpendRecord
    BY SpendParts
  <2>. QED BY <2>1 DEF owed, SpendRecord
<1>. QED BY <1>1

\* A request comes: it owes nothing.
LEMMA SpendArriveStep ==
  ASSUME SpendIInv, NEW call \in SpendRecord, call.stage # "over", arrives(call),
         call.moved = 0, call.remaining = call.budget
  PROVE  SpendIInv'
<1>. PICK n \in Nat, r \in Nat : n = Len(spends) /\ r = refused
  BY SpendParts
<1>1. /\ spends' = Append(spends, call)
      /\ UNCHANGED <<redis, local, ended, granted, grantedBy, refused>>
  BY DEF arrives, grants
<1>2. spends \in Seq(SpendRecord) /\ CallIds = 1 .. n
  BY SpendParts
<1>3. /\ spends' \in Seq(SpendRecord) /\ Len(spends') = n + 1
      /\ spends'[n + 1] = call /\ \A i \in 1 .. n : spends'[i] = spends[i]
  BY <1>1, <1>2
<1>4. CallIds' = 1 .. n + 1
  BY <1>3 DEF CallIds
<1>5. RefusedAddUp'
  <2>. DEFINE o == [j \in 1 .. n |-> owed(j)]
              p == [j \in 1 .. n + 1 |-> owed(j)']
  <2>1. PICK oo : oo = o
    OBVIOUS
  <2>2. PICK pp : pp = p
    OBVIOUS
  <2>3. oo \in [1 .. n -> Nat] /\ \A j \in 1 .. n : oo[j] = owed(j)
    BY <2>1, <1>2, OwedIsNat
  <2>4. /\ pp \in [1 .. n + 1 -> Nat] /\ \A j \in 1 .. n + 1 : pp[j] = owed(j)'
        /\ pp[n + 1] = 0 /\ \A j \in 1 .. n : pp[j] = oo[j]
    <3>1. \A j \in 1 .. n + 1 : pp[j] = owed(j)'
      BY <2>2
    <3>2. owed(n + 1)' = 0 /\ \A j \in 1 .. n : owed(j)' = owed(j)
      BY <1>3 DEF owed
    <3>3. \A j \in 1 .. n + 1 : owed(j)' \in Nat
      BY <3>2, <2>3
    <3>. QED BY <3>1, <3>2, <3>3, <2>2, <2>3
  <2>5. PICK S : Total(S, n, oo, r)
    BY <2>3, <1>2, AddUp DEF SpendIInv
  <2>6. \E T : Total(T, n + 1, pp, r)
    <3>. HIDE DEF o, p
    <3>. QED BY <2>3, <2>4, <2>5, TotalExtends
  <2>. QED BY <2>4, <2>6, <1>1, <1>3, <1>4 DEF RefusedAddUp, RunningTotal, Total
<1>6. \A i \in 1 .. Len(spends') :
           /\ spends'[i].moved <= spends'[i].budget
           /\ spends'[i].stage = "paying" =>
                spends'[i].moved + spends'[i].remaining = spends'[i].budget
           /\ spends'[i].stage \in {"asking", "over"} =>
                spends'[i].moved = 0 /\ spends'[i].remaining = spends'[i].budget
  <2>1. ASSUME NEW i \in 1 .. n
        PROVE  /\ spends[i].moved <= spends[i].budget
               /\ spends[i].stage = "paying" =>
                    spends[i].moved + spends[i].remaining = spends[i].budget
               /\ spends[i].stage \in {"asking", "over"} =>
                    spends[i].moved = 0 /\ spends[i].remaining = spends[i].budget
    BY <2>1, <1>2 DEF SpendIInv, SpendInv, RunStaysInBudget, BudgetIsKept
  <2>2. call.budget \in Nat
    BY DEF SpendRecord
  <2>. QED BY <2>1, <2>2, <1>2, <1>3
<1>. QED BY <1>1, <1>3, <1>5, <1>6, SpendParts, SpendWhole

\* A request goes on; what it owes may change, and the count with it.
GoesOn(i, rec) ==
  /\ spends' = [spends EXCEPT ![i] = rec] /\ rec.budget = spends[i].budget
  /\ refused' = refused - owed(i) + IF rec.stage = "over" THEN rec.budget ELSE 0
  /\ rec.moved <= rec.budget
  /\ rec.stage = "paying" => rec.moved + rec.remaining = rec.budget
  /\ rec.stage \in {"asking", "over"} => rec.moved = 0 /\ rec.remaining = rec.budget
  /\ redis' \in Int /\ redis' >= granted' + refused' /\ granted' \in Nat /\ granted' <= Cap
  /\ local' \in [Processes -> Nat] /\ grantedBy' = local' /\ ended' = ended
  /\ \A p \in Processes : grantedBy'[p] <= Cap

LEMMA RequestStep ==
  ASSUME SpendIInv, NEW i \in CallIds, NEW rec \in SpendRecord, GoesOn(i, rec)
  PROVE  SpendIInv'
<1>. USE DEF GoesOn
<1>. PICK n \in Nat, r \in Nat : n = Len(spends) /\ r = refused
  BY SpendParts
<1>1. spends \in Seq(SpendRecord) /\ CallIds = 1 .. n /\ i \in 1 .. n
  BY SpendParts
<1>2. /\ spends' \in Seq(SpendRecord) /\ Len(spends') = n
      /\ spends'[i] = rec /\ \A j \in 1 .. n : j # i => spends'[j] = spends[j]
  BY <1>1
<1>3. CallIds' = 1 .. n
  BY <1>2 DEF CallIds
<1>. DEFINE e == IF rec.stage = "over" THEN rec.budget ELSE 0
<1>4. e \in Nat
  BY DEF SpendRecord
<1>. HIDE DEF e
<1>5. PICK oo : oo = [j \in 1 .. n |-> owed(j)]
  OBVIOUS
<1>6. oo \in [1 .. n -> Nat] /\ \A j \in 1 .. n : oo[j] = owed(j)
  BY <1>5, <1>1, OwedIsNat
<1>7. PICK S : Total(S, n, oo, r)
  BY <1>6, <1>1, AddUp DEF SpendIInv
<1>8. PICK T : Total(T, n, [oo EXCEPT ![i] = e], r - oo[i] + e) /\ r - oo[i] + e \in Nat
  BY <1>1, <1>4, <1>6, <1>7, TotalShifts
<1>9. refused' = r - oo[i] + e /\ refused' \in Nat
  BY <1>1, <1>6, <1>8 DEF e
<1>10. \A j \in 1 .. n : [oo EXCEPT ![i] = e][j] = owed(j)'
  <2>1. owed(i)' = e
    BY <1>2 DEF owed, e
  <2>2. \A j \in 1 .. n : j # i => owed(j)' = owed(j)
    BY <1>2 DEF owed
  <2>. QED BY <2>1, <2>2, <1>6
<1>11. RefusedAddUp'
  <2>1. T \in [0 .. Len(spends') -> 0 .. refused']
    BY <1>2, <1>8, <1>9 DEF Total
  <2>2. RunningTotal(T)'
    BY <1>2, <1>3, <1>8, <1>9, <1>10 DEF RunningTotal, Total
  <2>. QED BY <2>1, <2>2 DEF RefusedAddUp
<1>16. \A j \in 1 .. Len(spends') :
           /\ spends'[j].moved <= spends'[j].budget
           /\ spends'[j].stage = "paying" =>
                spends'[j].moved + spends'[j].remaining = spends'[j].budget
           /\ spends'[j].stage \in {"asking", "over"} =>
                spends'[j].moved = 0 /\ spends'[j].remaining = spends'[j].budget
  <2>1. ASSUME NEW j \in 1 .. n
        PROVE  /\ spends[j].moved <= spends[j].budget
               /\ spends[j].stage = "paying" =>
                    spends[j].moved + spends[j].remaining = spends[j].budget
               /\ spends[j].stage \in {"asking", "over"} =>
                    spends[j].moved = 0 /\ spends[j].remaining = spends[j].budget
    BY <2>1, <1>1 DEF SpendIInv, SpendInv, RunStaysInBudget, BudgetIsKept
  <2>. QED BY <2>1, <1>2
<1>17. redis' \in Nat
  BY <1>9
<1>. QED BY <1>2, <1>9, <1>11, <1>16, <1>17, SpendParts, SpendWhole

LEMMA BudgetsKept ==
  ASSUME SpendIInv, NEW i \in CallIds
  PROVE  /\ spends[i] \in SpendRecord /\ spends[i].moved <= spends[i].budget
         /\ spends[i].stage = "paying" =>
              spends[i].moved + spends[i].remaining = spends[i].budget
         /\ spends[i].stage \in {"asking", "over"} =>
              spends[i].moved = 0 /\ spends[i].remaining = spends[i].budget
BY SpendParts DEF SpendIInv, SpendInv, RunStaysInBudget, BudgetIsKept

\* Entering a stage, with what was reserved.
LEMMA Entered ==
  ASSUME SpendIInv, NEW i \in CallIds, NEW stage \in SpendStages,
         NEW reserved \in {"nothing", "redis", "local"}, enter(i, stage, reserved)
  PROVE  \E rec \in SpendRecord :
           /\ spends' = [spends EXCEPT ![i] = rec]
           /\ rec.stage = stage /\ rec.budget = spends[i].budget
           /\ rec.moved = spends[i].moved /\ rec.remaining = spends[i].remaining
<1>. DEFINE rec == [spends[i] EXCEPT !.stage = stage, !.reserved = reserved]
<1>1. spends[i] \in SpendRecord /\ spends \in Seq(SpendRecord) /\ i \in 1 .. Len(spends)
  BY SpendParts
<1>2. /\ rec \in SpendRecord
      /\ rec.stage = stage /\ rec.budget = spends[i].budget
      /\ rec.moved = spends[i].moved /\ rec.remaining = spends[i].remaining
  BY <1>1 DEF SpendRecord
<1>3. spends' = [spends EXCEPT ![i] = rec]
  BY <1>1 DEF enter
<1>. HIDE DEF rec
<1>. QED BY <1>2, <1>3

LEMMA ReserveStep == ASSUME SpendIInv, NEW i \in CallIds, ReserveInRedis(i) PROVE SpendIInv'
<1>. DEFINE b == spends[i].budget
<1>1. /\ b \in Nat /\ spends[i].stage = "asking" /\ owed(i) = 0
      /\ spends[i].moved = 0 /\ spends[i].remaining = b
  BY BudgetsKept DEF ReserveInRedis, SpendRecord, owed
<1>2. /\ redis' = redis + b /\ UNCHANGED <<local, grantedBy, ended>>
      /\ \/ /\ redis + b > Cap /\ enter(i, "over", "nothing")
            /\ refused' = refused + b /\ granted' = granted
         \/ /\ redis + b <= Cap /\ enter(i, "paying", "redis")
            /\ granted' = granted + b /\ refused' = refused
  <2>1. UNCHANGED <<local, grantedBy, ended>> /\ redis' = redis + b
    BY DEF ReserveInRedis, enter
  <2>2. Cap \in Nat /\ redis \in Nat
    BY SpendParts, SpendAssumption
  <2>. QED BY <2>1, <2>2, <1>1 DEF ReserveInRedis, overCap
<1>3. PICK stage \in {"over", "paying"} :
         /\ stage = "over" => enter(i, "over", "nothing") /\ refused' = refused + b /\ granted' = granted
         /\ stage = "paying" => enter(i, "paying", "redis") /\ granted' = granted + b
                                /\ refused' = refused /\ redis + b <= Cap
  BY <1>2
<1>4. PICK rec \in SpendRecord :
           /\ spends' = [spends EXCEPT ![i] = rec]
           /\ rec.stage = stage /\ rec.budget = b
           /\ rec.moved = spends[i].moved /\ rec.remaining = spends[i].remaining
  BY <1>3, Entered DEF SpendStages
<1>. HIDE DEF b
<1>5. /\ redis \in Nat /\ granted \in Nat /\ refused \in Nat /\ redis >= granted + refused
      /\ granted <= Cap /\ Cap \in Nat
  BY SpendParts, SpendAssumption
<1>6. /\ granted' \in Nat /\ granted' <= Cap /\ redis' \in Int /\ redis' >= granted' + refused'
      /\ refused' = refused - owed(i) + IF rec.stage = "over" THEN rec.budget ELSE 0
  BY <1>1, <1>2, <1>3, <1>4, <1>5
<1>7. rec.budget = spends[i].budget
  BY <1>4 DEF b
<1>8. local' \in [Processes -> Nat] /\ grantedBy' = local' /\ \A p \in Processes : grantedBy'[p] <= Cap
  BY <1>2, SpendParts
<1>20. /\ rec.moved <= rec.budget
       /\ rec.stage = "paying" => rec.moved + rec.remaining = rec.budget
       /\ rec.stage \in {"asking", "over"} => rec.moved = 0 /\ rec.remaining = rec.budget
       /\ ended' = ended /\ spends' = [spends EXCEPT ![i] = rec]
  BY <1>1, <1>2, <1>4
<1>30. GoesOn(i, rec)
  BY <1>20, <1>6, <1>7, <1>8 DEF GoesOn
<1>. QED BY <1>30, RequestStep

LEMMA GiveBackStep == ASSUME SpendIInv, NEW i \in CallIds, GiveBack(i) PROVE SpendIInv'
<1>1. /\ spends[i].budget \in Nat /\ spends[i].stage = "over" /\ owed(i) = spends[i].budget
      /\ spends[i].moved = 0
  BY BudgetsKept DEF GiveBack, SpendRecord, owed
<1>2. PICK rec \in SpendRecord :
           /\ spends' = [spends EXCEPT ![i] = rec]
           /\ rec.stage = "done" /\ rec.budget = spends[i].budget
           /\ rec.moved = spends[i].moved /\ rec.remaining = spends[i].remaining
  BY Entered DEF GiveBack, SpendStages
<1>3. /\ redis \in Nat /\ granted \in Nat /\ refused \in Nat /\ redis >= granted + refused
      /\ granted <= Cap /\ Cap \in Nat
  BY SpendParts, SpendAssumption
<1>4. /\ refused' = refused - spends[i].budget /\ UNCHANGED <<local, granted, grantedBy, ended>>
      /\ redis' \in {redis, redis - spends[i].budget}
  BY DEF GiveBack, givenBack, enter
<1>5. /\ granted' \in Nat /\ granted' <= Cap /\ redis' \in Int /\ redis' >= granted' + refused'
      /\ refused' = refused - owed(i) + IF rec.stage = "over" THEN rec.budget ELSE 0
  BY <1>1, <1>2, <1>3, <1>4
<1>6. local' \in [Processes -> Nat] /\ grantedBy' = local' /\ \A p \in Processes : grantedBy'[p] <= Cap
  BY <1>4, SpendParts
<1>20. /\ rec.moved <= rec.budget
       /\ rec.stage = "paying" => rec.moved + rec.remaining = rec.budget
       /\ rec.stage \in {"asking", "over"} => rec.moved = 0 /\ rec.remaining = rec.budget
       /\ ended' = ended /\ spends' = [spends EXCEPT ![i] = rec]
  BY <1>1, <1>2, <1>4
<1>31. spends' = [spends EXCEPT ![i] = rec] /\ rec.budget = spends[i].budget
  BY <1>20, <1>2
<1>32. refused' = refused - owed(i) + IF rec.stage = "over" THEN rec.budget ELSE 0
  BY <1>5
<1>33. /\ rec.moved <= rec.budget
       /\ rec.stage = "paying" => rec.moved + rec.remaining = rec.budget
       /\ rec.stage \in {"asking", "over"} => rec.moved = 0 /\ rec.remaining = rec.budget
  BY <1>20
<1>34. /\ redis' \in Int /\ redis' >= granted' + refused' /\ granted' \in Nat /\ granted' <= Cap
  BY <1>5
<1>35. /\ local' \in [Processes -> Nat] /\ grantedBy' = local' /\ ended' = ended
       /\ \A p \in Processes : grantedBy'[p] <= Cap
  BY <1>6, <1>20
<1>30. GoesOn(i, rec)
  BY <1>31, <1>32, <1>33, <1>34, <1>35 DEF GoesOn
<1>. QED BY <1>30, RequestStep

LEMMA LocalStep == ASSUME SpendIInv, NEW i \in CallIds, ReserveLocally(i) PROVE SpendIInv'
<1>. DEFINE b == spends[i].budget
            p == spends[i].process
<1>1. /\ b \in Nat /\ spends[i].stage = "asking" /\ owed(i) = 0 /\ p \in Processes
      /\ spends[i].moved = 0 /\ spends[i].remaining = b
  BY BudgetsKept DEF ReserveLocally, SpendRecord, owed
<1>2. /\ redis' \in {redis, redis + b} /\ UNCHANGED <<granted, refused, ended>>
      /\ \/ /\ enter(i, "done", "nothing") /\ UNCHANGED <<local, grantedBy>>
         \/ /\ enter(i, "paying", "local") /\ ~(local[p] + b > Cap)
            /\ local' = [local EXCEPT ![p] = @ + b]
            /\ grantedBy' = [grantedBy EXCEPT ![p] = @ + b]
  BY DEF ReserveLocally, overCap, enter
<1>3. PICK stage \in {"done", "paying"} :
         /\ stage = "done" => enter(i, "done", "nothing") /\ UNCHANGED <<local, grantedBy>>
         /\ stage = "paying" => enter(i, "paying", "local") /\ ~(local[p] + b > Cap)
            /\ local' = [local EXCEPT ![p] = @ + b]
            /\ grantedBy' = [grantedBy EXCEPT ![p] = @ + b]
  BY <1>2
<1>4. PICK rec \in SpendRecord :
           /\ spends' = [spends EXCEPT ![i] = rec]
           /\ rec.stage = stage /\ rec.budget = b
           /\ rec.moved = spends[i].moved /\ rec.remaining = spends[i].remaining
  BY <1>3, Entered DEF SpendStages
<1>. HIDE DEF b, p
<1>5. /\ redis \in Nat /\ granted \in Nat /\ refused \in Nat /\ redis >= granted + refused
      /\ granted <= Cap /\ Cap \in Nat
  BY SpendParts, SpendAssumption
<1>6. /\ granted' \in Nat /\ granted' <= Cap /\ redis' \in Int /\ redis' >= granted' + refused'
      /\ refused' = refused - owed(i) + IF rec.stage = "over" THEN rec.budget ELSE 0
  BY <1>1, <1>2, <1>3, <1>4, <1>5
<1>7. rec.budget = spends[i].budget
  BY <1>4 DEF b
<1>8. local' \in [Processes -> Nat] /\ grantedBy' = local' /\ \A q \in Processes : grantedBy'[q] <= Cap
  <2>1. local \in [Processes -> Nat] /\ grantedBy = local /\ \A q \in Processes : grantedBy[q] <= Cap
    BY SpendParts
  <2>2. CASE stage = "done"
    BY <2>1, <2>2, <1>3
  <2>3. CASE stage = "paying"
    <3>1. local[p] \in Nat /\ local[p] + b \in Nat /\ local[p] + b <= Cap
      BY <2>1, <2>3, <1>1, <1>3, <1>5
    <3>2. local' = [local EXCEPT ![p] = local[p] + b] /\ grantedBy' = local'
      BY <2>1, <2>3, <1>3
    <3>. QED BY <2>1, <3>1, <3>2, <1>1
  <2>. QED BY <2>2, <2>3
<1>20. /\ rec.moved <= rec.budget
       /\ rec.stage = "paying" => rec.moved + rec.remaining = rec.budget
       /\ rec.stage \in {"asking", "over"} => rec.moved = 0 /\ rec.remaining = rec.budget
       /\ ended' = ended /\ spends' = [spends EXCEPT ![i] = rec]
  BY <1>1, <1>2, <1>4
<1>30. GoesOn(i, rec)
  BY <1>20, <1>6, <1>7, <1>8 DEF GoesOn
<1>. QED BY <1>30, RequestStep

LEMMA LoopStep == ASSUME SpendIInv, NEW i \in CallIds, PayCall(i) \/ FailCall(i) \/ Finish(i) PROVE SpendIInv'
<1>1. /\ spends[i] \in SpendRecord /\ spends[i].stage = "paying" /\ owed(i) = 0
      /\ spends[i].moved + spends[i].remaining = spends[i].budget
      /\ spends \in Seq(SpendRecord) /\ i \in 1 .. Len(spends)
  BY BudgetsKept, SpendParts DEF PayCall, FailCall, Finish, owed
<1>2. hasNext(spends[i]) => price(spends[i]) \in Nat
  <2>1. spends[i].plan \in Seq(Nat \ {0})
    BY <1>1 DEF SpendRecord
  <2>. QED BY <2>1 DEF hasNext, price
<1>3. UNCHANGED <<redis, local, granted, grantedBy, refused, ended>>
  BY DEF PayCall, FailCall, Finish, enter, grants
<1>4. \E rec \in SpendRecord :
           /\ spends' = [spends EXCEPT ![i] = rec]
           /\ rec.stage \in {"paying", "done"} /\ rec.budget = spends[i].budget
           /\ rec.moved <= rec.budget
           /\ rec.stage = "paying" => rec.moved + rec.remaining = rec.budget
  <2>1. CASE PayCall(i)
    <3>1. PICK m \in Nat : m = price(spends[i]) /\ m <= spends[i].remaining
      BY <2>1, <1>2 DEF PayCall, affordable
    <3>0. PICK mv \in Nat, rm \in Nat, nx \in Nat \ {0} :
            mv = spends[i].moved + m /\ rm = spends[i].remaining - m /\ nx = spends[i].next + 1
      <4>1. spends[i].moved \in Nat /\ spends[i].remaining \in Nat /\ spends[i].next \in Nat
        BY <1>1 DEF SpendRecord
      <4>2. spends[i].moved + m \in Nat /\ spends[i].remaining - m \in Nat
            /\ spends[i].next + 1 \in Nat \ {0}
        BY <4>1, <3>1
      <4>. QED BY <4>2
    <3>. DEFINE rec == [spends[i] EXCEPT !.moved = mv, !.remaining = rm, !.next = nx]
    <3>2. /\ rec \in SpendRecord /\ rec.stage = "paying" /\ rec.budget = spends[i].budget
          /\ rec.moved = mv /\ rec.remaining = rm
      BY <1>1, <3>0 DEF SpendRecord
    <3>3. spends' = [spends EXCEPT ![i] = rec]
      <4>1. spends' = [spends EXCEPT ![i].moved = mv, ![i].remaining = rm, ![i].next = nx]
        BY <2>1, <3>0, <3>1 DEF PayCall
      <4>. QED BY <4>1, <1>1
    <3>4. /\ spends[i].moved \in Nat /\ spends[i].remaining \in Nat
      BY <1>1 DEF SpendRecord
    <3>. HIDE DEF rec
    <3>5. rec.moved <= rec.budget /\ (rec.stage = "paying" => rec.moved + rec.remaining = rec.budget)
      BY SMTT(30), <1>1, <3>0, <3>1, <3>2, <3>4
    <3>. QED BY <3>2, <3>3, <3>5
  <2>2. CASE FailCall(i)
    <3>1. PICK m \in Nat : /\ m <= spends[i].remaining
                           /\ spends' = [spends EXCEPT ![i].moved = @ + m, ![i].next = @ + 1,
                                                       ![i].stage = "done"]
      <4>1. spends[i].remaining \in Nat /\ hasNext(spends[i])
        BY <1>1, <2>2 DEF SpendRecord, FailCall
      <4>2. PICK m \in {0} \cup IF affordable(spends[i]) THEN {price(spends[i])} ELSE {} :
              spends' = [spends EXCEPT ![i].moved = @ + m, ![i].next = @ + 1,
                                       ![i].stage = "done"]
        BY <2>2 DEF FailCall, afterFailure
      <4>3. m \in Nat /\ m <= spends[i].remaining
        BY <4>1, <1>2 DEF affordable
      <4>. QED BY <4>2, <4>3
    <3>0. PICK mv \in Nat, nx \in Nat \ {0} :
            mv = spends[i].moved + m /\ nx = spends[i].next + 1
      <4>1. spends[i].moved \in Nat /\ spends[i].next \in Nat
        BY <1>1 DEF SpendRecord
      <4>2. spends[i].moved + m \in Nat /\ spends[i].next + 1 \in Nat \ {0}
        BY <4>1, <3>1
      <4>. QED BY <4>2
    <3>. DEFINE rec == [spends[i] EXCEPT !.moved = mv, !.next = nx, !.stage = "done"]
    <3>2. /\ rec \in SpendRecord /\ rec.stage = "done" /\ rec.budget = spends[i].budget
          /\ rec.moved = mv
      BY <1>1, <3>0 DEF SpendRecord, SpendStages
    <3>3. spends' = [spends EXCEPT ![i] = rec]
      BY <2>2, <1>1, <3>0, <3>1
    <3>4. /\ spends[i].moved \in Nat /\ spends[i].remaining \in Nat
      BY <1>1 DEF SpendRecord
    <3>. HIDE DEF rec
    <3>5. rec.moved <= rec.budget /\ (rec.stage = "paying" => rec.moved + rec.remaining = rec.budget)
      BY <1>1, <3>0, <3>1, <3>2, <3>4
    <3>. QED BY <3>2, <3>3, <3>5
  <2>3. CASE Finish(i)
    <3>1. spends[i].reserved \in {"nothing", "redis", "local"} /\ spends[i].moved <= spends[i].budget
      BY <1>1, BudgetsKept DEF SpendRecord
    <3>. QED BY <2>3, <3>1, Entered DEF Finish, SpendStages
  <2>. QED BY <2>1, <2>2, <2>3
<1>5. PICK rec \in SpendRecord :
           /\ spends' = [spends EXCEPT ![i] = rec]
           /\ rec.stage \in {"paying", "done"} /\ rec.budget = spends[i].budget
           /\ rec.moved <= rec.budget
           /\ rec.stage = "paying" => rec.moved + rec.remaining = rec.budget
  BY <1>4
<1>6. /\ redis \in Nat /\ granted \in Nat /\ refused \in Nat /\ redis >= granted + refused
      /\ granted <= Cap /\ local \in [Processes -> Nat] /\ grantedBy = local
      /\ \A q \in Processes : grantedBy[q] <= Cap
  BY SpendParts
<1>7. refused' = refused - owed(i) + IF rec.stage = "over" THEN rec.budget ELSE 0
  BY <1>1, <1>3, <1>5, <1>6
<1>20. /\ rec.moved <= rec.budget
       /\ rec.stage = "paying" => rec.moved + rec.remaining = rec.budget
       /\ rec.stage \in {"asking", "over"} => rec.moved = 0 /\ rec.remaining = rec.budget
       /\ ended' = ended /\ spends' = [spends EXCEPT ![i] = rec]
  BY <1>3, <1>5
<1>21. /\ redis' \in Int /\ redis' >= granted' + refused' /\ granted' \in Nat /\ granted' <= Cap
       /\ local' \in [Processes -> Nat] /\ grantedBy' = local'
       /\ \A p \in Processes : grantedBy'[p] <= Cap
  BY <1>3, <1>6
<1>30. GoesOn(i, rec)
  BY <1>20, <1>21, <1>5, <1>7 DEF GoesOn
<1>. QED BY <1>30, RequestStep

LEMMA ReceiveStep ==
  ASSUME SpendIInv, NEW p \in Processes, NEW plan \in Seq(Nat \ {0}), NEW budget \in Budgets,
         NEW stage \in {"asking", "paying"}, arrives(received(p, plan, budget, stage))
  PROVE  SpendIInv'
<1>1. budget \in Nat
  BY SpendAssumption
<1>2. PICK call : call = received(p, plan, budget, stage)
  OBVIOUS
<1>3. /\ call \in SpendRecord /\ call.stage # "over" /\ call.moved = 0
      /\ call.remaining = call.budget
  BY <1>1, <1>2 DEF received, SpendRecord, SpendStages
<1>. QED BY <1>2, <1>3, SpendArriveStep

LEMMA SpendStep == SpendIInv /\ [SpendNext]_spendVars => SpendIInv'
<1>. SUFFICES ASSUME SpendIInv, [SpendNext]_spendVars PROVE SpendIInv'
  OBVIOUS
<1>1. ASSUME NEW p \in Processes, NEW plan \in Plans, NEW budget \in Budgets,
             AskForRun(p, plan, budget)
      PROVE  SpendIInv'
  <2>1. plan \in Seq(Nat \ {0})
    BY SpendAssumption
  <2>. QED BY <2>1, <1>1, ReceiveStep DEF AskForRun
<1>2. ASSUME NEW p \in Processes, NEW plan \in Plans, NEW budget \in Budgets,
             NEW cost \in Range(plan), CallTool(p, cost, budget)
      PROVE  SpendIInv'
  <2>1. cost \in Nat \ {0}
    BY SpendAssumption DEF Range
  <2>2. <<cost>> \in Seq(Nat \ {0})
    BY <2>1
  <2>. QED BY <2>2, <1>2, ReceiveStep DEF CallTool
<1>3. ASSUME UNCHANGED <<redis, local, spends, granted, grantedBy, refused>>,
             ended' \subseteq Processes
      PROVE  SpendIInv'
  <2>1. RefusedAddUp' /\ CallIds' = CallIds
    BY <1>3 DEF SpendIInv, RefusedAddUp, RunningTotal, owed, CallIds
  <2>2. \A i \in 1 .. Len(spends') :
           /\ spends'[i].moved <= spends'[i].budget
           /\ spends'[i].stage = "paying" =>
                spends'[i].moved + spends'[i].remaining = spends'[i].budget
           /\ spends'[i].stage \in {"asking", "over"} =>
                spends'[i].moved = 0 /\ spends'[i].remaining = spends'[i].budget
    BY <1>3, BudgetsKept, SpendParts
  <2>. QED BY <1>3, <2>1, <2>2, SpendParts, SpendWhole
<1>4. ASSUME NEW p \in Processes, Die(p) PROVE SpendIInv'
  BY <1>3, <1>4, SpendParts DEF Die, grants
<1>5. CASE UNCHANGED spendVars
  BY <1>3, <1>5, SpendParts DEF spendVars, grants
<1>. QED BY <1>1, <1>2, <1>4, <1>5, ReserveStep, GiveBackStep, LocalStep,
    LoopStep DEF SpendNext

\* The allowance at any size: Redis counts at least what was granted through it
\* and what refused requests have not given back, grants through each counter
\* stay within the day's cap, and a run moves no more than its budget (spend.ts,
\* api/agent/run/route.ts).
THEOREM SpendHolds == SpendSpec => []SpendInv
<1>1. SpendIInv => SpendInv
  BY DEF SpendIInv
<1>. QED BY <1>1, SpendInitially, SpendStep, PTL DEF SpendSpec

-----------------------------------------------------------------------------
(***************************************************************************)
(* CasperKeys.                                                             *)
(***************************************************************************)
(***************************************************************************)
(* The inductive invariant.  Only a key the script was told to give up, or *)
(* none, is where the next one is written, and it has been copied by then; *)
(* every key on disk was drawn, and for one role.                          *)
(***************************************************************************)
Key == 1 .. MaxKeys

KeyTypes ==
  /\ pem \in [KeyRoles -> Content]
  /\ baks \in [KeyRoles -> Seq(Content)]
  /\ drawn \in 0 .. MaxKeys
  /\ printed \in [KeyRoles -> SUBSET (1 .. drawn)]
  /\ keygen.at \in {"none", "next", "reading", "copying", "writing", "printing"}
  /\ keygen.todo \subseteq KeyRoles /\ keygen.force \in BOOLEAN
  /\ keygen.role \in KeyRoles
  /\ keygen = [at |-> keygen.at, role |-> keygen.role, todo |-> keygen.todo,
               force |-> keygen.force]
  /\ \A r \in KeyRoles : Len(baks[r]) <= MaxBaks

KeyOfItsOwn ==
  /\ \A r \in KeyRoles : pem[r] \in Key => pem[r] <= drawn
  /\ \A r, q \in KeyRoles : r # q =>
       /\ pem[r] \in Key => pem[r] # pem[q] /\ pem[r] \notin printed[q]
       /\ printed[r] \cap printed[q] = {}

\* Where the run is tells what it found.
RunAgrees ==
  LET r == keygen.role
  IN  /\ keygen.at = "reading" => pem[r] # NoFile
      /\ keygen.at = "copying" => pem[r] # NoFile /\ keygen.force
      /\ keygen.at = "writing" =>
           \/ pem[r] = NoFile
           \/ pem[r] \in ToSet(baks[r]) /\ keygen.force
      /\ keygen.at = "printing" => pem[r] \in Key

KeysIInv == KeyTypes /\ KeyOfItsOwn /\ RunAgrees /\ NoPrintedKeyIsLost

-----------------------------------------------------------------------------
\* What a backup adds, and that it takes nothing away.
LEMMA BackupAdds ==
  ASSUME KeyTypes, NEW r \in KeyRoles, NEW x \in Content, put(r, x)
  PROVE  /\ baks' = [baks EXCEPT ![r] = Append(baks[r], x)]
         /\ baks' \in [KeyRoles -> Seq(Content)]
         /\ Len(baks'[r]) = Len(baks[r]) + 1
         /\ ToSet(baks'[r]) = ToSet(baks[r]) \cup {x}
<1>1. baks[r] \in Seq(Content) /\ Len(baks[r]) \in Nat
      /\ baks \in [KeyRoles -> Seq(Content)]
  BY DEF KeyTypes
<1>2. ~(backupAt(r) <= Len(baks[r]))
  BY <1>1 DEF backupAt
<1>3. baks' = [baks EXCEPT ![r] = Append(baks[r], x)]
  BY <1>2 DEF put
<1>4. baks'[r] = Append(baks[r], x)
  BY <1>1, <1>3
<1>5. ToSet(Append(baks[r], x)) = ToSet(baks[r]) \cup {x}
  <2> DEFINE s == baks[r]
             n == Len(baks[r])
  <2>1. DOMAIN s = 1 .. n /\ DOMAIN Append(s, x) = 1 .. n + 1 /\ n \in Nat
    BY <1>1
  <2>2. \A i \in 1 .. n : Append(s, x)[i] = s[i]
    BY <1>1
  <2>3. Append(s, x)[n + 1] = x
    BY <1>1
  <2> HIDE DEF s, n
  <2>4. ASSUME NEW y \in ToSet(Append(s, x)) PROVE y \in ToSet(s) \cup {x}
    <3>1. PICK i \in 1 .. n + 1 : y = Append(s, x)[i]
      BY <2>1, <2>4 DEF ToSet
    <3>2. i \in 1 .. n \/ i = n + 1
      BY <2>1
    <3> QED
      BY <2>1, <2>2, <2>3, <3>1, <3>2 DEF ToSet
  <2>5. ASSUME NEW y \in ToSet(s) \cup {x} PROVE y \in ToSet(Append(s, x))
    <3>1. CASE y = x
      BY <2>1, <2>3, <3>1 DEF ToSet
    <3>2. CASE y \in ToSet(s)
      <4>1. PICK i \in 1 .. n : y = s[i]
        BY <2>1, <3>2 DEF ToSet
      <4>2. i \in DOMAIN Append(s, x)
        BY <2>1
      <4> QED
        BY <2>2, <4>1, <4>2 DEF ToSet
    <3> QED
      BY <2>5, <3>1, <3>2
  <2> QED
    BY <2>4, <2>5 DEF s
<1> QED
  BY <1>1, <1>3, <1>4, <1>5

\* Nothing is on disk before the first run.
LEMMA KeysInitIInv == KeysInit => KeysIInv
<1> SUFFICES ASSUME KeysInit PROVE KeysIInv
  OBVIOUS
<1>1. KeyTypes
  <2>1. noKeygen.role \in KeyRoles
    BY KeysAssumption DEF noKeygen
  <2> QED
    BY <2>1, KeysAssumption
    DEF KeysInit, KeyTypes, noKeygen, Content, NoFile
<1> QED
  BY <1>1, KeysAssumption
  DEF KeysInit, KeysIInv, KeyOfItsOwn, RunAgrees, NoPrintedKeyIsLost, noKeygen,
      Key, NoFile

\* A step that touches the run alone.
LEMMA RunStep ==
  ASSUME KeysIInv, UNCHANGED <<pem, baks, drawn, printed>>, KeyTypes', RunAgrees'
  PROVE  KeysIInv'
BY DEF KeysIInv, KeyOfItsOwn, NoPrintedKeyIsLost

LEMMA NoRun ==
  /\ noKeygen.at = "none" /\ noKeygen.todo = {} /\ noKeygen.force = FALSE
  /\ noKeygen.role \in KeyRoles
  /\ noKeygen = [at |-> noKeygen.at, role |-> noKeygen.role,
                 todo |-> noKeygen.todo, force |-> noKeygen.force]
BY KeysAssumption DEF noKeygen

\* The run moves on and keeps what it was started with.
LEMMA Moved ==
  ASSUME KeyTypes, NEW step, at(step)
  PROVE  /\ keygen'.at = step /\ keygen'.role = keygen.role
         /\ keygen'.todo = keygen.todo /\ keygen'.force = keygen.force
         /\ keygen' = [at |-> keygen'.at, role |-> keygen'.role,
                       todo |-> keygen'.todo, force |-> keygen'.force]
<1>1. keygen = [at |-> keygen.at, role |-> keygen.role, todo |-> keygen.todo,
                force |-> keygen.force]
  BY DEF KeyTypes
<1>2. keygen' = [at |-> step, role |-> keygen.role, todo |-> keygen.todo,
                 force |-> keygen.force]
  BY <1>1 DEF at
<1> QED
  BY <1>2

-----------------------------------------------------------------------------
LEMMA StartStep ==
  ASSUME KeysIInv, NEW roles \in SUBSET KeyRoles, NEW named \in BOOLEAN,
         NEW force \in BOOLEAN, NEW confirmed \in BOOLEAN,
         StartKeygen(roles, named, force, confirmed)
  PROVE  KeysIInv'
<1>1. keygen' = [at |-> "next", role |-> noKeygen.role, todo |-> roles,
                 force |-> force]
  BY NoRun DEF StartKeygen
<1>2. KeyTypes'
  BY <1>1, NoRun DEF KeysIInv, KeyTypes, StartKeygen
<1>3. RunAgrees'
  BY <1>1 DEF RunAgrees
<1> QED
  BY <1>2, <1>3, RunStep DEF StartKeygen

LEMMA TakeStep ==
  ASSUME KeysIInv, NEW r \in KeyRoles, TakeRole(r)
  PROVE  KeysIInv'
<1> DEFINE step == IF reuses(r) THEN "reading"
                   ELSE IF pem[r] # NoFile THEN "copying" ELSE "writing"
<1>1. keygen = [at |-> keygen.at, role |-> keygen.role, todo |-> keygen.todo,
                force |-> keygen.force] /\ KeyTypes
  BY DEF KeysIInv, KeyTypes
<1>2. keygen' = [at |-> step, role |-> r, todo |-> keygen.todo \ {r},
                 force |-> keygen.force]
  BY <1>1 DEF TakeRole
<1>3. KeyTypes'
  BY <1>1, <1>2 DEF KeyTypes, TakeRole
<1>4. RunAgrees'
  BY <1>1, <1>2 DEF RunAgrees, TakeRole, reuses, KeyTypes
<1> QED
  BY <1>3, <1>4, RunStep DEF TakeRole

\* A file that is neither absent nor torn holds a key.
LEMMA ReadStep ==
  ASSUME KeysIInv, ReadPem
  PROVE  KeysIInv'
<1>1. KeyTypes /\ RunAgrees /\ keygen.role \in KeyRoles
  BY DEF KeysIInv, KeyTypes
<1>2. CASE keygen' = noKeygen
  <2>1. KeyTypes'
    BY <1>1, <1>2, NoRun DEF KeyTypes, ReadPem
  <2>2. RunAgrees'
    BY <1>2, NoRun DEF RunAgrees
  <2> QED
    BY <2>1, <2>2, RunStep DEF ReadPem
<1>3. CASE at("printing") /\ pem[keygen.role] # torn
  <2>1. /\ keygen'.at = "printing" /\ keygen'.role = keygen.role
        /\ keygen'.todo = keygen.todo /\ keygen'.force = keygen.force
        /\ keygen' = [at |-> keygen'.at, role |-> keygen'.role,
                      todo |-> keygen'.todo, force |-> keygen'.force]
    BY <1>1, <1>3, Moved
  <2>2. KeyTypes'
    BY <1>1, <2>1 DEF KeyTypes, ReadPem
  <2>3. pem[keygen.role] \in Content /\ pem[keygen.role] # NoFile
    BY <1>1 DEF KeyTypes, RunAgrees, ReadPem
  <2>4. pem[keygen.role] \in Key
    BY <1>3, <2>3, KeysAssumption DEF Content, NoFile, torn, Key
  <2>5. RunAgrees'
    BY <2>1, <2>4 DEF RunAgrees, ReadPem
  <2> QED
    BY <2>2, <2>5, RunStep DEF ReadPem
<1> QED
  BY <1>2, <1>3 DEF ReadPem

\* The backup holds what is about to be replaced, or the run has ended.
LEMMA CopyStep ==
  ASSUME KeysIInv, CopyPem
  PROVE  KeysIInv'
<1> DEFINE r == keygen.role
<1>1. KeyTypes /\ RunAgrees /\ KeyOfItsOwn /\ NoPrintedKeyIsLost
      /\ r \in KeyRoles /\ pem[r] \in Content /\ torn \in Content
      /\ Len(baks[r]) \in Nat
  BY KeysAssumption DEF KeysIInv, KeyTypes, torn, Content
<1>2. PICK x \in Content : /\ put(r, x)
                           /\ \/ x = pem[r] /\ at("writing")
                              \/ keygen' = noKeygen
  BY <1>1 DEF CopyPem
<1>3. /\ baks' = [baks EXCEPT ![r] = Append(baks[r], x)]
      /\ baks' \in [KeyRoles -> Seq(Content)]
      /\ Len(baks'[r]) = Len(baks[r]) + 1
      /\ ToSet(baks'[r]) = ToSet(baks[r]) \cup {x}
  BY <1>1, <1>2, BackupAdds
<1>4. \A q \in KeyRoles : q # r => baks'[q] = baks[q]
  BY <1>1, <1>3 DEF KeyTypes
<1>5. /\ pem' = pem /\ drawn' = drawn /\ printed' = printed
      /\ Len(baks[r]) < MaxBaks /\ keygen.at = "copying"
  BY DEF CopyPem
<1>6. \A q \in KeyRoles : Len(baks'[q]) <= MaxBaks
  <2>1. Len(baks'[r]) <= MaxBaks
    BY <1>1, <1>3, <1>5, KeysAssumption
  <2> QED
    BY <1>1, <1>4, <2>1 DEF KeyTypes
<1>7. keygen.at = "copying" => pem[r] # NoFile /\ keygen.force
  BY <1>1 DEF RunAgrees
<1>8. KeyTypes' /\ RunAgrees'
  <2>1. CASE x = pem[r] /\ at("writing")
    <3>1. /\ keygen'.at = "writing" /\ keygen'.role = r
          /\ keygen'.todo = keygen.todo /\ keygen'.force = keygen.force
          /\ keygen' = [at |-> keygen'.at, role |-> keygen'.role,
                        todo |-> keygen'.todo, force |-> keygen'.force]
      BY <1>1, <2>1, Moved
    <3>2. KeyTypes'
      BY <1>1, <1>3, <1>5, <1>6, <3>1 DEF KeyTypes
    <3>3. pem'[r] \in ToSet(baks'[r])
      BY <1>3, <1>5, <2>1
    <3>4. RunAgrees'
      BY <1>5, <1>7, <3>1, <3>3 DEF RunAgrees
    <3> QED
      BY <3>2, <3>4
  <2>2. CASE keygen' = noKeygen
    <3>1. KeyTypes'
      BY <1>1, <1>3, <1>5, <1>6, <2>2, NoRun DEF KeyTypes
    <3> QED
      BY <2>2, <3>1, NoRun DEF RunAgrees
  <2> QED
    BY <1>2, <2>1, <2>2
<1>9. NoPrintedKeyIsLost'
  BY <1>1, <1>3, <1>4, <1>5 DEF NoPrintedKeyIsLost
<1> QED
  BY <1>1, <1>5, <1>8, <1>9 DEF KeysIInv, KeyOfItsOwn

\* What is written over was never shown, or is in a backup by now.
LEMMA WriteStep ==
  ASSUME KeysIInv, WritePem
  PROVE  KeysIInv'
<1> DEFINE r == keygen.role
<1>1. KeyTypes /\ RunAgrees /\ KeyOfItsOwn /\ NoPrintedKeyIsLost
      /\ r \in KeyRoles /\ drawn \in Nat
      /\ pem \in [KeyRoles -> Content]
      /\ printed \in [KeyRoles -> SUBSET (1 .. drawn)]
  BY KeysAssumption DEF KeysIInv, KeyTypes
<1>2. PICK x \in {drawn + 1, torn} :
         /\ pem' = [pem EXCEPT ![r] = x]
         /\ (x = drawn + 1 /\ at("printing")) \/ (x = torn /\ keygen' = noKeygen)
  BY DEF WritePem, freshKey
<1>3. /\ keygen.at = "writing" /\ drawn' = drawn + 1 /\ drawn < MaxKeys
      /\ baks' = baks /\ printed' = printed
  BY DEF WritePem
<1>4. /\ x \in Content /\ drawn' \in 0 .. MaxKeys
      /\ x \in Key => x = drawn + 1
      /\ drawn + 1 \in Key /\ torn \notin Key
  BY <1>1, <1>2, <1>3, KeysAssumption DEF Content, torn, Key
<1>5. /\ pem' \in [KeyRoles -> Content] /\ pem'[r] = x
      /\ \A q \in KeyRoles : q # r => pem'[q] = pem[q]
  BY <1>1, <1>2, <1>4
<1>6. printed' \in [KeyRoles -> SUBSET (1 .. drawn')]
  <2>1. 1 .. drawn \subseteq 1 .. drawn + 1
    BY <1>1
  <2>2. \A q \in KeyRoles : printed[q] \subseteq 1 .. drawn + 1
    BY <1>1, <2>1
  <2> QED
    BY <1>1, <1>3, <2>2
<1>7. KeyTypes' /\ RunAgrees'
  <2>1. CASE x = drawn + 1 /\ at("printing")
    <3>1. /\ keygen'.at = "printing" /\ keygen'.role = r
          /\ keygen'.todo = keygen.todo /\ keygen'.force = keygen.force
          /\ keygen' = [at |-> keygen'.at, role |-> keygen'.role,
                        todo |-> keygen'.todo, force |-> keygen'.force]
      BY <1>1, <2>1, Moved
    <3>2. KeyTypes'
      BY <1>1, <1>3, <1>4, <1>5, <1>6, <3>1 DEF KeyTypes
    <3>3. RunAgrees'
      BY <1>4, <1>5, <2>1, <3>1 DEF RunAgrees
    <3> QED
      BY <3>2, <3>3
  <2>2. CASE keygen' = noKeygen
    <3>1. KeyTypes'
      BY <1>1, <1>3, <1>4, <1>5, <1>6, <2>2, NoRun DEF KeyTypes
    <3> QED
      BY <2>2, <3>1, NoRun DEF RunAgrees
  <2> QED
    BY <1>2, <2>1, <2>2
<1>8. KeyOfItsOwn'
  <2>1. \A q \in KeyRoles : pem'[q] \in Key => pem'[q] <= drawn'
    <3>1. \A q \in KeyRoles : pem[q] \in Key => pem[q] <= drawn
      BY <1>1 DEF KeyOfItsOwn
    <3>2. ASSUME NEW q \in KeyRoles, pem'[q] \in Key PROVE pem'[q] <= drawn'
      <4>1. CASE q = r
        BY <1>1, <1>3, <1>4, <1>5, <3>2, <4>1
      <4>2. CASE q # r
        <5>1. pem'[q] = pem[q] /\ pem[q] <= drawn /\ pem[q] \in Nat
          BY <1>5, <3>1, <3>2, <4>2, KeysAssumption DEF Key
        <5> QED
          BY <1>1, <1>3, <5>1
      <4> QED
        BY <4>1, <4>2
    <3> QED
      BY <3>2
  <2>2. ASSUME NEW p \in KeyRoles, NEW q \in KeyRoles, p # q, pem'[p] \in Key
        PROVE  pem'[p] # pem'[q] /\ pem'[p] \notin printed[q]
    <3>1. \A k \in KeyRoles : /\ pem[k] # drawn + 1
                              /\ drawn + 1 \notin printed[k]
      <4>1. \A k \in KeyRoles : pem[k] \in Key => pem[k] <= drawn
        BY <1>1 DEF KeyOfItsOwn
      <4> QED
        BY <1>1, <1>4, <4>1
    <3>2. CASE p = r
      BY <1>4, <1>5, <2>2, <3>1, <3>2
    <3>3. CASE p # r
      <4>1. pem'[p] = pem[p] /\ pem[p] \in Key
        BY <1>5, <2>2, <3>3
      <4>2. pem[p] # pem[q] /\ pem[p] \notin printed[q]
        BY <1>1, <2>2, <4>1 DEF KeyOfItsOwn
      <4>3. pem'[q] = pem[q] \/ pem'[q] = x
        BY <1>5
      <4>4. pem[p] # x
        BY <1>2, <1>4, <3>1, <4>1
      <4> QED
        BY <4>1, <4>2, <4>3, <4>4
    <3> QED
      BY <3>2, <3>3
  <2>3. \A p, q \in KeyRoles : p # q => printed[p] \cap printed[q] = {}
    BY <1>1 DEF KeyOfItsOwn
  <2> QED
    BY <1>3, <2>1, <2>2, <2>3 DEF KeyOfItsOwn, Key
<1>9. NoPrintedKeyIsLost'
  <2>1. pem[r] = NoFile \/ pem[r] \in ToSet(baks[r])
    BY <1>1, <1>3 DEF RunAgrees
  <2>2. NoFile \notin 1 .. drawn
    BY <1>1 DEF NoFile
  <2>3. printed[r] \subseteq ToSet(baks[r])
    BY <1>1, <2>1, <2>2 DEF NoPrintedKeyIsLost
  <2> QED
    BY <1>1, <1>3, <1>5, <2>3 DEF NoPrintedKeyIsLost
<1> QED
  BY <1>7, <1>8, <1>9 DEF KeysIInv

LEMMA PrintStep ==
  ASSUME KeysIInv, PrintKey
  PROVE  KeysIInv'
<1> DEFINE r == keygen.role
<1>1. KeyTypes /\ RunAgrees /\ KeyOfItsOwn /\ NoPrintedKeyIsLost
      /\ r \in KeyRoles /\ drawn \in Nat
      /\ pem \in [KeyRoles -> Content]
      /\ printed \in [KeyRoles -> SUBSET (1 .. drawn)]
  BY KeysAssumption DEF KeysIInv, KeyTypes
<1>2. /\ printed' = [printed EXCEPT ![r] = @ \cup {pem[r]}]
      /\ pem' = pem /\ baks' = baks /\ drawn' = drawn
      /\ keygen.at = "printing"
  BY DEF PrintKey
<1>3. pem[r] \in Key /\ pem[r] \in 1 .. drawn
  <2>1. pem[r] \in Key
    BY <1>1, <1>2 DEF RunAgrees
  <2>2. pem[r] <= drawn
    BY <1>1, <2>1 DEF KeyOfItsOwn
  <2> QED
    BY <1>1, <2>1, <2>2, KeysAssumption DEF Key
<1>4. /\ printed' \in [KeyRoles -> SUBSET (1 .. drawn)]
      /\ printed'[r] = printed[r] \cup {pem[r]}
      /\ \A q \in KeyRoles : q # r => printed'[q] = printed[q]
  BY <1>1, <1>2, <1>3
<1>5. KeyTypes' /\ RunAgrees'
  <2>1. CASE at("next")
    <3>1. /\ keygen'.at = "next" /\ keygen'.role = keygen.role
          /\ keygen'.todo = keygen.todo /\ keygen'.force = keygen.force
          /\ keygen' = [at |-> keygen'.at, role |-> keygen'.role,
                        todo |-> keygen'.todo, force |-> keygen'.force]
      BY <1>1, <2>1, Moved
    <3>2. KeyTypes'
      BY <1>1, <1>2, <1>4, <3>1 DEF KeyTypes
    <3> QED
      BY <3>1, <3>2 DEF RunAgrees
  <2>2. CASE keygen' = noKeygen
    <3>1. KeyTypes'
      BY <1>1, <1>2, <1>4, <2>2, NoRun DEF KeyTypes
    <3> QED
      BY <2>2, <3>1, NoRun DEF RunAgrees
  <2> QED
    BY <2>1, <2>2 DEF PrintKey
<1>6. KeyOfItsOwn'
  <2>1. ASSUME NEW p \in KeyRoles, NEW q \in KeyRoles, p # q
        PROVE  /\ pem[p] \in Key => /\ pem[p] # pem[q]
                                    /\ pem[p] \notin printed'[q]
               /\ printed'[p] \cap printed'[q] = {}
    <3>1. /\ pem[p] \in Key => pem[p] # pem[q] /\ pem[p] \notin printed[q]
          /\ pem[q] \in Key => pem[q] # pem[p] /\ pem[q] \notin printed[p]
          /\ printed[p] \cap printed[q] = {}
      BY <1>1, <2>1 DEF KeyOfItsOwn
    <3>2. CASE p = r
      BY <1>3, <1>4, <2>1, <3>1, <3>2
    <3>3. CASE q = r
      BY <1>3, <1>4, <2>1, <3>1, <3>3
    <3>4. CASE p # r /\ q # r
      BY <1>4, <3>1, <3>4
    <3> QED
      BY <3>2, <3>3, <3>4
  <2> QED
    BY <1>1, <1>2, <2>1 DEF KeyOfItsOwn, Key
<1>7. NoPrintedKeyIsLost'
  BY <1>1, <1>2, <1>4 DEF NoPrintedKeyIsLost
<1> QED
  BY <1>5, <1>6, <1>7 DEF KeysIInv

LEMMA InterruptStep ==
  ASSUME KeysIInv, Interrupt
  PROVE  KeysIInv'
<1>1. KeyTypes'
  BY NoRun DEF KeysIInv, KeyTypes, Interrupt
<1>2. RunAgrees'
  BY NoRun DEF RunAgrees, Interrupt
<1> QED
  BY <1>1, <1>2, RunStep DEF Interrupt

-----------------------------------------------------------------------------
LEMMA KeysStep == KeysIInv /\ [KeysNext]_keysVars => KeysIInv'
<1> SUFFICES ASSUME KeysIInv, [KeysNext]_keysVars PROVE KeysIInv'
  OBVIOUS
<1>1. ASSUME NEW roles \in SUBSET KeyRoles, NEW named \in BOOLEAN,
             NEW force \in BOOLEAN, NEW confirmed \in BOOLEAN,
             StartKeygen(roles, named, force, confirmed)
      PROVE  KeysIInv'
  BY <1>1, StartStep
<1>2. ASSUME NEW r \in KeyRoles, TakeRole(r) PROVE KeysIInv'
  BY <1>2, TakeStep
<1>3. CASE ReadPem
  BY <1>3, ReadStep
<1>4. CASE CopyPem
  BY <1>4, CopyStep
<1>5. CASE WritePem
  BY <1>5, WriteStep
<1>6. CASE PrintKey
  BY <1>6, PrintStep
<1>7. CASE Interrupt
  BY <1>7, InterruptStep
<1>8. CASE UNCHANGED keysVars
  BY <1>8 DEF keysVars, KeysIInv, KeyTypes, KeyOfItsOwn, RunAgrees,
              NoPrintedKeyIsLost
<1> QED
  BY <1>1, <1>2, <1>3, <1>4, <1>5, <1>6, <1>7, <1>8 DEF KeysNext

\* Only a write replaces a key, and it does so because it was told to.
LEMMA StepForcesOnly ==
  KeysIInv /\ [KeysNext]_keysVars
    => [\A r \in KeyRoles :
          pem[r] \in 1 .. MaxKeys /\ pem'[r] # pem[r]
            => keygen.force /\ keygen.role = r]_keysVars
<1> SUFFICES ASSUME KeysIInv, [KeysNext]_keysVars,
                    NEW r \in KeyRoles, pem[r] \in 1 .. MaxKeys, pem'[r] # pem[r]
             PROVE  keygen.force /\ keygen.role = r
  OBVIOUS
<1>1. CASE WritePem
  <2>1. /\ keygen.role \in KeyRoles /\ pem \in [KeyRoles -> Content]
        /\ keygen.at = "writing" /\ RunAgrees
        /\ \E x : pem' = [pem EXCEPT ![keygen.role] = x]
    BY <1>1 DEF KeysIInv, KeyTypes, WritePem
  <2>2. keygen.role = r
    BY <2>1
  <2>3. pem[r] # NoFile
    BY DEF NoFile
  <2> QED
    BY <2>1, <2>2, <2>3 DEF RunAgrees
<1>2. CASE ~WritePem
  BY <1>2 DEF KeysNext, keysVars, StartKeygen, TakeRole, ReadPem, CopyPem,
              PrintKey, Interrupt
<1> QED
  BY <1>1, <1>2

LEMMA IInvKeeps == KeysIInv => KeysTypeOK /\ NoPrintedKeyIsLost
<1> SUFFICES ASSUME KeysIInv PROVE KeysTypeOK
  BY DEF KeysIInv
<1>1. drawn \in Nat /\ drawn <= MaxKeys
  BY KeysAssumption DEF KeysIInv, KeyTypes
<1>2. 1 .. drawn \subseteq 1 .. MaxKeys
  BY <1>1, KeysAssumption
<1>3. printed \in [KeyRoles -> SUBSET (1 .. MaxKeys)]
  BY <1>2 DEF KeysIInv, KeyTypes
<1>4. keygen \in [at : {"none", "next", "reading", "copying", "writing",
                        "printing"},
                  role : KeyRoles, todo : SUBSET KeyRoles, force : BOOLEAN]
  BY DEF KeysIInv, KeyTypes
<1> QED
  BY <1>3, <1>4 DEF KeysIInv, KeyTypes, KeyOfItsOwn, KeysTypeOK

\* What keygen.ts and the files under keys/ look like between any two file
\* operations, whatever runs were started, forced or interrupted.
THEOREM KeysInvariant == KeysSpec => []KeysIInv
<1> QED
  BY KeysInitIInv, KeysStep, PTL DEF KeysSpec

\* "they control funded testnet accounts and have no mnemonic or backup": a key
\* the operator was shown stays in its PEM or in a backup of its role, and in
\* its PEM until a run is forced to replace it, for any roles and any runs.
THEOREM KeysKept == KeysSpec => KeysAreKept
<1>1. KeysSpec => [](KeysTypeOK /\ NoPrintedKeyIsLost)
  BY KeysInvariant, IInvKeeps, PTL
<1>2. KeysSpec => OverwrittenByForceOnly
  BY KeysInvariant, StepForcesOnly, PTL DEF KeysSpec, OverwrittenByForceOnly
<1> QED
  BY <1>1, <1>2 DEF KeysAreKept
=============================================================================
