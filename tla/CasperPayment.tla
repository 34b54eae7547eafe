---------------------------- MODULE CasperPayment ----------------------------
(***************************************************************************)
(* Paying for a tool with Casper (apps/web/src/lib/x402: casper.ts,        *)
(* casper-route.ts; settlement.ts writes the ledger row).                  *)
(*                                                                         *)
(* A buyer signs an authorization once and presents it with a request,     *)
(* maybe several times.  Each request verifies it, submits a transfer to   *)
(* a node, polls for its execution and answers.  The transfer is out of    *)
(* the server's hands once a node has accepted it: it executes, reverts or *)
(* expires whatever became of the request.  The token contract accepts an  *)
(* authorization once and not after its deadline.                          *)
(*                                                                         *)
(* Not covered: signatures, amounts and payees (checked per request on     *)
(* data that does not change), gas accounting.                             *)
(***************************************************************************)
EXTENDS Naturals, FiniteSets

CONSTANTS
  Auths,       \* signed authorizations
  MaxRequests  \* bound: requests made in one behaviour

ASSUME RequestsAssumption == MaxRequests \in Nat

VARIABLES
  expired,   \* authorizations past their deadline
  requests,  \* request number -> [auth, stage]
  transfer,  \* request number -> what became of the transaction it submitted
  ledger     \* rows of the settlement ledger: [request, status]

paymentVars == <<expired, requests, transfer, ledger>>

\* polling: the node answered with a transaction hash.  settled, unconfirmed:
\* the verdict of settleOnChain, nothing recorded yet.  rejected, accepted and
\* served are the answers 402, 202 and 200; lost: no answer.
Stages    == {"received", "verified", "polling", "settled", "unconfirmed",
              "rejected", "accepted", "served", "lost"}
Answered  == {"rejected", "accepted", "served", "lost"}
Transfers == {"none", "accepted", "executed", "reverted"}

Ids == DOMAIN requests

Init ==
  /\ expired = {}
  /\ requests = <<>>
  /\ transfer = <<>>
  /\ ledger = {}

advance(i, stage) == requests' = [requests EXCEPT ![i].stage = stage]

-----------------------------------------------------------------------------
(***************************************************************************)
(* The server.                                                             *)
(***************************************************************************)
Arrive(a) ==
  /\ Cardinality(Ids) < MaxRequests
  /\ LET extended == 1 .. Cardinality(Ids) + 1
     IN  /\ requests' = [i \in extended |->
              IF i \in Ids THEN requests[i] ELSE [auth |-> a, stage |-> "received"]]
         /\ transfer' = [i \in extended |->
              IF i \in Ids THEN transfer[i] ELSE "none"]
  /\ UNCHANGED <<expired, ledger>>

\* verifyPayment refuses from six seconds before the deadline on, so what it
\* accepts has not expired; the balances may refuse the payment as well.
Verify(i) ==
  /\ requests[i].stage = "received"
  /\ \/ requests[i].auth \notin expired /\ advance(i, "verified")
     \/ advance(i, "rejected")
  /\ UNCHANGED <<expired, transfer, ledger>>

\* The verdict when the reply to a submission does not arrive.
lostReply == "rejected"

\* putTransactionRaw throws when the node refuses the transaction, and also
\* when the node took it and the reply was lost or could not be read.
Submit(i) ==
  /\ requests[i].stage = "verified"
  /\ \/ /\ transfer' = [transfer EXCEPT ![i] = "accepted"]
        /\ \/ advance(i, "polling")
           \/ advance(i, lostReply)
     \/ /\ advance(i, "rejected")
        /\ UNCHANGED transfer
  /\ UNCHANGED <<expired, ledger>>

\* Execution without an error message confirms a transfer.
confirms_Included(i) == transfer[i] \in {"executed", "reverted"}
confirms(i)          == transfer[i] = "executed"

\* The verdict when the window ends without an answer.
timeout_Settled == "settled"
timeout         == "unconfirmed"

\* A request to the node that fails ends the poll the way a revert does.
Poll(i) ==
  /\ requests[i].stage = "polling"
  /\ \/ confirms(i) /\ advance(i, "settled")
     \/ advance(i, timeout)
     \/ advance(i, "rejected")
  /\ UNCHANGED <<expired, transfer, ledger>>

\* Run the tool, write a settled row, answer 200.
Serve(i) ==
  /\ requests[i].stage = "settled"
  /\ ledger' = ledger \cup {[request |-> i, status |-> "settled"]}
  /\ advance(i, "served")
  /\ UNCHANGED <<expired, transfer>>

\* Write a pending row with the hash, answer 202.
AnswerPending(i) ==
  /\ requests[i].stage = "unconfirmed"
  /\ ledger' = ledger \cup {[request |-> i, status |-> "pending"]}
  /\ advance(i, "accepted")
  /\ UNCHANGED <<expired, transfer>>

\* The process ends, or the platform ends the request.
Lose(i) ==
  /\ requests[i].stage \notin Answered
  /\ advance(i, "lost")
  /\ UNCHANGED <<expired, transfer, ledger>>

-----------------------------------------------------------------------------
(***************************************************************************)
(* The chain.                                                              *)
(***************************************************************************)
used(a) == \E i \in Ids : requests[i].auth = a /\ transfer[i] = "executed"

Execute(i) ==
  /\ transfer[i] = "accepted"
  /\ requests[i].auth \notin expired
  /\ ~used(requests[i].auth)
  /\ transfer' = [transfer EXCEPT ![i] = "executed"]
  /\ UNCHANGED <<expired, requests, ledger>>

\* A used or expired authorization, or a payer without the funds.
Revert(i) ==
  /\ transfer[i] = "accepted"
  /\ transfer' = [transfer EXCEPT ![i] = "reverted"]
  /\ UNCHANGED <<expired, requests, ledger>>

Expire(a) ==
  /\ a \notin expired
  /\ expired' = expired \cup {a}
  /\ UNCHANGED <<requests, transfer, ledger>>

Next ==
  \/ \E a \in Auths : Arrive(a)
  \/ \E i \in Ids : Verify(i)
  \/ \E i \in Ids : Submit(i)
  \/ \E i \in Ids : Poll(i)
  \/ \E i \in Ids : Serve(i)
  \/ \E i \in Ids : AnswerPending(i)
  \/ \E i \in Ids : Lose(i)
  \/ \E i \in Ids : Execute(i)
  \/ \E i \in Ids : Revert(i)
  \/ \E a \in Auths : Expire(a)

Spec == Init /\ [][Next]_paymentVars

-----------------------------------------------------------------------------
(***************************************************************************)
(* Properties.                                                             *)
(***************************************************************************)
\* Every field has its type; a transfer exists only for a request that passed
\* verification.
TypeOK ==
  /\ expired \subseteq Auths
  /\ Ids \in {1 .. k : k \in 0 .. MaxRequests}
  /\ requests \in [Ids -> [auth : Auths, stage : Stages]]
  /\ transfer \in [Ids -> Transfers]
  /\ \A i \in Ids : requests[i].stage \in {"received", "verified"} =>
                       transfer[i] = "none"
  /\ ledger \subseteq [request : Ids, status : {"settled", "pending"}]

\* No tool is run twice on one authorization, however often and however
\* concurrently it is presented: what is served is paid for by a transfer of
\* its own, and the contract executes one per authorization.
OneServicePerPayment ==
  \A i, j \in Ids :
    /\ requests[i].stage \in {"settled", "served"}
    /\ requests[j].stage \in {"settled", "served"}
    /\ requests[i].auth = requests[j].auth
    => i = j

\* "payments that genuinely settled on-chain": a settled row stands for an
\* executed transfer, and every paid request that got an answer other than 402
\* has a row.
LedgerIsHonest ==
  /\ \A r \in ledger : r.status = "settled" => transfer[r.request] = "executed"
  /\ \A i \in Ids :
       transfer[i] = "executed" /\ requests[i].stage \in {"accepted", "served"}
         => \E r \in ledger : r.request = i

\* "failed: rejected before or during submission, no funds moved".
FailedMovedNoFunds ==
  \A i \in Ids : requests[i].stage = "rejected" => transfer[i] # "executed"
=============================================================================
