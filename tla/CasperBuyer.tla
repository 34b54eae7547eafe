----------------------------- MODULE CasperBuyer -----------------------------
(***************************************************************************)
(* The buying half of a Casper payment: fetchWithPayment in                *)
(* lib/x402/client.ts, which the command line and the local MCP server     *)
(* call.  It asks, is quoted, signs one authorization and presents it to   *)
(* the server of CasperPayment; others can present it again.               *)
(***************************************************************************)
EXTENDS CasperPayment

VARIABLES
  calls,   \* authorization -> where the call that signs it is
  sentAs   \* authorization -> the number of the call's own request

buyerVars == <<paymentVars, calls, sentAs>>

\* paid and paidPending are one answer, ok, to the caller: with a result, and
\* without.
CallStages == {"asking", "unsigned", "signed", "sent", "paid", "paidPending",
               "refused", "threw"}

BuyerInit ==
  /\ Init
  /\ calls = [a \in Auths |-> "asking"]
  /\ sentAs = [a \in Auths |-> 0]

goesOn(a, stage) == calls' = [calls EXCEPT ![a] = stage]

\* The quote is within the budget or not; the request for it can throw.
ReadQuote(a) ==
  /\ calls[a] = "asking"
  /\ \E stage \in {"signed", "unsigned", "threw"} : goesOn(a, stage)
  /\ UNCHANGED <<paymentVars, sentAs>>

Present(a) ==
  /\ calls[a] = "signed"
  /\ Arrive(a)
  /\ sentAs' = [sentAs EXCEPT ![a] = Cardinality(Ids) + 1]
  /\ goesOn(a, "sent")

PresentToo(a) ==
  /\ calls[a] \notin {"asking", "unsigned", "signed"}
  /\ sentAs[a] # 0
  /\ Arrive(a)
  /\ UNCHANGED <<calls, sentAs>>

\* Every answer of the 200s counts as paid.
isOk_Any(stage) == stage \in Answered
isOk(stage)     == stage \in {"served", "accepted"}

ReadAnswer(a) ==
  LET answer == requests[sentAs[a]].stage
  IN  /\ calls[a] = "sent" /\ answer \in Answered \ {"lost"}
      /\ goesOn(a, IF ~isOk(answer) THEN "refused"
                   ELSE IF answer = "served" THEN "paid" ELSE "paidPending")
      /\ UNCHANGED <<paymentVars, sentAs>>

\* fetch throws, before or after the server has the request.
FetchThrows(a) ==
  /\ calls[a] \in {"signed", "sent"}
  /\ goesOn(a, "threw")
  /\ UNCHANGED <<paymentVars, sentAs>>

serverSteps ==
  \/ \E i \in Ids : Verify(i)
  \/ \E i \in Ids : Submit(i)
  \/ \E i \in Ids : Poll(i)
  \/ \E i \in Ids : Serve(i)
  \/ \E i \in Ids : AnswerPending(i)
  \/ \E i \in Ids : Lose(i)
  \/ \E i \in Ids : Execute(i)
  \/ \E i \in Ids : Revert(i)
  \/ \E a \in Auths : Expire(a)

BuyerNext ==
  \/ \E a \in Auths : ReadQuote(a)
  \/ \E a \in Auths : Present(a)
  \/ \E a \in Auths : PresentToo(a)
  \/ \E a \in Auths : ReadAnswer(a)
  \/ \E a \in Auths : FetchThrows(a)
  \/ serverSteps /\ UNCHANGED <<calls, sentAs>>

BuyerSpec == BuyerInit /\ [][BuyerNext]_buyerVars

-----------------------------------------------------------------------------
\* A call that reports itself paid is on the books, with the status that
\* tells whether it was: settled with a result, pending without.  The receipt
\* alone does not tell, but the row does, and only an executed transfer makes
\* it settled.
OkIsOnTheBooks ==
  \A a \in Auths :
    /\ calls[a] = "paid" =>
         /\ [request |-> sentAs[a], status |-> "settled"] \in ledger
         /\ transfer[sentAs[a]] = "executed"
    /\ calls[a] = "paidPending" =>
         /\ [request |-> sentAs[a], status |-> "pending"] \in ledger
         /\ transfer[sentAs[a]] # "none"
=============================================================================
