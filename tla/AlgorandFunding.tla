---------------------------- MODULE AlgorandFunding ----------------------------
(***************************************************************************)
(* Getting ready to pay with Algorand: the operator's scripts optin.ts,    *)
(* fund.ts and demo.ts (apps/web/scripts/algorand) over getBalances,       *)
(* optInUsdc, transferAlgo and transferUsdc of lib/x402/algorand.ts.       *)
(*                                                                         *)
(* A script reads balances, decides, submits a transaction and waits a few *)
(* rounds for it.  When the wait ends first the script fails and the       *)
(* transaction may land later, under the next script.  Scripts run one at  *)
(* a time.  ALGO is counted in units of 1000 microALGO; the payment at the *)
(* end of demo.ts is AlgorandPayment's, here it happens or it does not.    *)
(***************************************************************************)
EXTENDS Naturals, Sequences, FiniteSetsExt

CONSTANTS
  Holders,       \* treasury, agent
  Treasury, Buyer,
  Routes,        \* <<from, to>> of fund.ts
  StartAlgo,     \* ALGO an account may hold at first
  FundAlgo,      \* ALGO amounts of fund.ts
  FundUsdc,      \* USDC amounts of fund.ts
  TOP_UP,        \* USDC an agent that holds nothing is given
  CallPrice,     \* USDC
  FaucetUsdc,    \* USDC the faucet gives, once
  MaxTransfers   \* bound: transactions submitted

ASSUME FundingAssumption ==
  /\ Treasury \in Holders /\ Buyer \in Holders /\ Treasury # Buyer
  /\ Routes \subseteq Holders \X Holders
  /\ StartAlgo \subseteq Nat /\ FundAlgo \subseteq Nat /\ FundUsdc \subseteq Nat
  /\ TOP_UP \in Nat /\ CallPrice \in Nat /\ FaucetUsdc \in Nat
  /\ MaxTransfers \in Nat

VARIABLES
  algo,      \* holder -> ALGO
  usdc,      \* holder -> USDC
  optedIn,   \* holders that have opted in to USDC
  faucet,    \* holders the faucet has given USDC to
  txns,      \* transactions submitted, in order
  script,    \* the running script: [name, at, todo, algo, usdc, tx], where todo are
             \* the roles left to optin.ts, algo and usdc what fund.ts was asked for
  reported   \* transactions a script reported as done

fundingVars == <<algo, usdc, optedIn, faucet, txns, script, reported>>

noTxn    == [kind |-> "none", from |-> Treasury, to |-> Treasury, amount |-> 0]
noScript == [name |-> "none", at |-> "none", todo |-> {}, algo |-> {}, usdc |-> {},
             tx |-> noTxn]
balances == <<algo, usdc, optedIn, faucet>>

FundingInit ==
  /\ algo \in [Holders -> StartAlgo]
  /\ usdc = [h \in Holders |-> 0]
  /\ optedIn \in SUBSET {h \in Holders : algo[h] >= 200}
  /\ faucet = {}
  /\ txns = <<>>
  /\ script = noScript
  /\ reported = {}

-----------------------------------------------------------------------------
(***************************************************************************)
(* The network.                                                            *)
(***************************************************************************)
FEE == 1
minBalance(opted) == IF opted THEN 200 ELSE 100

\* What a node asks of a transaction, when it takes it and when it runs it.
valid(tx) ==
  LET opts  == tx.from \in optedIn \/ tx.kind = "optin"
      moved == IF tx.kind = "algo" THEN tx.amount ELSE 0
  IN  /\ algo[tx.from] >= moved + FEE + minBalance(opts)
      /\ tx.kind = "algo" =>
           algo[tx.to] + moved >= minBalance(tx.to \in optedIn)
      /\ tx.kind = "usdc" =>
           {tx.from, tx.to} \subseteq optedIn /\ usdc[tx.from] >= tx.amount

give(balance, from, to, amount) ==
  [balance EXCEPT ![from] = @ - amount, ![to] = @ + amount]

LandTxn(i) ==
  LET tx   == txns[i]
      paid == [algo EXCEPT ![tx.from] = @ - FEE]
  IN  /\ tx.status = "pending" /\ valid(tx)
      /\ txns' = [txns EXCEPT ![i].status = "confirmed"]
      /\ algo' = IF tx.kind = "algo" THEN give(paid, tx.from, tx.to, tx.amount)
                 ELSE paid
      /\ usdc' = IF tx.kind = "usdc" THEN give(usdc, tx.from, tx.to, tx.amount)
                 ELSE usdc
      /\ optedIn' = IF tx.kind = "optin" THEN optedIn \cup {tx.from} ELSE optedIn
      /\ UNCHANGED <<faucet, script, reported>>

\* No longer valid, or not included before its last round.
DropTxn(i) ==
  /\ txns[i].status = "pending"
  /\ txns' = [txns EXCEPT ![i].status = "dropped"]
  /\ UNCHANGED <<algo, usdc, optedIn, faucet, script, reported>>

FaucetGives(h) ==
  /\ faucet = {} /\ h \in optedIn
  /\ faucet' = {h}
  /\ usdc' = [usdc EXCEPT ![h] = @ + FaucetUsdc]
  /\ UNCHANGED <<algo, optedIn, txns, script, reported>>

-----------------------------------------------------------------------------
(***************************************************************************)
(* submit: sign, send, wait for confirmation.                              *)
(***************************************************************************)
become(at) == script' = [script EXCEPT !.at = at]

sends(tx) == script' = [script EXCEPT !.tx = tx, !.at = "sending"]

\* A refusal by the node ends the script.
SubmitTxn ==
  LET tx       == script.tx
      accepted == valid(tx)
  IN  /\ script.at = "sending" /\ Len(txns) < MaxTransfers
      /\ txns' = Append(txns, [kind |-> tx.kind, from |-> tx.from, to |-> tx.to,
           amount |-> tx.amount, by |-> script.name,
           status |-> IF accepted THEN "pending" ELSE "refused"])
      /\ IF accepted THEN become("waiting") ELSE script' = noScript
      /\ UNCHANGED <<balances, reported>>

\* What lets a script go on.
confirmed(tx) == tx.status = "confirmed"

\* What a script does next.
following ==
  CASE script.name = "optin" -> "roles"
    [] script.name = "demo"  -> "paying"
    [] script.name = "fund" /\ script.tx.kind = "algo" /\ script.usdc # {} -> "usdc"
    [] OTHER -> "end"

Await ==
  /\ script.at = "waiting" /\ confirmed(txns[Len(txns)])
  /\ reported' = reported \cup {Len(txns)}
  /\ become(following)
  /\ UNCHANGED <<balances, txns>>

\* Eight rounds have passed, or the transaction was dropped.
GiveUpWaiting ==
  /\ script.at = "waiting"
  /\ script' = noScript
  /\ UNCHANGED <<balances, txns, reported>>

\* The last step of each script, at any of its reads too, which can fail.
EndScript ==
  /\ script.at \in {"end", "roles", "opting", "algo", "usdc", "reading", "paying"}
  /\ script' = noScript
  /\ UNCHANGED <<balances, txns, reported>>

starts(new) ==
  /\ script.at = "none"
  /\ script' = new
  /\ UNCHANGED <<balances, txns, reported>>

-----------------------------------------------------------------------------
(***************************************************************************)
(* optin.ts.                                                               *)
(***************************************************************************)
MIN_ALGO_FOR_OPTIN == 101

StartOptIn(roles) ==
  starts([noScript EXCEPT !.name = "optin", !.at = "roles", !.todo = roles])

alreadyIn(h) == h \in optedIn

\* A role that has opted in, or lacks the ALGO, is passed over.
CheckOptIn(h) ==
  /\ script.at = "roles" /\ h \in script.todo
  /\ script' = [script EXCEPT !.todo = @ \ {h}, !.tx.from = h,
       !.at = IF alreadyIn(h) \/ algo[h] < MIN_ALGO_FOR_OPTIN THEN @
              ELSE "opting"]
  /\ UNCHANGED <<balances, txns, reported>>

\* optInUsdc reads the balances again.
OptIn ==
  LET h == script.tx.from
  IN  /\ script.at = "opting"
      /\ IF alreadyIn(h) THEN become("roles")
         ELSE script' = [script EXCEPT !.at = "sending", !.tx =
                [kind |-> "optin", from |-> h, to |-> h, amount |-> 0]]
      /\ UNCHANGED <<balances, txns, reported>>

-----------------------------------------------------------------------------
(***************************************************************************)
(* fund.ts: ALGO first, then USDC.  An amount that is given may be 0.      *)
(***************************************************************************)
option(amounts) == {{}} \cup {{n} : n \in amounts}

StartFund(from, to, algos, usdcs) ==
  /\ algos # {} \/ usdcs # {}
  /\ starts([noScript EXCEPT !.name = "fund", !.algo = algos, !.usdc = usdcs,
       !.at = IF algos # {} THEN "algo" ELSE "usdc",
       !.tx.from = from, !.tx.to = to])

\* The minimum balance of the sender is not asked for.
FundWithAlgo(amount) ==
  LET tx == script.tx
  IN  /\ script.at = "algo"
      /\ IF algo[tx.from] < amount + FEE THEN script' = noScript
         ELSE sends([tx EXCEPT !.kind = "algo", !.amount = amount])
      /\ UNCHANGED <<balances, txns, reported>>

FundWithUsdc(amount) ==
  LET tx == script.tx
  IN  /\ script.at = "usdc"
      /\ IF {tx.from, tx.to} \subseteq optedIn /\ usdc[tx.from] >= amount
         THEN sends([tx EXCEPT !.kind = "usdc", !.amount = amount])
         ELSE script' = noScript
      /\ UNCHANGED <<balances, txns, reported>>

-----------------------------------------------------------------------------
(***************************************************************************)
(* demo.ts.                                                                *)
(***************************************************************************)
StartDemoScript == starts([noScript EXCEPT !.name = "demo", !.at = "reading"])

needsTopUp_Below == usdc[Buyer] < TOP_UP
needsTopUp       == usdc[Buyer] = 0

bothEmpty == usdc[Treasury] = 0 /\ usdc[Buyer] = 0

TopUp ==
  /\ script.at = "reading"
  /\ IF ~({Treasury, Buyer} \subseteq optedIn) THEN script' = noScript
     ELSE IF bothEmpty THEN script' = noScript
     ELSE IF needsTopUp
     THEN sends([kind |-> "usdc", from |-> Treasury, to |-> Buyer,
                amount |-> IF usdc[Treasury] < TOP_UP THEN usdc[Treasury] ELSE TOP_UP])
     ELSE become("paying")
  /\ UNCHANGED <<balances, txns, reported>>

\* The facilitator pays the fee; the listing pays the treasury.
Pay ==
  /\ script.at = "paying" /\ usdc[Buyer] >= CallPrice
  /\ usdc' = give(usdc, Buyer, Treasury, CallPrice)
  /\ become("end")
  /\ UNCHANGED <<algo, optedIn, faucet, txns, reported>>

-----------------------------------------------------------------------------
FundingNext ==
  \/ \E i \in DOMAIN txns : LandTxn(i) \/ DropTxn(i)
  \/ \E h \in Holders : FaucetGives(h) \/ CheckOptIn(h)
  \/ \E roles \in SUBSET Holders : StartOptIn(roles)
  \/ OptIn
  \/ \E route \in Routes, algos \in option(FundAlgo), usdcs \in option(FundUsdc) :
       StartFund(route[1], route[2], algos, usdcs)
  \/ \E amount \in script.algo : FundWithAlgo(amount)
  \/ \E amount \in script.usdc : FundWithUsdc(amount)
  \/ StartDemoScript
  \/ TopUp
  \/ Pay
  \/ SubmitTxn
  \/ Await
  \/ GiveUpWaiting
  \/ EndScript

FundingSpec == FundingInit /\ [][FundingNext]_fundingVars

-----------------------------------------------------------------------------
\* Every field has its type.
FundingTypeOK ==
  /\ algo \in [Holders -> Nat] /\ usdc \in [Holders -> Nat]
  /\ optedIn \subseteq Holders /\ faucet \subseteq Holders
  /\ Len(txns) <= MaxTransfers
  /\ \A i \in DOMAIN txns :
       /\ txns[i].kind \in {"optin", "algo", "usdc"}
       /\ txns[i].status \in {"pending", "confirmed", "dropped", "refused"}
       /\ txns[i].from \in Holders /\ txns[i].to \in Holders
       /\ txns[i].amount \in Nat
  /\ reported \subseteq DOMAIN txns
  /\ script.todo \subseteq Holders

\* "sent" and "opted in" are printed for transactions that are on the chain.
ReportedIsOnChain == \A i \in reported : txns[i].status = "confirmed"

\* No role is made to pay twice for an opt-in it was told of.
OptedInOnce ==
  \A i \in reported : \A j \in DOMAIN txns :
    txns[i].kind = "optin" /\ txns[j].kind = "optin" /\ i < j
      => txns[i].from # txns[j].from

amountsTo(h, those) == SumFunctionOnSet([i \in DOMAIN txns |-> txns[i].amount],
  {i \in DOMAIN txns : txns[i].to = h /\ txns[i].kind = "usdc"
     /\ txns[i].status = "confirmed" /\ i \in those})

\* "moves USDC only if it has to": beyond what fund.ts and the faucet gave it,
\* the agent holds one top-up at most, and one more for each top-up that landed
\* after its script had given up.
OneTopUpAtATime ==
  LET demos == {i \in DOMAIN txns : txns[i].by = "demo"}
      late  == demos \ reported
      other == amountsTo(Buyer, DOMAIN txns \ demos)
                 + (IF Buyer \in faucet THEN FaucetUsdc ELSE 0)
  IN  usdc[Buyer] <= TOP_UP + amountsTo(Buyer, late) + other

\* What the Algorand scripts print happened, and what they spend was needed.
\* What they check need not be enough: optin.ts asks for 101 where 201 are
\* needed, and fund.ts leaves out the minimum balance of the sender.
FundingInv ==
  FundingTypeOK /\ ReportedIsOnChain /\ OptedInOnce /\ OneTopUpAtATime
=============================================================================
