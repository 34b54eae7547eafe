----------------------------- MODULE MCClientSide -----------------------------
(***************************************************************************)
(* Three parts of the client side that share no state with one another,   *)
(* side by side: the passes of the Midnight command line, its demo, and    *)
(* payments with Algorand.  Each behaviour is a behaviour of one of them,  *)
(* the others stay at one initial state.  Nothing of the code is modelled  *)
(* here.                                                                   *)
(***************************************************************************)
(* Two tools with a quota of one or two calls and two nonces: the wallet can
   hold a pass of each tool or have one pass replaced by the next.  Four
   operations are enough to buy, redeem, lose the answer and try again.  Two
   runs of the demo, listing both tools, with secrets and nonces of their own.
   Two Algorand payments from a purse that holds one of
   them, for listings of two prices, one of the transfers presented twice;
   the operator's cap is between the prices, and a caller asks for none, for a
   higher one, or for one that is no number.                                *)
EXTENDS NightpassCli, NightpassDemo, AlgorandPayment, TLC

CONSTANTS t1, t2, agent, p1, a1, p2, a2, n1, n2, auditor
CONSTANTS payer1, payer2, cheap, dear

MCTools       == {t1, t2}
MCSecrets     == {agent, p1, a1, p2, a2}
MCNonces      == {n1, n2}
MCFreshNonces == <<n1, n2>>
MCCatalog     == <<t1, t2>>
MCDrawn       == <<[publisher |-> p1, agent |-> a1, nonce |-> n1],
                   [publisher |-> p2, agent |-> a2, nonce |-> n2]>>
MCAuditors    == {auditor}
MCPrices      == {10}
MCQuotas      == {1, 2}

MCPresentations == {<<payer1, 1>>, <<payer1, 2>>, <<payer2, 1>>}
MCPrice         == (cheap :> 2) @@ (dear :> 3)
MCAsks          == {<<cheap, "mcp", 0>>, <<dear, "mcp", 3>>, <<dear, "cli", NaN>>}

-----------------------------------------------------------------------------
VARIABLE part

clientVars == <<part, vars, cliVars, demoVars, algorandVars>>

\* The passes and the demo each have the contract to themselves.
ClientInit ==
  /\ part \in {"passes", "demo", "algorand"}
  /\ IF part = "passes" THEN CliLedger ELSE Init
  /\ CliWallet
  /\ DemoStart
  /\ part # "demo" => disk = fresh(SecretKey)
  /\ AlgorandInit
  /\ part # "algorand" => payeeSet /\ facilitatorUp

ClientNext ==
  /\ UNCHANGED part
  /\ \/ /\ part = "passes" /\ CliNext
        /\ UNCHANGED <<demoVars, algorandVars>>
     \/ /\ part = "demo" /\ DemoNext
        /\ UNCHANGED <<cliVars, algorandVars>>
     \/ /\ part = "algorand" /\ AlgorandNext
        /\ UNCHANGED <<vars, cliVars, demoVars>>

\* Of a part at its initial state nothing that fairness asks for is enabled.
ClientSpec ==
  ClientInit /\ [][ClientNext]_clientVars /\ AlgorandFairness
=============================================================================
