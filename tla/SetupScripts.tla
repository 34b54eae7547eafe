----------------------------- MODULE SetupScripts -----------------------------
(***************************************************************************)
(* The scripts that the operator runs to get ready, on Algorand and on     *)
(* Casper.  They share neither accounts nor state.                         *)
(***************************************************************************)
EXTENDS AlgorandFunding, CasperFunding

\* The set-up scripts on both chains announce nothing that did not happen.  On
\* Algorand no opt-in is repeated that a script has reported, and demo.ts tops
\* the agent up only when it has to; on Casper a balance that a script found
\* enough is enough, unless another transaction of the wallet is on its way.
ScriptsAreHonest == FundingInv /\ CsprInv
=============================================================================
