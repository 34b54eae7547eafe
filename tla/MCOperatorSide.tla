---------------------------- MODULE MCOperatorSide ----------------------------
(***************************************************************************)
(* What runs on the keys and accounts of the operator, side by side: the   *)
(* payments with Casper that his facilitator submits, the daily allowance  *)
(* of his demo wallet, and the scripts with which he makes the keys and    *)
(* funds the accounts.  The parts share no state: each behaviour is a      *)
(* behaviour of one of them, the others stay at one initial state.         *)
(* Nothing of the code is modelled here.                                   *)
(***************************************************************************)
(* One authorization presented three times at once.  Two processes and three
   requests against an allowance of five: two small budgets fit together, a
   small and a large one do not; the plan costs more than the small budget, so
   a run can be stopped half way.  Two roles with three keys.  Accounts that can pay for
   an opt-in with nothing to spare and accounts that cannot, three transfers;
   Casper wallets that can pay for two operations, for one, for none, and two
   transactions to overtake one another.                                    *)
EXTENDS CasperBuyer, DemoSpend, CasperKeys, SetupScripts, TLC

CONSTANTS first
CONSTANTS p1, p2
CONSTANTS ra, rb
CONSTANTS agent, treasury

MCAuths     == {first}
MCProcesses == {p1, p2}
MCPlans     == {<<2, 2>>}
MCBudgets   == {2, 4}
MCRoutes    == {<<treasury, agent>>}

Symmetry == Permutations(MCProcesses)

-----------------------------------------------------------------------------
VARIABLE part

operatorVars == <<part, buyerVars, spendVars, keysVars, fundingVars, csprVars>>

OperatorInit ==
  /\ part \in {"casper", "allowance", "keys", "funding", "cspr"}
  /\ BuyerInit
  /\ SpendInit
  /\ KeysInit
  /\ FundingInit
  /\ part # "funding" => optedIn = {} /\ \A h \in Holders, n \in StartAlgo :
                           algo[h] <= n
  /\ CsprInit
  /\ part # "cspr" => \A w \in Wallets, n \in StartCspr : cspr[w] <= n

OperatorNext ==
  /\ UNCHANGED part
  /\ \/ /\ part = "casper" /\ BuyerNext
        /\ UNCHANGED <<spendVars, keysVars, fundingVars, csprVars>>
     \/ /\ part = "allowance" /\ SpendNext
        /\ UNCHANGED <<buyerVars, keysVars, fundingVars, csprVars>>
     \/ /\ part = "keys" /\ KeysNext
        /\ UNCHANGED <<buyerVars, spendVars, fundingVars, csprVars>>
     \/ /\ part = "funding" /\ FundingNext
        /\ UNCHANGED <<buyerVars, spendVars, keysVars, csprVars>>
     \/ /\ part = "cspr" /\ CsprNext
        /\ UNCHANGED <<buyerVars, spendVars, keysVars, fundingVars>>

OperatorSpec == OperatorInit /\ [][OperatorNext]_operatorVars
=============================================================================
