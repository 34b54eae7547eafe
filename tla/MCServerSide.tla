----------------------------- MODULE MCServerSide -----------------------------
(***************************************************************************)
(* Three parts of the server that share no state with one another, side by *)
(* side: each behaviour is a behaviour of one of them, the others stay at  *)
(* their initial state.  Nothing of the code is modelled here.             *)
(***************************************************************************)
(* Two server processes, three settlements and lanes of one row each: every
   push is followed by a trim that can evict.  Three addresses, the third of
   them that of a proxy; windows of three ticks, two to the second.  A
   publisher and a stranger, and three transactions to race.               *)
EXTENDS LedgerStore, RateLimit, ToolRegistry

CONSTANTS p1, p2, r1, r2, m1, c1, c2, c3
CONSTANTS treasury, stranger, cheapTool, dearTool, schema1, schema2, slug1

MCProxies == << c3 >>

-----------------------------------------------------------------------------
VARIABLE part

serverVars == <<part, ledgerVars, limitVars, registryVars>>

ServerInit ==
  /\ part \in {"ledger", "limiter", "registry"}
  /\ LedgerInit
  /\ LimitInit
  /\ RegistryInit
  /\ part # "registry" => catalog = CHOOSE c \in [Slugs -> Served] : TRUE

ServerNext ==
  /\ UNCHANGED part
  /\ \/ /\ part = "ledger" /\ LedgerNext
        /\ UNCHANGED <<limitVars, registryVars>>
     \/ /\ part = "limiter" /\ LimitNext
        /\ UNCHANGED <<ledgerVars, registryVars>>
     \/ /\ part = "registry" /\ RegistryNext
        /\ UNCHANGED <<ledgerVars, limitVars>>

\* Nothing that the fairness of the ledger asks for is enabled while the
\* ledger is at its initial state.
ServerSpec == ServerInit /\ [][ServerNext]_serverVars /\ LedgerFairness
=============================================================================
