---------------------------- MODULE NightpassAudit ----------------------------
(***************************************************************************)
(* What anyone can learn from the public half of the contract: the reader  *)
(* and the verifier of the website (apps/web/src/lib/nightpass.ts) and the *)
(* audit that ends the command-line demo (midnight/cli/src/main.ts).       *)
(*                                                                         *)
(* Each fetches the ledger once and computes on that copy, through the     *)
(* accessors of the compiled contract, so each is an operator on a ledger  *)
(* state.  The auditor knows a pass, its tool and a claimed number of      *)
(* calls; it never learns an index that was not asked for.                 *)
(***************************************************************************)
EXTENDS Nightpass, FiniteSetsExt

CONSTANT MaxAudited  \* most calls one audit derives, 8

ASSUME AuditAssumption == MaxAudited \in Nat

-----------------------------------------------------------------------------
(***************************************************************************)
(* The accessors of ledger(state).                                         *)
(***************************************************************************)
toolEntries         == {<<t, tools[t]>> : t \in DOMAIN tools}
servedOf(t)         == IF t \in DOMAIN callsServed THEN callsServed[t] ELSE 0
issued              == passesIssued
spentCalls_size     == Cardinality(spentCalls)
spentCalls_member(n) == n \in spentCalls
attestations_size   == Cardinality(DOMAIN attestations)

-----------------------------------------------------------------------------
(***************************************************************************)
(* The state page: one row per listed tool, and the totals.                *)
(***************************************************************************)
toolRow(t, tool) ==
  [toolId |-> t, priceAtomic |-> tool.priceAtomic,
   quota |-> tool.quota, active |-> tool.active,
   callsServed |-> servedOf(t),
   publisherCommitment |-> tool.publisherCommitment]

readNightpassState ==
  [tools         |-> {toolRow(e[1], e[2]) : e \in toolEntries},
   passesIssued  |-> issued,
   callsRedeemed |-> spentCalls_size,
   attestations  |-> attestations_size]

(***************************************************************************)
(* The audit of one pass.                                                  *)
(***************************************************************************)
clamped(calls) == IF calls > MaxAudited THEN MaxAudited ELSE calls

check(commitment, i) ==
  [callIndex |-> i, onChain |-> spentCalls_member(callNullifier(commitment, i))]

verifyPass(commitment, calls) ==
  [calls  |-> {check(commitment, i) : i \in 0 .. clamped(calls) - 1},
   beyond |-> check(commitment, clamped(calls)),
   spentCallsTotal |-> spentCalls_size]

everyCallChecks(result) == \A row \in result.calls : row.onChain
nextCallAbsent(result)  == ~ result.beyond.onChain

-----------------------------------------------------------------------------
(***************************************************************************)
(* Properties.                                                             *)
(***************************************************************************)
\* The page's totals agree with each other: the calls of the rows add up to
\* the nullifiers, and there are no more calls than the passes sold allow.
TotalsAddUp ==
  LET state  == readNightpassState
      served == SumFunction([row \in state.tools |-> row.callsServed])
      top    == Max({row.quota : row \in state.tools} \cup {0})
  IN  /\ served = state.callsRedeemed
      /\ state.callsRedeemed <= state.passesIssued * top

\* An audit that asks for as many calls as the pass has quota tells the whole
\* history: it confirms every call of the pass and finds nothing beyond,
\* whoever made the calls and in whatever order.
FullAuditIsComplete ==
  \A c \in passCommitments :
    LET quota  == tools[c.tool].quota
        result == verifyPass(c, quota)
    IN  quota <= MaxAudited =>
          /\ {row.callIndex : row \in {r \in result.calls : r.onChain}}
               = {n.index : n \in CallsOf(c)}
          /\ nextCallAbsent(result)

\* The verdict printed at the end of the demo: every claimed call is found,
\* the next one is not, so "claim is exact, not a lower bound" (runDemo).
ConfirmedClaimIsExact ==
  \A c \in passCommitments : \A calls \in 1 .. MaxAudited :
    LET result == verifyPass(c, calls)
    IN  everyCallChecks(result) /\ nextCallAbsent(result) =>
          Cardinality(CallsOf(c)) = calls

\* What anyone can read of the contract's public state is whole: the totals of
\* the website and the history of each pass.
PublicRecordIsWhole == TotalsAddUp /\ FullAuditIsComplete
=============================================================================
