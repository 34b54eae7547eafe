----------------------------- MODULE NightpassCli -----------------------------
(***************************************************************************)
(* The command-line client's wallet of passes                              *)
(* (midnight/cli/src/api.ts, midnight/contract/src/witnesses.ts).          *)
(*                                                                         *)
(* One agent with one long-lived secret holds passes for several tools in  *)
(* a private state that survives a crash, keyed by tool.  issuePass writes *)
(* the new nonce there BEFORE the transaction, redeemCall writes the new   *)
(* counter AFTER it, so a crash or a lost answer between the transaction   *)
(* and the write leaves the two sides apart.  The wallet has room for one  *)
(* pass per tool: the next purchase takes the place of the last one before *)
(* it is known to go through.                                              *)
(***************************************************************************)
EXTENDS NightpassTx, Sequences

CONSTANTS
  SecretKey,     \* the agent's secret
  FreshNonces,   \* nonces the agent draws, in order: a sequence
  AuditedBy,     \* the auditor attested to
  MaxOperations  \* bound: operations begun in one behaviour

ASSUME CliAssumption ==
  /\ SecretKey \in Secrets /\ AuditedBy \in Auditors
  /\ FreshNonces \in Seq(Nonces)
  /\ \A i, j \in DOMAIN FreshNonces : FreshNonces[i] = FreshNonces[j] => i = j
  /\ MaxOperations \in Nat

VARIABLES
  passes,   \* private state on disk: tool -> set with the PassSecret, or empty
  op,       \* the operation in progress: a set of at most one
  pending,  \* transactions submitted and not yet decided
  final,    \* ids of the transactions that applied
  begun,    \* number of operations so far
  drawnFor  \* nonces drawn so far, each by the tool it was drawn for

cliVars == <<passes, op, pending, final, begun, drawnFor>>
allVars == <<vars, cliVars>>

PassSecret == [nonce : Nonces, callsUsed : 0 .. MaxUint]
Operation  == [id : 1 .. MaxOperations, action : Actions, tool : Tools,
               calls : 0 .. MaxUint, submitted : BOOLEAN]

MyPass(t, nonce) == passCommitment(t, SecretKey, nonce)

-----------------------------------------------------------------------------
(***************************************************************************)
(* The tools are listed, the agent has joined with an empty wallet.        *)
(***************************************************************************)
CliLedger ==
  /\ \E price \in Prices, quota \in Quotas \ {0} :
       tools = [t \in Tools |->
                  [publisherCommitment |-> publisherCommitment(SecretKey),
                   priceAtomic |-> price, quota |-> quota, active |-> TRUE]]
  /\ callsServed = [t \in Tools |-> 0]
  /\ passCommitments = {}
  /\ passesIssued = 0
  /\ spentCalls = {}
  /\ attestations = [tag \in {} |-> {}]

CliWallet ==
  /\ passes = [t \in Tools |-> {}]
  /\ op = {}
  /\ pending = {}
  /\ final = {}
  /\ begun = 0
  /\ drawnFor = <<>>

CliInit == CliLedger /\ CliWallet

nonces == Len(drawnFor)

begin(action, t, calls) ==
  /\ op = {}
  /\ begun < MaxOperations
  /\ begun' = begun + 1
  /\ op' = {[id |-> begun + 1, action |-> action, tool |-> t, calls |-> calls,
             submitted |-> FALSE]}
  /\ UNCHANGED <<vars, pending, final>>

\* What issuePass writes before it calls the circuit: a pass with its nonce
\* and no call used, in place of whatever was held for the tool.
withPass(held, nonce) == {[nonce |-> nonce, callsUsed |-> 0]}

BeginIssue(t) ==
  /\ nonces < Len(FreshNonces)
  /\ begin("issuePass", t, 0)
  /\ drawnFor' = Append(drawnFor, t)
  /\ passes' = [passes EXCEPT ![t] = withPass(@, FreshNonces[nonces + 1])]

BeginRedeem(t) ==
  /\ begin("redeemCall", t, 0)
  /\ UNCHANGED <<passes, drawnFor>>

\* The number of calls claimed is the caller's word.
BeginAttest(t, calls) ==
  /\ begin("attest", t, calls)
  /\ UNCHANGED <<passes, drawnFor>>

\* The witnesses are read when the circuit runs; without a pass they throw.
callIndex(o, p) == IF o.action = "attest" THEN o.calls ELSE p.callsUsed

Submit(o) ==
  /\ ~o.submitted
  /\ \E p \in passes[o.tool] :
       /\ circuitHolds(o.action, MyPass(o.tool, p.nonce), AuditedBy,
                       callIndex(o, p))
       /\ pending' = pending \cup {proven(o.id, o.action,
                                          MyPass(o.tool, p.nonce),
                                          callIndex(o, p))}
  /\ op' = {[o EXCEPT !.submitted = TRUE]}
  /\ UNCHANGED <<vars, passes, final, begun, drawnFor>>

\* The counter advances once the transaction has finalised.
finalised_OnSubmit(o) == o.submitted
finalised(o)          == o.id \in final

\* callTx resolved; withCallSpent is the last thing a redemption does.
Succeed(o) ==
  /\ o.submitted
  /\ finalised(o)
  /\ passes' = IF o.action = "redeemCall"
               THEN [passes EXCEPT ![o.tool] =
                       {[p EXCEPT !.callsUsed = @ + 1] : p \in @}]
               ELSE passes
  /\ op' = {}
  /\ UNCHANGED <<vars, pending, final, begun, drawnFor>>

\* What is on disk after a failure: nothing is undone, because a purchase that
\* failed may yet apply.
afterFailure(o) == passes

\* callTx threw, before or after its transaction went out, or the process
\* ended; the transaction stays where it is.
Abandon(o) ==
  /\ passes' = afterFailure(o)
  /\ op' = {}
  /\ UNCHANGED <<vars, pending, final, begun, drawnFor>>

Land(x) ==
  /\ Apply(x, AuditedBy)
  /\ pending' = pending \ {x}
  /\ final' = final \cup {x.id}
  /\ UNCHANGED <<passes, op, begun, drawnFor>>

Drop(x) ==
  /\ pending' = pending \ {x}
  /\ UNCHANGED <<vars, passes, op, final, begun, drawnFor>>

CliNext ==
  \/ \E t \in Tools : BeginIssue(t)
  \/ \E t \in Tools : BeginRedeem(t)
  \/ \E t \in Tools, calls \in 0 .. MaxUint : BeginAttest(t, calls)
  \/ \E o \in op : Submit(o)
  \/ \E o \in op : Succeed(o)
  \/ \E o \in op : Abandon(o)
  \/ \E x \in pending : Land(x)
  \/ \E x \in pending : Drop(x)

CliSpec == CliInit /\ [][CliNext]_allVars

-----------------------------------------------------------------------------
(***************************************************************************)
(* Properties.                                                             *)
(***************************************************************************)
Spent(t, nonce) == {n.index : n \in CallsOf(MyPass(t, nonce))}

\* Every field has its type; the wallet is keyed by tool, one pass each, and
\* one operation runs at a time.
CliTypeOK ==
  /\ TypeOK
  /\ passes \in [Tools -> SUBSET PassSecret]
  /\ \A t \in Tools : Cardinality(passes[t]) <= 1
  /\ op \subseteq Operation /\ Cardinality(op) <= 1
  /\ pending \subseteq Tx(1 .. begun)
  /\ final \subseteq 1 .. begun
  /\ nonces <= Len(FreshNonces)

\* The wallet never believes more calls spent than the chain has, whatever
\* was lost or crashed in between: quota is not thrown away locally.
NoCallForgottenByChain ==
  \A t \in Tools : \A p \in passes[t] : 0 .. p.callsUsed - 1 \subseteq Spent(t, p.nonce)

\* The nonce is on disk before the purchase can happen, and stays there: no
\* crash, lost answer or late transaction loses a pass that was bought.  Only
\* the next purchase begun for its tool does, also one that never goes through.
BoughtPassIsHeldUntilNext ==
  \A i \in 1 .. nonces, t \in Tools :
    MyPass(t, FreshNonces[i]) \in passCommitments =>
      \/ \E p \in passes[t] : p.nonce = FreshNonces[i]
      \/ \E k \in i + 1 .. nonces : drawnFor[k] = t

\* Wallet and chain can be told apart by one lost answer and no more: what was
\* bought can be used until the next purchase, nothing uncalled is counted.
CliInv == CliTypeOK /\ NoCallForgottenByChain /\ BoughtPassIsHeldUntilNext
=============================================================================
