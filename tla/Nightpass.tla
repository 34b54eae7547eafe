------------------------------ MODULE Nightpass ------------------------------
(***************************************************************************)
(* The Nightpass contract: prepaid access passes on Midnight               *)
(* (midnight/contract/src/nightpass.compact).                              *)
(*                                                                         *)
(* One action per exported circuit.  An action is a transaction that the   *)
(* chain accepts; a circuit whose assert fails changes nothing and is not  *)
(* a step.  The witnesses (secret, nonce, call index, Merkle path) are     *)
(* supplied by whoever calls the circuit, so every action takes them as    *)
(* parameters with no assumption about how the caller chose them.  What    *)
(* the module states therefore holds for every client.                     *)
(*                                                                         *)
(* Hashes are collision free: a derived value is the record of what was    *)
(* hashed, and the prefix string that separates the four derivations is    *)
(* the record's set of fields.                                             *)
(***************************************************************************)
EXTENDS Integers, FiniteSets

CONSTANTS
  Tools,         \* tool ids, Bytes<32>
  Secrets,       \* agents' and publishers' secret keys
  Nonces,        \* per-pass randomness
  Auditors,      \* auditor ids
  Prices,        \* Uint<64> prices, only ever stored and compared
  Quotas,        \* the quotas publishers ask for, zero included
  MaxUint,       \* largest Uint<64>
  TreeCapacity   \* leaves a HistoricMerkleTree<20> can hold

ASSUME BoundsAssumption ==
  /\ MaxUint \in Nat \ {0}
  /\ TreeCapacity \in Nat
  /\ Quotas \subseteq 0 .. MaxUint

VARIABLES
  tools,            \* Map: tool id -> ToolRecord
  passCommitments,  \* leaves of the historic Merkle tree
  spentCalls,       \* Set of call nullifiers
  callsServed,      \* Map: tool id -> Uint<64>
  passesIssued,     \* Counter
  attestations      \* Map: audit tag -> auditor id

vars == <<tools, passCommitments, spentCalls, callsServed, passesIssued,
          attestations>>

-----------------------------------------------------------------------------
(***************************************************************************)
(* Values.                                                                 *)
(***************************************************************************)
Pass      == [tool : Tools, sk : Secrets, nonce : Nonces]
Nullifier == [pass : Pass, index : 0 .. MaxUint]
AuditTag  == [auditor : Auditors, pass : Pass, calls : 0 .. MaxUint]
Publisher == [publisher : Secrets]

ToolRecord == [publisherCommitment : Publisher, priceAtomic : Prices,
               quota : 1 .. MaxUint, active : BOOLEAN]

publisherCommitment(sk)        == [publisher |-> sk]
passCommitment(t, sk, nonce)   == [tool |-> t, sk |-> sk, nonce |-> nonce]
callNullifier(commitment, i)   == [pass |-> commitment, index |-> i]
auditTag(auditor, commitment, calls) ==
  [auditor |-> auditor, pass |-> commitment, calls |-> calls]

\* Map.insert of the Compact standard library: adds the key or overwrites it.
Insert(f, k, v) == [x \in DOMAIN f \cup {k} |-> IF x = k THEN v ELSE f[x]]

-----------------------------------------------------------------------------
(***************************************************************************)
(* The asserts that guard the ledger.  The definitions named after a guard *)
(* and an underscore are mistakes the properties below must notice; no     *)
(* action uses them.                                                       *)
(***************************************************************************)
unregistered_Unchecked(t) == t \in Tools
unregistered(t)           == t \notin DOMAIN tools

positive(quota)           == quota > 0

\* A Merkle path is the leaf it leads from.  checkRoot accepts the root of
\* any tree the contract ever had, hence every leaf inserted so far.
checkRoot_Unchecked(path) == path \in Pass
checkRoot(path)           == path \in passCommitments

sameLeaf_Unchecked(path, commitment) == path.tool = commitment.tool
sameLeaf(path, commitment)           == path = commitment

withinQuota_OffByOne(t, index) == index <= tools[t].quota
withinQuota(t, index)          == index < tools[t].quota

unspent_Unchecked(nullifier) == nullifier.pass \in passCommitments
unspent(nullifier)           == nullifier \notin spentCalls

claimable(t, calls) == calls <= tools[t].quota

-----------------------------------------------------------------------------
(***************************************************************************)
(* The circuits.                                                           *)
(***************************************************************************)
Init ==
  /\ tools = [t \in {} |-> {}]
  /\ passCommitments = {}
  /\ spentCalls = {}
  /\ callsServed = [t \in {} |-> {}]
  /\ passesIssued = 0
  /\ attestations = [tag \in {} |-> {}]

registerTool(t, price, quota, sk) ==
  /\ unregistered(t)
  /\ positive(quota)
  /\ tools' = Insert(tools, t,
                [publisherCommitment |-> publisherCommitment(sk),
                 priceAtomic |-> price, quota |-> quota, active |-> TRUE])
  /\ callsServed' = Insert(callsServed, t, 0)
  /\ UNCHANGED <<passCommitments, spentCalls, passesIssued, attestations>>

setToolActive(t, active, sk) ==
  /\ t \in DOMAIN tools
  /\ tools[t].publisherCommitment = publisherCommitment(sk)
  /\ tools' = Insert(tools, t,
                [publisherCommitment |-> tools[t].publisherCommitment,
                 priceAtomic |-> tools[t].priceAtomic,
                 quota |-> tools[t].quota, active |-> active])
  /\ UNCHANGED <<passCommitments, spentCalls, callsServed, passesIssued,
                 attestations>>

\* Nothing checks that the commitment is new: the same secret and nonce buy a
\* second leaf for the pass they already name.
issuePass(t, sk, nonce) ==
  /\ t \in DOMAIN tools
  /\ tools[t].active
  /\ passesIssued < TreeCapacity
  /\ passCommitments' = passCommitments \cup {passCommitment(t, sk, nonce)}
  /\ passesIssued' = passesIssued + 1
  /\ UNCHANGED <<tools, spentCalls, callsServed, attestations>>

redeemCall(t, sk, nonce, path, index) ==
  LET commitment == passCommitment(t, sk, nonce)
      nullifier  == callNullifier(commitment, index)
  IN  /\ t \in DOMAIN tools
      /\ tools[t].active
      /\ checkRoot(path)
      /\ sameLeaf(path, commitment)
      /\ withinQuota(t, index)
      /\ unspent(nullifier)
      /\ callsServed[t] < MaxUint
      /\ spentCalls' = spentCalls \cup {nullifier}
      /\ callsServed' = Insert(callsServed, t, callsServed[t] + 1)
      /\ UNCHANGED <<tools, passCommitments, passesIssued, attestations>>

attestUsage(t, sk, nonce, path, auditor, calls) ==
  LET commitment == passCommitment(t, sk, nonce)
      tag        == auditTag(auditor, commitment, calls)
  IN  /\ t \in DOMAIN tools
      /\ claimable(t, calls)
      /\ checkRoot(path)
      /\ sameLeaf(path, commitment)
      /\ tag \notin DOMAIN attestations
      /\ attestations' = Insert(attestations, tag, auditor)
      /\ UNCHANGED <<tools, passCommitments, spentCalls, callsServed,
                     passesIssued>>

Next ==
  \/ \E t \in Tools, price \in Prices, quota \in Quotas, sk \in Secrets :
       registerTool(t, price, quota, sk)
  \/ \E t \in Tools, active \in BOOLEAN, sk \in Secrets :
       setToolActive(t, active, sk)
  \/ \E t \in Tools, sk \in Secrets, nonce \in Nonces :
       issuePass(t, sk, nonce)
  \/ \E t \in Tools, sk \in Secrets, nonce \in Nonces, path \in Pass,
        index \in 0 .. MaxUint :
       redeemCall(t, sk, nonce, path, index)
  \/ \E t \in Tools, sk \in Secrets, nonce \in Nonces, path \in Pass,
        auditor \in Auditors, calls \in 0 .. MaxUint :
       attestUsage(t, sk, nonce, path, auditor, calls)

Spec == Init /\ [][Next]_vars

-----------------------------------------------------------------------------
(***************************************************************************)
(* Properties.                                                             *)
(***************************************************************************)
CallsOf(commitment) == {n \in spentCalls : n.pass = commitment}
CallsTo(t)          == {n \in spentCalls : n.pass.tool = t}
PassesFor(t)        == {c \in passCommitments : c.tool = t}

\* Every ledger field has its declared type; a tool and its reputation are
\* registered together.
TypeOK ==
  /\ DOMAIN tools \subseteq Tools
  /\ tools \in [DOMAIN tools -> ToolRecord]
  /\ passCommitments \subseteq Pass
  /\ spentCalls \subseteq Nullifier
  /\ callsServed \in [DOMAIN tools -> 0 .. MaxUint]
  /\ passesIssued \in 0 .. TreeCapacity
  /\ DOMAIN attestations \subseteq AuditTag
  /\ attestations \in [DOMAIN attestations -> Auditors]

\* Whatever witnesses callers choose, a call on the public record was made
\* against a pass that was issued, for a tool that is listed in the catalog,
\* at an index inside the quota that was paid for (redeemCall, (1)-(3)).
SpentCallsAreEntitled ==
  \A n \in spentCalls :
    /\ n.pass \in passCommitments
    /\ n.pass.tool \in DOMAIN tools
    /\ n.index < tools[n.pass.tool].quota

\* A pass is never spent beyond its quota: the number of calls on record for
\* a pass is bounded by what that pass paid for.
NoPassOverspent ==
  \A c \in passCommitments : Cardinality(CallsOf(c)) <= tools[c.tool].quota

\* "Public reputation, derived from calls that actually happened": the
\* counter of a tool is the number of its nullifiers, never more or less.
ReputationIsExact ==
  \A t \in DOMAIN tools : callsServed[t] = Cardinality(CallsTo(t))

\* "Faking it costs a real pass": reputation is bounded by the quota times
\* the passes sold for the tool, and every pass in circulation was a sale.
ReputationCostsPasses ==
  /\ \A t \in DOMAIN tools :
       callsServed[t] <= tools[t].quota * Cardinality(PassesFor(t))
  /\ Cardinality(passCommitments) <= passesIssued

\* What the ledger itself promises everybody: well-formed records, and no
\* reputation that was not bought, pass by pass (registerTool, issuePass and
\* redeemCall together).
ContractInv == TypeOK /\ ReputationCostsPasses

\* Attestations name an issued pass, claim no more than its quota and stay
\* filed under the auditor the tag was made for.
AttestationsAreBacked ==
  \A tag \in DOMAIN attestations :
    /\ tag.pass \in passCommitments
    /\ tag.calls <= tools[tag.pass.tool].quota
    /\ attestations[tag] = tag.auditor

\* What a buyer relied on cannot change afterwards: publisher, price and
\* quota of a listed tool are fixed, its reputation never falls, and no pass,
\* nullifier or attestation is ever taken back.
PermanentStep ==
  /\ \A t \in DOMAIN tools :
       /\ t \in DOMAIN tools'
       /\ tools'[t].publisherCommitment = tools[t].publisherCommitment
       /\ tools'[t].priceAtomic = tools[t].priceAtomic
       /\ tools'[t].quota = tools[t].quota
       /\ callsServed'[t] >= callsServed[t]
  /\ passCommitments \subseteq passCommitments'
  /\ spentCalls \subseteq spentCalls'
  /\ \A tag \in DOMAIN attestations :
       tag \in DOMAIN attestations' /\ attestations'[tag] = attestations[tag]

RecordsArePermanent == [][PermanentStep]_vars

\* The promise to buyers and publishers together: each pass is a budget of
\* quota calls, granted once and drawn down one call at a time.
Budget == INSTANCE PassBudget WITH
  Passes  <- Pass,
  MaxQuota <- MaxUint,
  granted <- [c \in passCommitments |-> tools[c.tool].quota],
  used    <- [c \in passCommitments |-> Cardinality(CallsOf(c))]

ImplementsPassBudget == Budget!Spec
=============================================================================
