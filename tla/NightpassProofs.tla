--------------------------- MODULE NightpassProofs ---------------------------
(***************************************************************************)
(* Theorems about the Nightpass contract and what anyone reads of it, for  *)
(* every set of tools, secrets, nonces and auditors and every bound.       *)
(***************************************************************************)
EXTENDS NightpassAudit, FiniteSetTheorems, TLAPS

(***************************************************************************)
(* The inductive invariant.  A pass exists only for a registered tool, so  *)
(* that its quota is defined and cannot change; a spent call belongs to an *)
(* issued pass; the two sets that are counted are finite.                  *)
(***************************************************************************)
PassesAreForTools == \A c \in passCommitments : c.tool \in DOMAIN tools

Counted ==
  /\ IsFiniteSet(spentCalls)
  /\ IsFiniteSet(passCommitments)
  /\ Cardinality(passCommitments) <= passesIssued

IInv ==
  /\ TypeOK
  /\ PassesAreForTools
  /\ Counted
  /\ SpentCallsAreEntitled
  /\ ReputationIsExact
  /\ AttestationsAreBacked

-----------------------------------------------------------------------------
\* The initial ledger is empty.
LEMMA InitIInv == Init => IInv
<1> SUFFICES ASSUME Init PROVE IInv
  OBVIOUS
<1>1. TypeOK
  BY BoundsAssumption DEF Init, TypeOK
<1>2. Counted
  BY FS_EmptySet DEF Init, Counted
<1>3. PassesAreForTools /\ SpentCallsAreEntitled /\ ReputationIsExact
      /\ AttestationsAreBacked
  BY DEF Init, PassesAreForTools, SpentCallsAreEntitled, ReputationIsExact,
         AttestationsAreBacked
<1> QED
  BY <1>1, <1>2, <1>3 DEF IInv

-----------------------------------------------------------------------------
\* Listing a tool keeps the invariant: its calls are none, because a call
\* belongs to a listed tool.
LEMMA RegisterToolStep ==
  ASSUME IInv, NEW t \in Tools, NEW price \in Prices, NEW quota \in Quotas,
         NEW sk \in Secrets, registerTool(t, price, quota, sk)
  PROVE  IInv'
<1> DEFINE r == [publisherCommitment |-> publisherCommitment(sk),
                 priceAtomic |-> price, quota |-> quota, active |-> TRUE]
<1>0. /\ t \notin DOMAIN tools
      /\ tools' = Insert(tools, t, r)
      /\ callsServed' = Insert(callsServed, t, 0)
      /\ UNCHANGED <<passCommitments, spentCalls, passesIssued, attestations>>
  BY DEF registerTool, unregistered
<1>1. r \in ToolRecord
  BY BoundsAssumption
  DEF registerTool, positive, ToolRecord, Publisher, publisherCommitment
<1>2. /\ DOMAIN tools' = DOMAIN tools \cup {t}
      /\ \A u \in DOMAIN tools : tools'[u] = tools[u]
      /\ \A u \in DOMAIN tools : callsServed'[u] = callsServed[u]
      /\ callsServed'[t] = 0
  BY <1>0 DEF IInv, TypeOK, Insert
<1>3. TypeOK'
  <2>1. tools' \in [DOMAIN tools' -> ToolRecord]
    BY <1>0, <1>1 DEF IInv, TypeOK, Insert
  <2>2. callsServed' \in [DOMAIN tools' -> 0 .. MaxUint]
    <3>1. callsServed \in [DOMAIN callsServed -> 0 .. MaxUint]
          /\ DOMAIN callsServed = DOMAIN tools
      BY DEF IInv, TypeOK
    <3>2. 0 \in 0 .. MaxUint
      BY BoundsAssumption
    <3> QED
      BY <1>0, <3>1, <3>2 DEF Insert
  <2> QED
    BY <1>0, <1>2, <2>1, <2>2 DEF IInv, TypeOK
<1>4. PassesAreForTools' /\ Counted'
  BY <1>0, <1>2 DEF IInv, PassesAreForTools, Counted
<1>5. SpentCallsAreEntitled'
  BY <1>0, <1>2 DEF IInv, SpentCallsAreEntitled
<1>6. ReputationIsExact'
  <2>1. CallsTo(t) = {}
    BY <1>0 DEF IInv, SpentCallsAreEntitled, CallsTo
  <2>2. \A u : CallsTo(u)' = CallsTo(u)
    BY <1>0 DEF CallsTo
  <2> QED
    BY <1>2, <2>1, <2>2, FS_EmptySet DEF IInv, ReputationIsExact
<1>7. AttestationsAreBacked'
  <2>1. \A tag \in DOMAIN attestations : tag.pass.tool \in DOMAIN tools
    BY DEF IInv, AttestationsAreBacked, PassesAreForTools
  <2> QED
    BY <1>0, <1>2, <2>1 DEF IInv, AttestationsAreBacked
<1> QED
  BY <1>3, <1>4, <1>5, <1>6, <1>7 DEF IInv

\* Toggling a listing changes nothing a pass or a call depends on.
LEMMA SetToolActiveStep ==
  ASSUME IInv, NEW t \in Tools, NEW active \in BOOLEAN, NEW sk \in Secrets,
         setToolActive(t, active, sk)
  PROVE  IInv'
<1> DEFINE r == [publisherCommitment |-> tools[t].publisherCommitment,
                 priceAtomic |-> tools[t].priceAtomic,
                 quota |-> tools[t].quota, active |-> active]
<1>0. /\ t \in DOMAIN tools
      /\ tools' = Insert(tools, t, r)
      /\ UNCHANGED <<passCommitments, spentCalls, callsServed, passesIssued,
                     attestations>>
  BY DEF setToolActive
<1>1. r \in ToolRecord
  BY <1>0 DEF IInv, TypeOK, ToolRecord
<1>2. /\ DOMAIN tools' = DOMAIN tools
      /\ \A u \in DOMAIN tools : tools'[u].quota = tools[u].quota
  BY <1>0 DEF Insert
<1>3. TypeOK'
  <2>1. tools' \in [DOMAIN tools' -> ToolRecord]
    BY <1>0, <1>1 DEF IInv, TypeOK, Insert
  <2> QED
    BY <1>0, <1>2, <2>1 DEF IInv, TypeOK
<1>4. PassesAreForTools' /\ Counted'
  BY <1>0, <1>2 DEF IInv, PassesAreForTools, Counted
<1>5. SpentCallsAreEntitled'
  BY <1>0, <1>2 DEF IInv, SpentCallsAreEntitled
<1>6. ReputationIsExact'
  BY <1>0, <1>2 DEF IInv, ReputationIsExact, CallsTo
<1>7. AttestationsAreBacked'
  <2>1. \A tag \in DOMAIN attestations : tag.pass.tool \in DOMAIN tools
    BY DEF IInv, AttestationsAreBacked, PassesAreForTools
  <2> QED
    BY <1>0, <1>2, <2>1 DEF IInv, AttestationsAreBacked
<1> QED
  BY <1>3, <1>4, <1>5, <1>6, <1>7 DEF IInv

\* Selling a pass adds at most one leaf and exactly one sale.
LEMMA IssuePassStep ==
  ASSUME IInv, NEW t \in Tools, NEW sk \in Secrets, NEW nonce \in Nonces,
         issuePass(t, sk, nonce)
  PROVE  IInv'
<1> DEFINE c == passCommitment(t, sk, nonce)
<1>0. /\ t \in DOMAIN tools
      /\ passesIssued < TreeCapacity
      /\ passCommitments' = passCommitments \cup {c}
      /\ passesIssued' = passesIssued + 1
      /\ UNCHANGED <<tools, spentCalls, callsServed, attestations>>
  BY DEF issuePass
<1>1. c \in Pass /\ c.tool = t
  BY DEF passCommitment, Pass
<1>2. TypeOK'
  BY <1>0, <1>1, BoundsAssumption DEF IInv, TypeOK
<1>3. PassesAreForTools'
  BY <1>0, <1>1 DEF IInv, PassesAreForTools
<1>4. Counted'
  <2>1. /\ IsFiniteSet(passCommitments \cup {c})
        /\ Cardinality(passCommitments \cup {c})
             <= Cardinality(passCommitments) + 1
    <3> HIDE DEF c
    <3>1. IsFiniteSet(passCommitments)
      BY DEF IInv, Counted
    <3>2. Cardinality(passCommitments) \in Nat
      BY <3>1, FS_CardinalityType
    <3>3. /\ IsFiniteSet(passCommitments \cup {c})
          /\ Cardinality(passCommitments \cup {c}) =
               IF c \in passCommitments THEN Cardinality(passCommitments)
               ELSE Cardinality(passCommitments) + 1
      BY <3>1, FS_AddElement
    <3> QED
      BY <3>2, <3>3
  <2>2. Cardinality(passCommitments) \in Nat /\ passesIssued \in Nat
    BY FS_CardinalityType, BoundsAssumption DEF IInv, Counted, TypeOK
  <2>3. Cardinality(passCommitments \cup {c}) \in Nat
    BY <2>1, FS_CardinalityType
  <2> QED
    BY <1>0, <2>1, <2>2, <2>3 DEF IInv, Counted
<1>5. SpentCallsAreEntitled'
  BY <1>0 DEF IInv, SpentCallsAreEntitled
<1>6. ReputationIsExact'
  BY <1>0 DEF IInv, ReputationIsExact, CallsTo
<1>7. AttestationsAreBacked'
  BY <1>0 DEF IInv, AttestationsAreBacked
<1> QED
  BY <1>2, <1>3, <1>4, <1>5, <1>6, <1>7 DEF IInv

\* A redeemed call is a new nullifier of an issued pass, and the counter of
\* its tool moves with it.
LEMMA RedeemCallStep ==
  ASSUME IInv, NEW t \in Tools, NEW sk \in Secrets, NEW nonce \in Nonces,
         NEW path \in Pass, NEW index \in 0 .. MaxUint,
         redeemCall(t, sk, nonce, path, index)
  PROVE  IInv'
<1> DEFINE c == passCommitment(t, sk, nonce)
           n == callNullifier(c, index)
<1>0. /\ t \in DOMAIN tools
      /\ c \in passCommitments
      /\ index < tools[t].quota
      /\ n \notin spentCalls
      /\ callsServed[t] < MaxUint
      /\ spentCalls' = spentCalls \cup {n}
      /\ callsServed' = Insert(callsServed, t, callsServed[t] + 1)
      /\ UNCHANGED <<tools, passCommitments, passesIssued, attestations>>
  BY DEF redeemCall, checkRoot, sameLeaf, withinQuota, unspent
<1>1. /\ n \in Nullifier
      /\ n.pass = c
      /\ n.index = index
      /\ c.tool = t
  BY DEF passCommitment, callNullifier, Nullifier, Pass
<1> HIDE DEF c, n
<1>2. DOMAIN callsServed = DOMAIN tools /\ callsServed[t] \in 0 .. MaxUint
  BY <1>0 DEF IInv, TypeOK
<1>3. /\ callsServed' \in [DOMAIN tools -> 0 .. MaxUint]
      /\ callsServed'[t] = callsServed[t] + 1
      /\ \A u \in DOMAIN tools : u # t => callsServed'[u] = callsServed[u]
  <2>1. callsServed[t] + 1 \in 0 .. MaxUint
    BY <1>0, <1>2, BoundsAssumption
  <2> QED
    BY <1>0, <1>2, <2>1 DEF IInv, TypeOK, Insert
<1>4. TypeOK'
  BY <1>0, <1>1, <1>3 DEF IInv, TypeOK
<1>5. PassesAreForTools'
  BY <1>0 DEF IInv, PassesAreForTools
<1>6. Counted'
  BY <1>0, FS_AddElement DEF IInv, Counted
<1>7. SpentCallsAreEntitled'
  BY <1>0, <1>1 DEF IInv, SpentCallsAreEntitled
<1>8. ReputationIsExact'
  <2>1. CallsTo(t)' = CallsTo(t) \cup {n} /\ n \notin CallsTo(t)
    BY <1>0, <1>1 DEF CallsTo
  <2>2. IsFiniteSet(CallsTo(t))
    BY FS_Subset DEF IInv, Counted, CallsTo
  <2>3. Cardinality(CallsTo(t) \cup {n}) = Cardinality(CallsTo(t)) + 1
    BY <2>1, <2>2, FS_AddElement
  <2>4. callsServed'[t] = Cardinality(CallsTo(t)')
    BY <1>0, <1>3, <2>1, <2>3 DEF IInv, ReputationIsExact
  <2>5. ASSUME NEW u \in DOMAIN tools, u # t
        PROVE  callsServed'[u] = Cardinality(CallsTo(u)')
    <3>1. CallsTo(u)' = CallsTo(u)
      BY <1>0, <1>1, <2>5 DEF CallsTo
    <3> QED
      BY <1>3, <2>5, <3>1 DEF IInv, ReputationIsExact
  <2> QED
    BY <1>0, <2>4, <2>5 DEF ReputationIsExact
<1>9. AttestationsAreBacked'
  BY <1>0 DEF IInv, AttestationsAreBacked
<1> QED
  BY <1>4, <1>5, <1>6, <1>7, <1>8, <1>9 DEF IInv

\* An attestation is filed under a new tag of an issued pass.
LEMMA AttestUsageStep ==
  ASSUME IInv, NEW t \in Tools, NEW sk \in Secrets, NEW nonce \in Nonces,
         NEW path \in Pass, NEW auditor \in Auditors,
         NEW calls \in 0 .. MaxUint,
         attestUsage(t, sk, nonce, path, auditor, calls)
  PROVE  IInv'
<1> DEFINE c   == passCommitment(t, sk, nonce)
           tag == auditTag(auditor, c, calls)
<1>0. /\ t \in DOMAIN tools
      /\ calls <= tools[t].quota
      /\ c \in passCommitments
      /\ attestations' = Insert(attestations, tag, auditor)
      /\ UNCHANGED <<tools, passCommitments, spentCalls, callsServed,
                     passesIssued>>
  BY DEF attestUsage, checkRoot, sameLeaf, claimable
<1>1. /\ tag \in AuditTag
      /\ tag.pass = c
      /\ tag.calls = calls
      /\ tag.auditor = auditor
      /\ c.tool = t
  BY DEF passCommitment, auditTag, AuditTag, Pass
<1> HIDE DEF c, tag
<1>2. /\ DOMAIN attestations' = DOMAIN attestations \cup {tag}
      /\ attestations'[tag] = auditor
      /\ \A x \in DOMAIN attestations :
           x # tag => attestations'[x] = attestations[x]
      /\ attestations' \in [DOMAIN attestations' -> Auditors]
  BY <1>0 DEF IInv, TypeOK, Insert
<1>3. TypeOK'
  BY <1>0, <1>1, <1>2 DEF IInv, TypeOK
<1>4. PassesAreForTools' /\ Counted'
  BY <1>0 DEF IInv, PassesAreForTools, Counted
<1>5. SpentCallsAreEntitled'
  BY <1>0 DEF IInv, SpentCallsAreEntitled
<1>6. ReputationIsExact'
  BY <1>0 DEF IInv, ReputationIsExact, CallsTo
<1>7. AttestationsAreBacked'
  BY <1>0, <1>1, <1>2 DEF IInv, AttestationsAreBacked
<1> QED
  BY <1>3, <1>4, <1>5, <1>6, <1>7 DEF IInv

-----------------------------------------------------------------------------
\* Every transaction, and every step that is none, keeps the invariant.
LEMMA NextIInv == IInv /\ [Next]_vars => IInv'
<1> SUFFICES ASSUME IInv, [Next]_vars PROVE IInv'
  OBVIOUS
<1>1. CASE \E t \in Tools, price \in Prices, quota \in Quotas, sk \in Secrets :
             registerTool(t, price, quota, sk)
  BY <1>1, RegisterToolStep
<1>2. CASE \E t \in Tools, active \in BOOLEAN, sk \in Secrets :
             setToolActive(t, active, sk)
  BY <1>2, SetToolActiveStep
<1>3. CASE \E t \in Tools, sk \in Secrets, nonce \in Nonces :
             issuePass(t, sk, nonce)
  BY <1>3, IssuePassStep
<1>4. CASE \E t \in Tools, sk \in Secrets, nonce \in Nonces, path \in Pass,
              index \in 0 .. MaxUint :
             redeemCall(t, sk, nonce, path, index)
  BY <1>4, RedeemCallStep
<1>5. CASE \E t \in Tools, sk \in Secrets, nonce \in Nonces, path \in Pass,
              auditor \in Auditors, calls \in 0 .. MaxUint :
             attestUsage(t, sk, nonce, path, auditor, calls)
  BY <1>5, AttestUsageStep
<1>6. CASE UNCHANGED vars
  BY <1>6 DEF vars, IInv, TypeOK, PassesAreForTools, Counted,
             SpentCallsAreEntitled, ReputationIsExact, CallsTo,
             AttestationsAreBacked
<1> QED
  BY <1>1, <1>2, <1>3, <1>4, <1>5, <1>6 DEF Next

\* The strengthening holds in every reachable state of the contract.
THEOREM ContractInvariant == Spec => []IInv
  BY InitIInv, NextIInv, PTL DEF Spec

\* The ledger fields keep their declared types.
THEOREM TypeCorrect == Spec => []TypeOK
<1>1. IInv => TypeOK
  BY DEF IInv
<1> QED
  BY <1>1, ContractInvariant, PTL

\* Whoever calls and whatever witnesses they choose, every call on record was
\* made with an issued pass, inside its quota.
THEOREM CallsAreEntitled == Spec => []SpentCallsAreEntitled
<1>1. IInv => SpentCallsAreEntitled
  BY DEF IInv
<1> QED
  BY <1>1, ContractInvariant, PTL

\* A tool's public reputation is exactly the number of calls it served.
THEOREM ReputationExact == Spec => []ReputationIsExact
<1>1. IInv => ReputationIsExact
  BY DEF IInv
<1> QED
  BY <1>1, ContractInvariant, PTL

\* Attestations are for issued passes and claim no more than was paid for.
THEOREM AttestationsBacked == Spec => []AttestationsAreBacked
<1>1. IInv => AttestationsAreBacked
  BY DEF IInv
<1> QED
  BY <1>1, ContractInvariant, PTL

-----------------------------------------------------------------------------
\* A quota of q offers the q indexes 0 .. q - 1.
LEMMA IndexesOfQuota ==
  ASSUME NEW q \in Nat
  PROVE  IsFiniteSet(0 .. q - 1) /\ Cardinality(0 .. q - 1) = q
<1>1. /\ IsFiniteSet(0 .. q - 1)
      /\ Cardinality(0 .. q - 1) = IF 0 > q - 1 THEN 0 ELSE (q - 1) - 0 + 1
  BY FS_Interval
<1> QED
  BY <1>1

\* Two calls of one pass differ in their index: calls of one pass with
\* indexes below q are at most q.
LEMMA IndexBound ==
  ASSUME NEW S \in SUBSET Nullifier, NEW c, NEW q \in Nat,
         \A n \in S : n.pass = c /\ n.index < q
  PROVE  Cardinality(S) <= q
<1> DEFINE f == [n \in S |-> n.index]
<1>1. f \in Injection(S, 0 .. q - 1)
  <2>1. \A n \in S : n.index \in 0 .. q - 1
    BY BoundsAssumption DEF Nullifier
  <2>2. \A m, n \in S : m.index = n.index => m = n
    BY DEF Nullifier
  <2> QED
    BY <2>1, <2>2 DEF Injection, IsInjective
<1> HIDE DEF f
<1>2. Cardinality(S) <= Cardinality(0 .. q - 1)
  BY <1>1, IndexesOfQuota, FS_Injection
<1> QED
  BY <1>2, IndexesOfQuota

\* A pass has no more calls on record than its quota.
LEMMA PassBound ==
  ASSUME IInv, NEW c \in passCommitments
  PROVE  Cardinality(CallsOf(c)) <= tools[c.tool].quota
<1>1. tools[c.tool].quota \in Nat
  BY BoundsAssumption DEF IInv, PassesAreForTools, TypeOK, ToolRecord
<1>2. CallsOf(c) \in SUBSET Nullifier
  BY DEF IInv, TypeOK, CallsOf
<1>3. \A n \in CallsOf(c) : n.pass = c /\ n.index < tools[c.tool].quota
  BY DEF IInv, SpentCallsAreEntitled, CallsOf
<1> QED
  BY <1>1, <1>2, <1>3, IndexBound

\* No pass is ever spent beyond the quota it was sold with.
THEOREM NeverOverspent == Spec => []NoPassOverspent
<1>1. IInv => NoPassOverspent
  BY PassBound DEF NoPassOverspent
<1> QED
  BY <1>1, ContractInvariant, PTL

\* Reputation costs passes: a tool cannot have served more calls than quota
\* times the passes sold for it.
LEMMA ReputationBound ==
  ASSUME IInv, NEW t \in DOMAIN tools
  PROVE  callsServed[t] <= tools[t].quota * Cardinality(PassesFor(t))
<1> DEFINE q == tools[t].quota
           f == [n \in CallsTo(t) |-> <<n.pass, n.index>>]
<1>1. q \in 1 .. MaxUint
  BY DEF IInv, TypeOK, ToolRecord
<1>2. f \in Injection(CallsTo(t), PassesFor(t) \X (0 .. q - 1))
  <2>1. \A n \in CallsTo(t) :
          n.pass \in PassesFor(t) /\ n.index \in 0 .. q - 1 /\ n \in Nullifier
    BY <1>1, BoundsAssumption
    DEF IInv, SpentCallsAreEntitled, CallsTo, PassesFor, TypeOK, Nullifier
  <2>2. \A m, n \in CallsTo(t) :
          <<m.pass, m.index>> = <<n.pass, n.index>> => m = n
    BY <2>1 DEF Nullifier
  <2> QED
    BY <2>1, <2>2 DEF Injection, IsInjective
<1>3. IsFiniteSet(0 .. q - 1) /\ Cardinality(0 .. q - 1) = q
  BY <1>1, BoundsAssumption, IndexesOfQuota
<1>4. IsFiniteSet(PassesFor(t)) /\ Cardinality(PassesFor(t)) \in Nat
  <2>1. IsFiniteSet(passCommitments) /\ PassesFor(t) \in SUBSET passCommitments
    BY DEF IInv, Counted, PassesFor
  <2> QED
    BY <2>1, FS_Subset, FS_CardinalityType
<1>5. callsServed[t] = Cardinality(CallsTo(t))
  BY DEF IInv, ReputationIsExact
<1> HIDE DEF f, q
<1>6. /\ IsFiniteSet(PassesFor(t) \X (0 .. q - 1))
      /\ Cardinality(PassesFor(t) \X (0 .. q - 1)) = Cardinality(PassesFor(t)) * q
  BY <1>3, <1>4, FS_Product
<1>7. Cardinality(CallsTo(t)) <= Cardinality(PassesFor(t)) * q
  BY <1>2, <1>6, FS_Injection
<1>8. q \in Nat
  BY <1>1, BoundsAssumption
<1>9. Cardinality(PassesFor(t)) * q = q * Cardinality(PassesFor(t))
  BY <1>4, <1>8
<1> QED
  BY <1>5, <1>7, <1>9 DEF q

\* Faking reputation costs real passes, for every tool and every history.
THEOREM ReputationCosts == Spec => []ReputationCostsPasses
<1>1. IInv => ReputationCostsPasses
  BY ReputationBound DEF IInv, Counted, ReputationCostsPasses
<1> QED
  BY <1>1, ContractInvariant, PTL

\* What the ledger promises everybody, for any tools, agents, prices, quotas
\* and widths of the counters: types and reputation that was paid for.
THEOREM ContractHolds == Spec => []ContractInv
  BY TypeCorrect, ReputationCosts, PTL DEF ContractInv

-----------------------------------------------------------------------------
\* No transaction rewrites what an earlier one put on record.
LEMMA PermanentNext == IInv /\ [Next]_vars => [PermanentStep]_vars
<1> SUFFICES ASSUME IInv, Next PROVE PermanentStep
  OBVIOUS
<1>0. \A t \in DOMAIN tools :
        /\ t \in DOMAIN callsServed
        /\ callsServed[t] \in Int /\ callsServed[t] >= callsServed[t]
  BY BoundsAssumption DEF IInv, TypeOK
<1>1. ASSUME NEW t \in Tools, NEW price \in Prices, NEW quota \in Quotas,
             NEW sk \in Secrets, registerTool(t, price, quota, sk)
      PROVE  PermanentStep
  BY <1>0, <1>1 DEF registerTool, unregistered, PermanentStep, Insert, IInv, TypeOK
<1>2. ASSUME NEW t \in Tools, NEW active \in BOOLEAN, NEW sk \in Secrets,
             setToolActive(t, active, sk)
      PROVE  PermanentStep
  BY <1>0, <1>2 DEF setToolActive, PermanentStep, Insert
<1>3. ASSUME NEW t \in Tools, NEW sk \in Secrets, NEW nonce \in Nonces,
             issuePass(t, sk, nonce)
      PROVE  PermanentStep
  BY <1>0, <1>3 DEF issuePass, PermanentStep
<1>4. ASSUME NEW t \in Tools, NEW sk \in Secrets, NEW nonce \in Nonces,
             NEW path \in Pass, NEW index \in 0 .. MaxUint,
             redeemCall(t, sk, nonce, path, index)
      PROVE  PermanentStep
  <2>1. /\ callsServed' = Insert(callsServed, t, callsServed[t] + 1)
        /\ spentCalls \subseteq spentCalls'
        /\ UNCHANGED <<tools, passCommitments, passesIssued, attestations>>
    BY <1>4 DEF redeemCall
  <2>2. \A u \in DOMAIN tools : callsServed'[u] >= callsServed[u]
    BY <1>0, <2>1 DEF Insert
  <2> QED
    BY <2>1, <2>2 DEF PermanentStep
<1>5. ASSUME NEW t \in Tools, NEW sk \in Secrets, NEW nonce \in Nonces,
             NEW path \in Pass, NEW auditor \in Auditors,
             NEW calls \in 0 .. MaxUint,
             attestUsage(t, sk, nonce, path, auditor, calls)
      PROVE  PermanentStep
  BY <1>0, <1>5 DEF attestUsage, PermanentStep, Insert
<1> QED
  BY <1>1, <1>2, <1>3, <1>4, <1>5 DEF Next

\* Publisher, price and quota of a tool are fixed once listed, and nothing on
\* the public record is ever taken back.
THEOREM Permanent == Spec => RecordsArePermanent
  BY ContractInvariant, PermanentNext, PTL DEF Spec, RecordsArePermanent

-----------------------------------------------------------------------------
(***************************************************************************)
(* The refinement.  Granted and Used are what the abstract variables map   *)
(* to in Nightpass's instance of PassBudget.                               *)
(***************************************************************************)
Granted == [c \in passCommitments |-> tools[c.tool].quota]
Used    == [c \in passCommitments |-> Cardinality(CallsOf(c))]

\* A step that leaves the passes, their quotas and the calls alone is a
\* stutter of the budget.
LEMMA BudgetStutter ==
  ASSUME IInv,
         UNCHANGED <<passCommitments, spentCalls>>,
         \A t \in DOMAIN tools : tools'[t].quota = tools[t].quota
  PROVE  UNCHANGED <<Granted, Used>>
<1>1. \A c \in passCommitments : tools'[c.tool].quota = tools[c.tool].quota
  BY DEF IInv, PassesAreForTools
<1>2. \A c : CallsOf(c)' = CallsOf(c)
  BY DEF CallsOf
<1> QED
  BY <1>1, <1>2 DEF Granted, Used

\* Selling a new pass grants its quota with no call made; selling the same
\* pass again grants nothing.
LEMMA BudgetGrant ==
  ASSUME IInv, NEW t \in Tools, NEW sk \in Secrets, NEW nonce \in Nonces,
         issuePass(t, sk, nonce)
  PROVE  [Budget!Next]_<<Granted, Used>>
<1> DEFINE c == passCommitment(t, sk, nonce)
<1>0. /\ t \in DOMAIN tools
      /\ passCommitments' = passCommitments \cup {c}
      /\ UNCHANGED <<tools, spentCalls>>
  BY DEF issuePass
<1>1. c \in Pass /\ c.tool = t
  BY DEF passCommitment, Pass
<1>2. PICK q \in 1 .. MaxUint : q = tools[t].quota
  BY <1>0 DEF IInv, TypeOK, ToolRecord
<1> HIDE DEF c
<1>3. CASE c \in passCommitments
  <2>1. UNCHANGED <<Granted, Used>>
    BY <1>0, <1>3, BudgetStutter
  <2> QED
    BY <2>1
<1>4. CASE c \notin passCommitments
  <2>1. CallsOf(c)' = {} /\ \A d : CallsOf(d)' = CallsOf(d)
    BY <1>0, <1>4 DEF IInv, SpentCallsAreEntitled, CallsOf
  <2>2. Granted' = [d \in passCommitments \cup {c} |->
                      IF d = c THEN q ELSE Granted[d]]
    BY <1>0, <1>1, <1>2 DEF Granted
  <2>3. Used' = [d \in passCommitments \cup {c} |->
                   IF d = c THEN 0 ELSE Used[d]]
    BY <1>0, <2>1, FS_EmptySet DEF Used
  <2>4. Budget!Grant(c, q)
    BY <1>4, <2>2, <2>3 DEF Budget!Grant, Granted, Used
  <2> QED
    BY <1>1, <2>4 DEF Budget!Next
<1> QED
  BY <1>3, <1>4

\* Redeeming a call uses the pass once, and only while calls are left.
LEMMA BudgetUse ==
  ASSUME IInv, IInv', NEW t \in Tools, NEW sk \in Secrets, NEW nonce \in Nonces,
         NEW path \in Pass, NEW index \in 0 .. MaxUint,
         redeemCall(t, sk, nonce, path, index)
  PROVE  [Budget!Next]_<<Granted, Used>>
<1> DEFINE c == passCommitment(t, sk, nonce)
           n == callNullifier(c, index)
<1>0. /\ t \in DOMAIN tools
      /\ c \in passCommitments
      /\ n \notin spentCalls
      /\ spentCalls' = spentCalls \cup {n}
      /\ UNCHANGED <<tools, passCommitments>>
  BY DEF redeemCall, checkRoot, sameLeaf, unspent
<1>1. n.pass = c
  BY DEF callNullifier
<1>2. c \in Pass
  BY <1>0 DEF IInv, TypeOK
<1> HIDE DEF c, n
<1>3. /\ CallsOf(c)' = CallsOf(c) \cup {n}
      /\ n \notin CallsOf(c)
      /\ \A d : d # c => CallsOf(d)' = CallsOf(d)
  BY <1>0, <1>1 DEF CallsOf
<1>4. IsFiniteSet(CallsOf(c)) /\ Cardinality(CallsOf(c)) \in Nat
  BY FS_Subset, FS_CardinalityType DEF IInv, Counted, CallsOf
<1>5. Cardinality(CallsOf(c)') = Cardinality(CallsOf(c)) + 1
  BY <1>3, <1>4, FS_AddElement
<1>6. Used' = [Used EXCEPT ![c] = @ + 1]
  BY <1>0, <1>3, <1>5 DEF Used
<1>7. Granted' = Granted
  BY <1>0 DEF Granted
<1>8. Used[c] < Granted[c]
  <2>1. Cardinality(CallsOf(c)') <= tools[c.tool].quota
    <3>1. CallsOf(c)' \in SUBSET Nullifier
      BY DEF IInv, TypeOK, CallsOf
    <3>2. \A m \in CallsOf(c)' : m.pass = c /\ m.index < tools[c.tool].quota
      BY <1>0 DEF IInv, SpentCallsAreEntitled, CallsOf
    <3>3. tools[c.tool].quota \in Nat
      BY <1>0, BoundsAssumption DEF IInv, PassesAreForTools, TypeOK, ToolRecord
    <3> QED
      BY <3>1, <3>2, <3>3, IndexBound
  <2>2. tools[c.tool].quota \in Nat
    BY <1>0, BoundsAssumption DEF IInv, PassesAreForTools, TypeOK, ToolRecord
  <2> QED
    BY <1>0, <1>4, <1>5, <2>1, <2>2 DEF Used, Granted
<1>9. Budget!Use(c)
  BY <1>0, <1>6, <1>7, <1>8 DEF Budget!Use, Granted, Used
<1> QED
  BY <1>2, <1>9 DEF Budget!Next

\* Every transaction of the contract is a step of the budget or a stutter.
LEMMA BudgetStep ==
  IInv /\ IInv' /\ [Next]_vars => [Budget!Next]_<<Granted, Used>>
<1> SUFFICES ASSUME IInv, IInv', [Next]_vars
             PROVE  [Budget!Next]_<<Granted, Used>>
  OBVIOUS
<1>1. ASSUME NEW t \in Tools, NEW price \in Prices, NEW quota \in Quotas,
             NEW sk \in Secrets, registerTool(t, price, quota, sk)
      PROVE  [Budget!Next]_<<Granted, Used>>
  <2>1. UNCHANGED <<passCommitments, spentCalls>>
        /\ \A u \in DOMAIN tools : tools'[u].quota = tools[u].quota
    BY <1>1 DEF registerTool, unregistered, Insert
  <2> QED
    BY <2>1, BudgetStutter
<1>2. ASSUME NEW t \in Tools, NEW active \in BOOLEAN, NEW sk \in Secrets,
             setToolActive(t, active, sk)
      PROVE  [Budget!Next]_<<Granted, Used>>
  <2>1. UNCHANGED <<passCommitments, spentCalls>>
        /\ \A u \in DOMAIN tools : tools'[u].quota = tools[u].quota
    BY <1>2 DEF setToolActive, Insert
  <2> QED
    BY <2>1, BudgetStutter
<1>3. ASSUME NEW t \in Tools, NEW sk \in Secrets, NEW nonce \in Nonces,
             NEW path \in Pass, NEW auditor \in Auditors,
             NEW calls \in 0 .. MaxUint,
             attestUsage(t, sk, nonce, path, auditor, calls)
      PROVE  [Budget!Next]_<<Granted, Used>>
  <2>1. UNCHANGED <<passCommitments, spentCalls, tools>>
    BY <1>3 DEF attestUsage
  <2> QED
    BY <2>1, BudgetStutter
<1>4. ASSUME UNCHANGED vars
      PROVE  [Budget!Next]_<<Granted, Used>>
  BY <1>4, BudgetStutter DEF vars
<1> QED
  BY <1>1, <1>2, <1>3, <1>4, BudgetGrant, BudgetUse DEF Next

\* The contract implements the budget: each pass is granted once and drawn
\* down one call at a time.
THEOREM ImplementsBudget == Spec => ImplementsPassBudget
<1>1. Init => Budget!Init
  BY DEF Init, Budget!Init
<1>2. IInv /\ IInv' /\ [Next]_vars
        => [Budget!Next]_<<[c \in passCommitments |-> tools[c.tool].quota],
                           [c \in passCommitments |-> Cardinality(CallsOf(c))]>>
  BY BudgetStep DEF Granted, Used
<1> QED
  BY <1>1, <1>2, ContractInvariant, PTL
  DEF Spec, ImplementsPassBudget, Budget!Spec

-----------------------------------------------------------------------------
(***************************************************************************)
(* Sums.  SumFunctionOnSet folds a function over a finite set, one chosen  *)
(* element after the other; the subsets of a finite set are well-founded   *)
(* by inclusion, so that a smallest counterexample can be chosen, and what *)
(* a sum is does not depend on the order.                                  *)
(***************************************************************************)
\* The element that a sum takes next.
takenNext(s) == CHOOSE x \in s : TRUE

\* The sums of F over the subsets of S, as the fold computes them.
SumsOf(g, F, S) ==
  /\ g \in [SUBSET S -> Nat]
  /\ \A u \in SUBSET S : g[u] = IF u = {} THEN 0 ELSE F[takenNext(u)] + g[u \ {takenNext(u)}]

\* Among subsets of a finite set there is a smallest.
LEMMA SmallestSubset ==
  ASSUME NEW S, IsFiniteSet(S), NEW T, T \subseteq SUBSET S, T # {}
  PROVE  \E m \in T : \A u \in T : u \subseteq m => u = m
<1>1. IsWellFoundedOn(StrictSubsetOrdering(S), SUBSET S)
  BY FS_StrictSubsetOrderingWellFounded, FS_FiniteSubsetsOfFinite
<1>2. PICK m \in T : \A u \in T : ~ (<<u, m>> \in StrictSubsetOrdering(S))
  BY <1>1, WFMin
<1>3. ASSUME NEW u \in T, u \subseteq m PROVE u = m
  <2>1. u # m => <<u, m>> \in StrictSubsetOrdering(S)
    BY <1>3 DEF StrictSubsetOrdering
  <2>. QED BY <2>1, <1>2
<1>. QED BY <1>3

LEMMA NextIsTaken == ASSUME NEW s, s # {} PROVE takenNext(s) \in s
BY DEF takenNext

\* There is one sum for a set.
LEMMA SumsAgree ==
  ASSUME NEW S, IsFiniteSet(S), NEW F, NEW s \in SUBSET S, NEW t \in SUBSET S,
         NEW g, SumsOf(g, F, s), NEW h, SumsOf(h, F, t)
  PROVE  \A u \in SUBSET (s \cap t) : g[u] = h[u]
<1>. DEFINE Bad == {u \in SUBSET (s \cap t) : g[u] # h[u]}
<1>1. SUFFICES ASSUME Bad # {} PROVE FALSE
  OBVIOUS
<1>2. PICK m \in Bad : \A u \in Bad : u \subseteq m => u = m
  <2>1. Bad \subseteq SUBSET S
    OBVIOUS
  <2>. HIDE DEF Bad
  <2>. QED BY <1>1, <2>1, SmallestSubset
<1>3. m # {}
  BY DEF SumsOf
<1>4. m \ {takenNext(m)} \in SUBSET (s \cap t) /\ m \ {takenNext(m)} # m
  BY <1>3, NextIsTaken
<1>5. g[m \ {takenNext(m)}] = h[m \ {takenNext(m)}]
  BY <1>2, <1>4
<1>6. m \in SUBSET s /\ m \in SUBSET t
  OBVIOUS
<1>7. g[m] = F[takenNext(m)] + g[m \ {takenNext(m)}] /\ h[m] = F[takenNext(m)] + h[m \ {takenNext(m)}]
  BY <1>3, <1>6 DEF SumsOf
<1>. QED BY <1>5, <1>7

\* And there is one.
LEMMA SumsExist ==
  ASSUME NEW S, IsFiniteSet(S), NEW F, \A x \in S : F[x] \in Nat
  PROVE  \E g : SumsOf(g, F, S)
<1>. DEFINE Bad == {s \in SUBSET S : ~ \E g : SumsOf(g, F, s)}
<1>1. SUFFICES ASSUME Bad # {} PROVE FALSE
  OBVIOUS
<1>2. PICK s \in Bad : \A u \in Bad : u \subseteq s => u = s
  <2>1. Bad \subseteq SUBSET S
    OBVIOUS
  <2>. HIDE DEF Bad
  <2>. QED BY <1>1, <2>1, SmallestSubset
<1>. DEFINE G(u) == CHOOSE g : SumsOf(g, F, u)
            val(u) == G(u)[u]
            rest(u) == u \ {takenNext(u)}
            sum(u) == IF u = {} THEN 0 ELSE F[takenNext(u)] + val(rest(u))
            f == [u \in SUBSET s |-> sum(u)]
<1>3. ASSUME NEW u \in SUBSET s, u # s PROVE SumsOf(G(u), F, u)
  BY <1>2, <1>3
<1>4. ASSUME NEW u \in SUBSET s, u # {}
      PROVE  rest(u) \in SUBSET s /\ rest(u) # s /\ rest(u) \in SUBSET u /\ takenNext(u) \in S
  BY <1>4, NextIsTaken
<1>5. ASSUME NEW u \in SUBSET s, u # s PROVE val(u) \in Nat /\ val(u) = sum(u)
  <2>1. SumsOf(G(u), F, u)
    BY <1>3, <1>5
  <2>2. CASE u = {}
    BY <2>1, <2>2 DEF SumsOf
  <2>3. CASE u # {}
    <3>1. SumsOf(G(rest(u)), F, rest(u)) /\ rest(u) \in SUBSET u
      BY <1>3, <1>4, <2>3
    <3>2. u \in SUBSET S /\ rest(u) \in SUBSET S /\ rest(u) \in SUBSET (u \cap rest(u))
      BY <3>1
    <3>. HIDE DEF G, rest
    <3>3. G(u)[rest(u)] = G(rest(u))[rest(u)]
      BY <2>1, <3>1, <3>2, SumsAgree
    <3>4. G(u)[u] = F[takenNext(u)] + G(u)[u \ {takenNext(u)}] /\ G(u)[u] \in Nat
      BY <2>1, <2>3 DEF SumsOf
    <3>. QED BY <2>3, <3>3, <3>4 DEF rest
  <2>. QED BY <2>2, <2>3
<1>6. f \in [SUBSET s -> Nat]
  <2>1. ASSUME NEW u \in SUBSET s, u # {} PROVE F[takenNext(u)] + val(rest(u)) \in Nat
    <3>1. val(rest(u)) \in Nat /\ F[takenNext(u)] \in Nat
      BY <1>4, <1>5, <2>1
    <3>. QED BY <3>1
  <2>2. \A u \in SUBSET s : sum(u) \in Nat
    BY <2>1
  <2>. HIDE DEF sum
  <2>. QED BY <2>2
<1>7. ASSUME NEW u \in SUBSET s
      PROVE  f[u] = IF u = {} THEN 0 ELSE F[takenNext(u)] + f[u \ {takenNext(u)}]
  <2>1. CASE u = {}
    BY <2>1
  <2>2. CASE u # {}
    <3>1. val(rest(u)) = sum(rest(u)) /\ rest(u) \in SUBSET s
      BY <1>4, <1>5, <2>2
    <3>2. f[rest(u)] = val(rest(u)) /\ f[u] = F[takenNext(u)] + val(rest(u))
      <4>. HIDE DEF val, rest
      <4>. QED BY <2>2, <3>1
    <3>. QED BY <2>2, <3>2
  <2>. QED BY <2>1, <2>2
<1>8. SumsOf(f, F, s)
  <2>. HIDE DEF f
  <2>. QED BY <1>6, <1>7 DEF SumsOf
<1>. QED BY <1>2, <1>8

\* The library's sum is that one.
LEMMA SumIsSum ==
  ASSUME NEW S, IsFiniteSet(S), NEW F, \A x \in S : F[x] \in Nat
  PROVE  \E g : SumsOf(g, F, S) /\ SumFunctionOnSet(F, S) = g[S]
<1>. DEFINE body(g) == [u \in SUBSET S |-> IF u = {} THEN 0
                          ELSE F[CHOOSE x \in u : TRUE] + g[u \ {CHOOSE x \in u : TRUE}]]
            it == CHOOSE g : g = body(g)
<1>1. SumFunctionOnSet(F, S) = it[S]
  BY Zenon DEF SumFunctionOnSet, FoldFunctionOnSet, MapThenFoldSet
<1>2. PICK g : SumsOf(g, F, S)
  BY SumsExist
<1>3. g = body(g)
  BY <1>2 DEF SumsOf, takenNext
<1>4. it = body(it)
  BY <1>3
<1>. DEFINE sum(u) == IF u = {} THEN 0 ELSE F[takenNext(u)] + it[u \ {takenNext(u)}]
<1>. HIDE DEF it
<1>5. \A u \in SUBSET S : it[u] = sum(u)
  BY <1>4 DEF takenNext
<1>6. \A u \in SUBSET S : it[u] = g[u]
  <2>. DEFINE Bad == {u \in SUBSET S : it[u] # g[u]}
  <2>1. SUFFICES ASSUME Bad # {} PROVE FALSE
    OBVIOUS
  <2>2. PICK m \in Bad : \A u \in Bad : u \subseteq m => u = m
    <3>1. Bad \subseteq SUBSET S
      OBVIOUS
    <3>. HIDE DEF Bad
    <3>. QED BY <2>1, <3>1, SmallestSubset
  <2>3. m # {}
    BY <1>2, <1>5 DEF SumsOf
  <2>4. it[m \ {takenNext(m)}] = g[m \ {takenNext(m)}]
    BY <2>2, <2>3, NextIsTaken
  <2>. QED BY <2>2, <2>3, <2>4, <1>2, <1>5 DEF SumsOf
<1>. QED BY <1>1, <1>2, <1>6

\* A sum of natural numbers is one; nothing adds up to nothing; and each
\* element can be taken first.
LEMMA SumProperties ==
  ASSUME NEW S, IsFiniteSet(S), NEW F, \A x \in S : F[x] \in Nat
  PROVE  /\ SumFunctionOnSet(F, S) \in Nat
         /\ SumFunctionOnSet(F, {}) = 0
         /\ \A x \in S : SumFunctionOnSet(F, S) = F[x] + SumFunctionOnSet(F, S \ {x})
<1>. DEFINE sum(s) == SumFunctionOnSet(F, s)
<1>1. \A s \in SUBSET S : IsFiniteSet(s) /\ \A x \in s : F[x] \in Nat
  BY FS_Subset
<1>2. \A s \in SUBSET S : \E g : SumsOf(g, F, s) /\ sum(s) = g[s]
  BY <1>1, SumIsSum
<1>. HIDE DEF sum
<1>3. ASSUME NEW s \in SUBSET S PROVE sum(s) \in Nat
  <2>1. PICK g : SumsOf(g, F, s) /\ sum(s) = g[s]
    BY <1>2
  <2>. QED BY <2>1 DEF SumsOf
<1>4. sum({}) = 0
  BY <1>2 DEF SumsOf
<1>5. ASSUME NEW s \in SUBSET S, s # {}
      PROVE  sum(s) = F[takenNext(s)] + sum(s \ {takenNext(s)})
  <2>1. PICK g : SumsOf(g, F, s) /\ sum(s) = g[s]
    BY <1>2
  <2>2. PICK h : SumsOf(h, F, s \ {takenNext(s)}) /\ sum(s \ {takenNext(s)}) = h[s \ {takenNext(s)}]
    BY <1>2
  <2>3. g[s \ {takenNext(s)}] = h[s \ {takenNext(s)}]
    BY <2>1, <2>2, SumsAgree
  <2>. QED BY <1>5, <2>1, <2>2, <2>3 DEF SumsOf
<1>. DEFINE Bad == {s \in SUBSET S : \E x \in s : sum(s) # F[x] + sum(s \ {x})}
<1>6. Bad = {}
  <2>1. SUFFICES ASSUME Bad # {} PROVE FALSE
    OBVIOUS
  <2>2. PICK m \in Bad : \A u \in Bad : u \subseteq m => u = m
    <3>1. Bad \subseteq SUBSET S
      OBVIOUS
    <3>. HIDE DEF Bad
    <3>. QED BY <2>1, <3>1, SmallestSubset
  <2>3. PICK x \in m : sum(m) # F[x] + sum(m \ {x})
    BY <2>2
  <2>. DEFINE c == takenNext(m)
  <2>4. c \in m /\ sum(m) = F[c] + sum(m \ {c})
    BY <2>2, <2>3, <1>5, NextIsTaken
  <2>. HIDE DEF c
  <2>5. c # x
    BY <2>3, <2>4
  <2>6. sum(m \ {c}) = F[x] + sum((m \ {c}) \ {x})
    BY <2>2, <2>3, <2>4, <2>5
  <2>7. sum(m \ {x}) = F[c] + sum((m \ {x}) \ {c})
    BY <2>2, <2>3, <2>4, <2>5
  <2>8. (m \ {c}) \ {x} = (m \ {x}) \ {c}
    OBVIOUS
  <2>9. F[c] \in Nat /\ F[x] \in Nat /\ sum((m \ {c}) \ {x}) \in Nat
    BY <2>2, <2>3, <2>4, <1>3
  <2>. QED BY <2>3, <2>4, <2>6, <2>7, <2>8, <2>9
<1>. QED BY <1>3, <1>4, <1>6 DEF sum

\* Elements that are equal add up to the same.
LEMMA SumSame ==
  ASSUME NEW S, IsFiniteSet(S), NEW F, NEW G,
         \A x \in S : F[x] \in Nat /\ G[x] = F[x]
  PROVE  SumFunctionOnSet(F, S) = SumFunctionOnSet(G, S)
<1>1. PICK g : SumsOf(g, F, S) /\ SumFunctionOnSet(F, S) = g[S]
  BY SumIsSum
<1>2. PICK h : SumsOf(h, G, S) /\ SumFunctionOnSet(G, S) = h[S]
  BY SumIsSum
<1>3. SumsOf(h, F, S)
  BY <1>2, NextIsTaken DEF SumsOf
<1>. QED BY <1>1, <1>2, <1>3, SumsAgree

\* Fewer elements do not add up to more.
LEMMA SumMonotonic ==
  ASSUME NEW S, IsFiniteSet(S), NEW F, \A x \in S : F[x] \in Nat, NEW T \in SUBSET S
  PROVE  SumFunctionOnSet(F, T) <= SumFunctionOnSet(F, S)
<1>. DEFINE sum(s) == SumFunctionOnSet(F, s)
            Bad == {s \in SUBSET S : T \subseteq s /\ ~(sum(T) <= sum(s))}
<1>0. \A s \in SUBSET S : /\ IsFiniteSet(s) /\ sum(s) \in Nat
                          /\ \A x \in s : sum(s) = F[x] + sum(s \ {x})
  BY FS_Subset, SumProperties
<1>. HIDE DEF sum
<1>1. Bad = {}
  <2>1. SUFFICES ASSUME Bad # {} PROVE FALSE
    OBVIOUS
  <2>2. PICK m \in Bad : \A u \in Bad : u \subseteq m => u = m
    <3>1. Bad \subseteq SUBSET S
      OBVIOUS
    <3>. HIDE DEF Bad
    <3>. QED BY <2>1, <3>1, SmallestSubset
  <2>3. m # T
    BY <2>2, <1>0
  <2>4. PICK x \in m : x \notin T
    BY <2>2, <2>3
  <2>5. sum(T) <= sum(m \ {x}) /\ sum(m) = F[x] + sum(m \ {x})
    <3>1. m \in SUBSET S /\ sum(m) = F[x] + sum(m \ {x})
      BY <2>2, <2>4, <1>0
    <3>2. m \ {x} \in SUBSET S /\ T \subseteq m \ {x} /\ m \ {x} # m
      BY <2>2, <2>4
    <3>3. m \ {x} \notin Bad
      BY <3>2, <2>2
    <3>. QED BY <3>1, <3>2, <3>3
  <2>6. sum(T) \in Nat /\ sum(m \ {x}) \in Nat /\ F[x] \in Nat
    BY <2>2, <1>0
  <2>. QED BY <2>2, <2>5, <2>6
<1>2. S \notin Bad
  BY <1>1
<1>. QED BY <1>2 DEF sum

\* A finite set of numbers that is not empty has a largest.
LEMMA LargestIn ==
  ASSUME NEW S, IsFiniteSet(S), S # {}
  PROVE  S \subseteq Nat => \E x \in S : \A y \in S : x >= y
<1>. DEFINE Bad == {s \in SUBSET S : s # {} /\ \A x \in s : \E y \in s : ~(x >= y)}
<1>1. ASSUME S \subseteq Nat PROVE \E x \in S : \A y \in S : x >= y
  <2>1. ASSUME Bad # {} PROVE FALSE
    <3>1. PICK m \in Bad : \A u \in Bad : u \subseteq m => u = m
      <4>1. Bad \subseteq SUBSET S
        OBVIOUS
      <4>. HIDE DEF Bad
      <4>. QED BY <2>1, <4>1, SmallestSubset
    <3>3. PICK x \in m : TRUE
      BY <3>1
    <3>4. m \ {x} # {}
      <4>1. m = {x} => ~(x >= x) /\ x \in Nat
        BY <3>1, <3>3, <1>1
      <4>. QED BY <4>1, <3>3
    <3>5. PICK y \in m \ {x} : \A z \in m \ {x} : y >= z
      <4>1. m \ {x} \in SUBSET S /\ m \ {x} # m
        BY <3>1, <3>3
      <4>2. m \ {x} \notin Bad
        BY <4>1, <3>1
      <4>. QED BY <4>1, <4>2, <3>4
    <3>6. x \in Nat /\ y \in Nat /\ m \subseteq Nat
      BY <1>1, <3>1, <3>3, <3>5
    <3>7. \A z \in m : IF x >= y THEN x >= z ELSE y >= z
      BY <3>5, <3>6
    <3>. QED BY <3>1, <3>3, <3>5, <3>7
  <2>2. S \notin Bad
    BY <2>1
  <2>. QED BY <2>2
<1>. QED BY <1>1

\* Max chooses it.
LEMMA Largest ==
  ASSUME NEW S, IsFiniteSet(S), S \subseteq Nat, S # {}
  PROVE  Max(S) \in S /\ \A y \in S : y <= Max(S)
<1>2. \E x \in S : \A y \in S : x >= y
  BY LargestIn
<1>3. Max(S) \in S /\ \A y \in S : Max(S) >= y
  BY <1>2 DEF Max
<1>. QED BY <1>3

-----------------------------------------------------------------------------
(***************************************************************************)
(* The public record.                                                      *)
(***************************************************************************)
\* Finitely many tools are listed.
FewTools == IInv /\ IsFiniteSet(DOMAIN tools)

LEMMA ListingAddsOne == ASSUME FewTools, [Next]_vars PROVE FewTools'
<1>1. IInv'
  BY NextIInv DEF FewTools
<1>2. IsFiniteSet(DOMAIN tools')
  <2>1. \/ tools' = tools
        \/ \E t, r : tools' = Insert(tools, t, r)
    <3>1. ASSUME NEW t, NEW price, NEW quota, NEW sk, registerTool(t, price, quota, sk)
          PROVE  \E r : tools' = Insert(tools, t, r)
      BY <3>1, Zenon DEF registerTool
    <3>2. ASSUME NEW t, NEW active, NEW sk, setToolActive(t, active, sk)
          PROVE  \E r : tools' = Insert(tools, t, r)
      BY <3>2, Zenon DEF setToolActive
    <3>3. ASSUME NEW t, NEW sk, NEW nonce, issuePass(t, sk, nonce) PROVE tools' = tools
      BY <3>3 DEF issuePass
    <3>4. ASSUME NEW t, NEW sk, NEW nonce, NEW path, NEW index,
                 redeemCall(t, sk, nonce, path, index)
          PROVE  tools' = tools
      BY <3>4 DEF redeemCall
    <3>5. ASSUME NEW t, NEW sk, NEW nonce, NEW path, NEW auditor, NEW calls,
                 attestUsage(t, sk, nonce, path, auditor, calls)
          PROVE  tools' = tools
      BY <3>5 DEF attestUsage
    <3>. QED BY <3>1, <3>2, <3>3, <3>4, <3>5 DEF Next, vars
  <2>2. ASSUME NEW t, NEW r, tools' = Insert(tools, t, r) PROVE IsFiniteSet(DOMAIN tools')
    <3>1. DOMAIN tools' = DOMAIN tools \cup {t}
      BY <2>2 DEF Insert
    <3>. QED BY <3>1, FS_AddElement DEF FewTools
  <2>. QED BY <2>1, <2>2 DEF FewTools
<1>. QED BY <1>1, <1>2 DEF FewTools

\* One row for each tool, with the calls that it served.
LEMMA Rows ==
  ASSUME FewTools
  PROVE  LET rows == readNightpassState.tools
         IN  /\ IsFiniteSet(rows)
             /\ \A r \in rows : /\ r.toolId \in DOMAIN tools
                                /\ r.callsServed = Cardinality(CallsTo(r.toolId))
                                /\ r.quota = tools[r.toolId].quota
             /\ \A r, q \in rows : r.toolId = q.toolId => r = q
             /\ \A t \in DOMAIN tools : \E r \in rows : r.toolId = t
<1>. DEFINE rows == readNightpassState.tools
            f == [r \in rows |-> r.toolId]
<1>1. rows = {toolRow(t, tools[t]) : t \in DOMAIN tools}
  <2>1. rows = {toolRow(e[1], e[2]) : e \in toolEntries}
    BY DEF readNightpassState
  <2>2. toolEntries = {<<t, tools[t]>> : t \in DOMAIN tools}
    BY DEF toolEntries
  <2>. HIDE DEF rows
  <2>3. ASSUME NEW r \in rows PROVE \E t \in DOMAIN tools : r = toolRow(t, tools[t])
    <3>1. PICK e \in toolEntries : r = toolRow(e[1], e[2])
      BY <2>1
    <3>2. PICK t \in DOMAIN tools : e = <<t, tools[t]>>
      BY <2>2
    <3>. QED BY <3>1, <3>2
  <2>4. ASSUME NEW t \in DOMAIN tools PROVE toolRow(t, tools[t]) \in rows
    <3>1. <<t, tools[t]>> \in toolEntries
      BY <2>2
    <3>. QED BY <3>1, <2>1
  <2>. QED BY <2>3, <2>4
<1>2. ASSUME NEW t \in DOMAIN tools
      PROVE  LET r == toolRow(t, tools[t])
             IN  /\ r.toolId = t /\ r.callsServed = Cardinality(CallsTo(t))
                 /\ r.quota = tools[t].quota
  BY DEF toolRow, servedOf, FewTools, IInv, TypeOK, ReputationIsExact
<1>. HIDE DEF rows
<1>3. f \in Injection(rows, DOMAIN tools)
  BY <1>1, <1>2 DEF Injection, IsInjective
<1>4. IsFiniteSet(rows)
  <2>. HIDE DEF f
  <2>. QED BY <1>3, FS_Injection DEF FewTools
<1>. QED BY <1>1, <1>2, <1>4 DEF rows

\* The rows of the state page add up to the nullifiers.
LEMMA RowsAddUp ==
  ASSUME FewTools
  PROVE  LET rows == readNightpassState.tools
         IN  SumFunction([r \in rows |-> r.callsServed]) = Cardinality(spentCalls)
<1>. DEFINE rows == readNightpassState.tools
            F == [r \in rows |-> r.callsServed]
            sum(s) == SumFunctionOnSet(F, s)
            calls(s) == {n \in spentCalls : \E r \in s : r.toolId = n.pass.tool}
            Bad == {s \in SUBSET rows : sum(s) # Cardinality(calls(s))}
<1>1. /\ IsFiniteSet(rows)
      /\ \A r \in rows : /\ r.toolId \in DOMAIN tools
                         /\ r.callsServed = Cardinality(CallsTo(r.toolId))
      /\ \A r, q \in rows : r.toolId = q.toolId => r = q
      /\ \A t \in DOMAIN tools : \E r \in rows : r.toolId = t
  BY Rows
<1>2. IsFiniteSet(spentCalls) /\ \A n \in spentCalls : n.pass.tool \in DOMAIN tools
  BY DEF FewTools, IInv, Counted, SpentCallsAreEntitled
<1>. HIDE DEF rows
<1>3. \A r \in rows : F[r] = Cardinality(CallsTo(r.toolId)) /\ F[r] \in Nat
  <2>1. \A t : IsFiniteSet(CallsTo(t))
    BY <1>2, FS_Subset DEF CallsTo
  <2>. QED BY <1>1, <2>1, FS_CardinalityType
<1>. HIDE DEF F
<1>4. \A s \in SUBSET rows : IsFiniteSet(s) /\ \A x \in s : F[x] \in Nat
  BY <1>1, <1>3, FS_Subset
<1>5. /\ sum({}) = 0
      /\ \A s \in SUBSET rows : \A r \in s : sum(s) = F[r] + sum(s \ {r})
  BY <1>4, SumProperties
<1>. HIDE DEF sum
<1>6. Bad = {}
  <2>1. SUFFICES ASSUME Bad # {} PROVE FALSE
    OBVIOUS
  <2>2. PICK m \in Bad : \A u \in Bad : u \subseteq m => u = m
    <3>1. Bad \subseteq SUBSET rows
      OBVIOUS
    <3>. HIDE DEF Bad
    <3>. QED BY <1>1, <2>1, <3>1, SmallestSubset
  <2>3. m # {}
    <3>1. calls({}) = {} /\ Cardinality({}) = 0
      BY FS_EmptySet
    <3>. HIDE DEF calls
    <3>. QED BY <2>2, <3>1, <1>5
  <2>4. PICK r \in m : TRUE
    BY <2>3
  <2>5. sum(m \ {r}) = Cardinality(calls(m \ {r}))
    <3>1. m \ {r} \in SUBSET rows /\ m \ {r} # m
      BY <2>2, <2>4
    <3>. QED BY <3>1, <2>2
  <2>6. calls(m) = CallsTo(r.toolId) \cup calls(m \ {r})
        /\ CallsTo(r.toolId) \cap calls(m \ {r}) = {}
    BY <1>1, <2>2 DEF CallsTo
  <2>7. IsFiniteSet(CallsTo(r.toolId)) /\ IsFiniteSet(calls(m \ {r}))
    BY <1>2, FS_Subset DEF CallsTo
  <2>. HIDE DEF calls
  <2>8. Cardinality(calls(m)) = Cardinality(CallsTo(r.toolId)) + Cardinality(calls(m \ {r}))
    <3>1. Cardinality({}) = 0 /\ Cardinality(CallsTo(r.toolId)) \in Nat
          /\ Cardinality(calls(m \ {r})) \in Nat
      BY <2>7, FS_EmptySet, FS_CardinalityType
    <3>. DEFINE A == CallsTo(r.toolId)
                B == calls(m \ {r})
    <3>2. IsFiniteSet(A) /\ IsFiniteSet(B) /\ A \cap B = {} /\ calls(m) = A \cup B
      BY <2>6, <2>7
    <3>. HIDE DEF A, B
    <3>3. Cardinality(A \cup B) = Cardinality(A) + Cardinality(B) - Cardinality({})
      BY <3>2, FS_Union
    <3>. QED BY <3>1, <3>2, <3>3 DEF A, B
  <2>. QED BY <2>2, <2>5, <2>8, <1>3, <1>5
<1>7. calls(rows) = spentCalls
  BY <1>1, <1>2
<1>8. sum(rows) = Cardinality(spentCalls)
  BY <1>6, <1>7
<1>. QED BY <1>8 DEF sum, F, rows, SumFunction

\* A call is of a pass and has an index below the largest quota.
LEMMA CallsWithinSales ==
  ASSUME FewTools, NEW top \in Nat, \A t \in DOMAIN tools : tools[t].quota <= top
  PROVE  Cardinality(spentCalls) <= passesIssued * top
<1>. DEFINE f == [n \in spentCalls |-> <<n.pass, n.index>>]
<1>0. \A t \in DOMAIN tools : tools[t].quota \in Nat
  BY BoundsAssumption DEF FewTools, IInv, TypeOK, ToolRecord
<1>1. f \in Injection(spentCalls, passCommitments \X (0 .. top - 1))
  <2>1. \A n \in spentCalls :
          n.pass \in passCommitments /\ n.index \in 0 .. top - 1 /\ n \in Nullifier
    BY <1>0, BoundsAssumption DEF FewTools, IInv, SpentCallsAreEntitled, TypeOK, Nullifier
  <2>2. \A m, n \in spentCalls : <<m.pass, m.index>> = <<n.pass, n.index>> => m = n
    BY <2>1 DEF Nullifier
  <2>. QED BY <2>1, <2>2 DEF Injection, IsInjective
<1>. HIDE DEF f
<1>2. IsFiniteSet(0 .. top - 1) /\ Cardinality(0 .. top - 1) = top
  BY IndexesOfQuota
<1>3. /\ IsFiniteSet(passCommitments) /\ Cardinality(passCommitments) \in Nat
      /\ Cardinality(passCommitments) <= passesIssued /\ passesIssued \in Nat
  BY BoundsAssumption, FS_CardinalityType DEF FewTools, IInv, Counted, TypeOK
<1>4. /\ IsFiniteSet(passCommitments \X (0 .. top - 1))
      /\ Cardinality(passCommitments \X (0 .. top - 1)) = Cardinality(passCommitments) * top
  BY <1>2, <1>3, FS_Product
<1>5. Cardinality(spentCalls) <= Cardinality(passCommitments) * top
  BY <1>1, <1>4, FS_Injection
<1>6. Cardinality(passCommitments) * top <= passesIssued * top
  BY <1>3
<1>7. Cardinality(spentCalls) \in Nat /\ Cardinality(passCommitments) * top \in Nat
      /\ passesIssued * top \in Nat
  BY <1>3, FS_CardinalityType DEF FewTools, IInv, Counted
<1>. QED BY <1>5, <1>6, <1>7

LEMMA PageAddsUp == ASSUME FewTools PROVE TotalsAddUp
<1>. DEFINE rows == readNightpassState.tools
            quotas == {r.quota : r \in rows} \cup {0}
            top == Max(quotas)
<1>1. readNightpassState.callsRedeemed = Cardinality(spentCalls)
      /\ readNightpassState.passesIssued = passesIssued
  BY DEF readNightpassState, spentCalls_size, issued
<1>2. /\ IsFiniteSet(rows)
      /\ \A r \in rows : r.toolId \in DOMAIN tools /\ r.quota = tools[r.toolId].quota
      /\ \A t \in DOMAIN tools : \E r \in rows : r.toolId = t
  BY Rows
<1>. HIDE DEF rows
<1>3. quotas \subseteq Nat
  BY <1>2, BoundsAssumption DEF FewTools, IInv, TypeOK, ToolRecord
<1>4. IsFiniteSet(quotas)
  <2>1. IsFiniteSet({r.quota : r \in rows})
    <3>. DEFINE g == [r \in rows |-> r.quota]
    <3>1. g \in Surjection(rows, {r.quota : r \in rows})
      BY DEF Surjection
    <3>. HIDE DEF g
    <3>. QED BY <1>2, <3>1, FS_Surjection
  <2>. QED BY <2>1, FS_AddElement
<1>5. top \in Nat /\ \A q \in quotas : q <= top
  <2>. HIDE DEF quotas
  <2>1. quotas # {}
    BY DEF quotas
  <2>. QED BY <1>3, <1>4, <2>1, Largest
<1>6. \A t \in DOMAIN tools : tools[t].quota <= top
  BY <1>2, <1>5
<1>7. Cardinality(spentCalls) <= passesIssued * top
  BY <1>5, <1>6, CallsWithinSales
<1>. QED BY <1>1, <1>7, RowsAddUp DEF TotalsAddUp, rows

LEMMA AuditTellsAll == ASSUME IInv PROVE FullAuditIsComplete
<1>1. SUFFICES ASSUME NEW c \in passCommitments, tools[c.tool].quota <= MaxAudited
      PROVE  LET result == verifyPass(c, tools[c.tool].quota)
             IN  /\ {row.callIndex : row \in {r \in result.calls : r.onChain}}
                      = {n.index : n \in CallsOf(c)}
                 /\ nextCallAbsent(result)
  BY DEF FullAuditIsComplete
<1>. DEFINE quota == tools[c.tool].quota
            result == verifyPass(c, quota)
<1>2. quota \in Nat /\ MaxAudited \in Nat
  BY BoundsAssumption, AuditAssumption DEF IInv, PassesAreForTools, TypeOK, ToolRecord
<1>3. clamped(quota) = quota
  BY <1>1, <1>2 DEF clamped
<1>4. \A n \in CallsOf(c) : n.index \in 0 .. quota - 1 /\ n = callNullifier(c, n.index)
  BY <1>2, BoundsAssumption
     DEF CallsOf, callNullifier, IInv, SpentCallsAreEntitled, TypeOK, Nullifier
<1>5. \A i : callNullifier(c, i) \in spentCalls =>
               callNullifier(c, i) \in CallsOf(c) /\ callNullifier(c, i).index = i
  BY DEF CallsOf, callNullifier
<1>6. result.calls = {check(c, i) : i \in 0 .. quota - 1} /\ result.beyond = check(c, quota)
  BY <1>3 DEF verifyPass
<1>7. \A i : check(c, i).callIndex = i /\ check(c, i).onChain = (callNullifier(c, i) \in spentCalls)
  BY DEF check, spentCalls_member
<1>. HIDE DEF quota, result
<1>8. {row.callIndex : row \in {r \in result.calls : r.onChain}} = {n.index : n \in CallsOf(c)}
  <2>1. ASSUME NEW row \in result.calls, row.onChain
        PROVE  \E n \in CallsOf(c) : n.index = row.callIndex
    <3>1. PICK i \in 0 .. quota - 1 : row = check(c, i)
      BY <1>6
    <3>2. callNullifier(c, i) \in spentCalls /\ row.callIndex = i
      BY <1>7, <2>1, <3>1
    <3>. QED BY <1>5, <3>2
  <2>2. ASSUME NEW n \in CallsOf(c)
        PROVE  \E row \in result.calls : row.onChain /\ row.callIndex = n.index
    <3>1. n.index \in 0 .. quota - 1 /\ n = callNullifier(c, n.index) /\ n \in spentCalls
      BY <1>4 DEF CallsOf
    <3>. QED BY <3>1, <1>6, <1>7
  <2>. QED BY <2>1, <2>2
<1>9. nextCallAbsent(result)
  <2>1. callNullifier(c, quota) \notin spentCalls
    BY <1>2, <1>4, <1>5
  <2>. QED BY <2>1, <1>6, <1>7 DEF nextCallAbsent
<1>. QED BY <1>8, <1>9 DEF result, quota

\* What anyone reads of the ledger is whole: the rows of the state page add up
\* to the calls on record, no more than the passes sold allow, and an audit up
\* to the quota tells of every call of a pass (lib/nightpass.ts).
THEOREM RecordIsWhole == Spec => []PublicRecordIsWhole
<1>1. Init => FewTools
  BY InitIInv, FS_EmptySet DEF Init, FewTools
<1>2. FewTools => PublicRecordIsWhole
  BY PageAddsUp, AuditTellsAll DEF PublicRecordIsWhole, FewTools
<1>. QED BY <1>1, <1>2, ListingAddsOne, PTL DEF Spec
=============================================================================
