----------------------- MODULE NightpassTranscriptProofs -----------------------
(***************************************************************************)
(* The compiled contract implements its source for every number of         *)
(* clients, tools and transactions in flight.                              *)
(*                                                                         *)
(* The argument: what is in flight satisfied the circuit's asserts on the  *)
(* results it carries, whatever the ledger does meanwhile (Proven); the    *)
(* chain applies it only if the ledger gives those results again, so the   *)
(* asserts hold of the ledger it applies to; and a root of the history is  *)
(* a tree of leaves that are still there (RootsArePast).  The counters are *)
(* integers, so that the cast to Uint<64> and the source's bound agree.    *)
(***************************************************************************)
EXTENDS NightpassTranscript, SequenceTheorems, TLAPS

Proven ==
  \A client \in Clients : inflight[client] # None =>
    /\ inflight[client].call \in Calls
    /\ Asserts(inflight[client].call, inflight[client].results)

RootsArePast == \A root \in history : RangeOf(root) \subseteq RangeOf(leaves)

CountedLeaves ==
  /\ leaves \in Seq(Contract!Pass)
  /\ passesIssued = Len(leaves)

ServedAreCounters == callsServed \in [DOMAIN tools -> 0 .. MaxUint]

IInv ==
  /\ DOMAIN inflight = Clients
  /\ ServedAreCounters
  /\ Proven
  /\ RootsArePast
  /\ CountedLeaves

\* A leaf appended to the tree is in it, and so are those that were.
LEMMA AppendedLeaf ==
  ASSUME NEW S, NEW s \in Seq(S), NEW c \in S
  PROVE  /\ Append(s, c) \in Seq(S)
         /\ Len(Append(s, c)) = Len(s) + 1
         /\ RangeOf(Append(s, c)) = RangeOf(s) \cup {c}
<1>1. /\ Append(s, c) \in Seq(S)
      /\ Len(Append(s, c)) = Len(s) + 1
      /\ \A i \in 1 .. Len(s) : Append(s, c)[i] = s[i]
      /\ Append(s, c)[Len(s) + 1] = c
  BY AppendProperties
<1>2. DOMAIN s = 1 .. Len(s) /\ DOMAIN Append(s, c) = 1 .. (Len(s) + 1)
  BY <1>1, LenProperties
<1>3. Len(s) \in Nat
  BY LenProperties
<1>4. \A i \in 1 .. Len(s) + 1 : i \in 1 .. Len(s) \/ i = Len(s) + 1
  BY <1>3
<1>5. 1 .. Len(s) \subseteq 1 .. Len(s) + 1 /\ Len(s) + 1 \in 1 .. Len(s) + 1
  BY <1>3
<1> QED
  BY <1>1, <1>2, <1>4, <1>5 DEF RangeOf

\* A path a client may present starts at a leaf of the root it computes to.
LEMMA PathLeadsToItsLeaf ==
  ASSUME NEW p \in Path
  PROVE  p.leaf \in Contract!Pass /\ p.leaf \in RangeOf(p.root)
BY DEF Path

\* Which arguments a call carries follows from its circuit.
LEMMA CallsOfCircuit ==
  ASSUME NEW c \in Calls
  PROVE  /\ c.circuit = "registerTool"  => c \in registerTools
         /\ c.circuit = "setToolActive" => c \in setToolActives
         /\ c.circuit = "issuePass"     => c \in issuePasses
         /\ c.circuit = "redeemCall"    => c \in redeemCalls
         /\ c.circuit = "attestUsage"   => c \in attestUsages
BY DEF Calls, registerTools, setToolActives, issuePasses, redeemCalls,
       attestUsages

\* The commitment of a purchase is a pass.
LEMMA PurchaseIsAPass ==
  ASSUME NEW c \in issuePasses
  PROVE  passCommitment(c) \in Contract!Pass
BY DEF issuePasses, passCommitment, Contract!Pass

LEMMA InitIInv == Init => IInv
<1> SUFFICES ASSUME Init PROVE IInv
  OBVIOUS
<1>1. \A client \in Clients : inflight[client] = None
  BY DEF Init
<1>2. leaves = <<>> /\ history = {<<>>} /\ passesIssued = 0
  BY DEF Init
<1>3. leaves \in Seq(Contract!Pass) /\ Len(leaves) = 0
  BY <1>2
<1> QED
  BY <1>1, <1>2, <1>3
  DEF Init, IInv, Proven, RootsArePast, CountedLeaves, ServedAreCounters

\* A registration starts a counter and a redemption advances one that the
\* cast to Uint<64> lets through.
LEMMA ServedStep ==
  ASSUME IInv, NEW client \in Clients, Apply(client)
  PROVE  ServedAreCounters'
<1> DEFINE c == inflight[client].call
           results == inflight[client].results
<1>1. c \in Calls /\ Asserts(c, results) /\ results = Reads(c)
      /\ Effect(c, results)
  BY DEF Apply, IInv, Proven, applicable
<1>2. CASE c.circuit = "registerTool"
  <2>1. /\ DOMAIN tools' = DOMAIN tools \cup {c.tool}
        /\ callsServed' = Contract!Insert(callsServed, c.tool, 0)
    BY <1>1, <1>2 DEF Effect, registerTool_effect, Contract!Insert
  <2> QED
    BY <2>1, BoundsAssumption DEF IInv, ServedAreCounters, Contract!Insert
<1>3. CASE c.circuit = "setToolActive"
  <2>1. results[1] /\ results = toolReads(c)
    BY <1>1, <1>3 DEF Asserts, setToolActive_asserts, Reads
  <2>2. c.tool \in DOMAIN tools
    BY <2>1 DEF toolReads
  <2>3. DOMAIN tools' = DOMAIN tools /\ callsServed' = callsServed
    BY <1>1, <1>3, <2>2 DEF Effect, setToolActive_effect, Contract!Insert
  <2> QED
    BY <2>3 DEF IInv, ServedAreCounters
<1>4. CASE c.circuit = "redeemCall"
  <2>1. redeemCall_asserts(c, results) /\ results = redeemCall_reads(c)
        /\ redeemCall_effect(c, results)
    BY <1>1, <1>4 DEF Asserts, Reads, Effect
  <2>2. c.tool \in DOMAIN tools
    BY <2>1 DEF redeemCall_asserts, redeemCall_reads
  <2>3. results[5] = callsServed[c.tool] /\ results[5] + 1 <= MaxUint
    BY <2>1, <2>2 DEF redeemCall_asserts, redeemCall_reads
  <2>4. results[5] + 1 \in 0 .. MaxUint
    BY <2>2, <2>3, BoundsAssumption DEF IInv, ServedAreCounters
  <2>5. tools' = tools /\ callsServed' =
          Contract!Insert(callsServed, c.tool, results[5] + 1)
    BY <2>1 DEF redeemCall_effect
  <2> QED
    BY <2>2, <2>4, <2>5 DEF IInv, ServedAreCounters, Contract!Insert
<1>5. CASE c.circuit \in {"issuePass", "attestUsage"}
  <2>1. UNCHANGED <<tools, callsServed>>
    BY <1>1, <1>5 DEF Effect, issuePass_effect, attestUsage_effect
  <2> QED
    BY <2>1 DEF IInv, ServedAreCounters
<1> QED
  BY <1>1, <1>2, <1>3, <1>4, <1>5 DEF Effect

LEMMA StepIInv == IInv /\ [Next]_vars => IInv'
<1> SUFFICES ASSUME IInv, [Next]_vars PROVE IInv'
  OBVIOUS
<1> USE DEF IInv
<1>1. ASSUME NEW client \in Clients, NEW call \in Calls, Prove(client, call)
      PROVE  IInv'
  <2>1. Proven'
    <3> SUFFICES ASSUME NEW other \in Clients, inflight'[other] # None
                 PROVE  /\ inflight'[other].call \in Calls
                        /\ Asserts(inflight'[other].call,
                                   inflight'[other].results)
      BY DEF Proven
    <3>1. CASE other = client
      <4>1. inflight'[other] = [call |-> call, results |-> Reads(call)]
        BY <1>1, <3>1 DEF Prove
      <4>2. inflight'[other].call = call /\ inflight'[other].results = Reads(call)
        BY <4>1
      <4> QED
        BY <1>1, <4>2 DEF Prove
    <3>2. CASE other # client
      <4>1. inflight'[other] = inflight[other]
        BY <1>1, <3>2 DEF Prove
      <4> QED
        BY <4>1 DEF Proven
    <3> QED
      BY <3>1, <3>2
  <2>2. RootsArePast' /\ CountedLeaves' /\ DOMAIN inflight' = Clients
        /\ ServedAreCounters'
    BY <1>1
    DEF Prove, ledger, RootsArePast, CountedLeaves, ServedAreCounters, RangeOf
  <2> QED
    BY <2>1, <2>2
<1>2. ASSUME NEW client \in Clients,
             inflight' = [inflight EXCEPT ![client] = None]
      PROVE  DOMAIN inflight' = Clients /\ Proven'
  <2>1. \A other \in Clients :
          inflight'[other] = None \/ inflight'[other] = inflight[other]
    BY <1>2
  <2> QED
    BY <1>2, <2>1 DEF Proven
<1>3. ASSUME NEW client \in Clients, Apply(client) PROVE IInv'
  <2> DEFINE c == inflight[client].call
             results == inflight[client].results
  <2>1. c \in Calls
    BY <1>3 DEF Apply, Proven
  <2>2. DOMAIN inflight' = Clients /\ Proven' /\ ServedAreCounters'
    BY <1>2, <1>3, ServedStep DEF Apply
  <2>3. CASE c.circuit = "issuePass"
    <3>1. issuePass_effect(c)
      BY <1>3, <2>3 DEF Apply, Effect
    <3>2. passCommitment(c) \in Contract!Pass
      BY <2>1, <2>3, CallsOfCircuit, PurchaseIsAPass
    <3>3. /\ leaves' = Append(leaves, passCommitment(c))
          /\ history' = history \cup {leaves'}
          /\ passesIssued' = passesIssued + 1
      BY <3>1 DEF issuePass_effect
    <3>4. CountedLeaves'
      BY <3>2, <3>3, AppendedLeaf DEF CountedLeaves
    <3>5. RangeOf(leaves') = RangeOf(leaves) \cup {passCommitment(c)}
      BY <3>2, <3>3, AppendedLeaf DEF CountedLeaves
    <3>6. RootsArePast'
      BY <3>3, <3>5 DEF RootsArePast, RangeOf
    <3> QED
      BY <2>2, <3>4, <3>6
  <2>4. CASE c.circuit # "issuePass"
    <3>1. UNCHANGED <<passesIssued, leaves, history>>
      BY <1>3, <2>4
      DEF Apply, Effect, registerTool_effect, setToolActive_effect,
          redeemCall_effect, attestUsage_effect
    <3> QED
      BY <2>2, <3>1 DEF RootsArePast, CountedLeaves, RangeOf
  <2> QED
    BY <2>3, <2>4
<1>4. ASSUME NEW client \in Clients, Drop(client) PROVE IInv'
  <2>1. DOMAIN inflight' = Clients /\ Proven'
    BY <1>2, <1>4 DEF Drop
  <2> QED
    BY <1>4, <2>1
    DEF Drop, ledger, RootsArePast, CountedLeaves, ServedAreCounters, RangeOf
<1>5. CASE UNCHANGED vars
  BY <1>5
  DEF vars, Proven, RootsArePast, CountedLeaves, ServedAreCounters, RangeOf
<1> QED
  BY <1>1, <1>3, <1>4, <1>5 DEF Next

\* In every reachable state, what is in flight was proven and every root the
\* contract accepts is a tree of leaves that are still issued.
THEOREM Inductive == Spec => []IInv
BY InitIInv, StepIInv, PTL DEF Spec

-----------------------------------------------------------------------------
\* The empty ledger of the compiled contract is the one of its source.
LEMMA InitImplements == Init => Contract!Init
BY DEF Init, Contract!Init, RangeOf

\* A path whose root the history holds starts at a pass that was issued.
LEMMA AcceptedPathIsIssued ==
  ASSUME IInv, NEW p \in Path, p.root \in history
  PROVE  p.leaf \in RangeOf(leaves)
BY PathLeadsToItsLeaf DEF IInv, RootsArePast

\* A transaction that applies does what its circuit does when it is executed
\* on the ledger the transaction applies to.
LEMMA ApplyImplements ==
  ASSUME IInv, NEW client \in Clients, Apply(client)
  PROVE  Contract!Next
<1> DEFINE c == inflight[client].call
           results == inflight[client].results
<1>1. c \in Calls /\ Asserts(c, results)
  BY DEF Apply, IInv, Proven
<1>2. results = Reads(c) /\ Effect(c, results)
  BY DEF Apply, applicable
<1>3. CASE c.circuit = "registerTool"
  <2>1. c \in registerTools
    BY <1>1, <1>3, CallsOfCircuit
  <2>2. registerTool_asserts(c, results) /\ results = registerTool_reads(c)
        /\ registerTool_effect(c)
    BY <1>1, <1>2, <1>3 DEF Asserts, Reads, Effect
  <2>3. Contract!registerTool(c.tool, c.price, c.quota, c.sk)
    <3>1. c.tool \notin DOMAIN tools /\ c.quota > 0
      <4>1. results[1] = (c.tool \in DOMAIN tools)
        BY <2>2 DEF registerTool_reads
      <4>2. ~ results[1] /\ c.quota > 0
        BY <2>2 DEF registerTool_asserts
      <4> QED
        BY <4>1, <4>2
    <3>2. publisherCommitment(c) = Contract!publisherCommitment(c.sk)
      BY DEF publisherCommitment, Contract!publisherCommitment
    <3>3. UNCHANGED <<RangeOf(leaves), spentCalls, passesIssued, attestations>>
      BY <2>2 DEF registerTool_effect, RangeOf
    <3> HIDE DEF c, results
    <3> QED
      BY <2>2, <3>1, <3>2, <3>3
      DEF registerTool_effect, Contract!registerTool, Contract!unregistered,
          Contract!positive
  <2>4. c.tool \in Tools /\ c.price \in Prices /\ c.quota \in Quotas
        /\ c.sk \in Secrets
    BY <2>1 DEF registerTools
  <2> QED
    BY <2>3, <2>4 DEF Contract!Next
<1>4. CASE c.circuit = "setToolActive"
  <2>1. c \in setToolActives
    BY <1>1, <1>4, CallsOfCircuit
  <2>2. setToolActive_asserts(c, results) /\ results = toolReads(c)
        /\ setToolActive_effect(c, results)
    BY <1>1, <1>2, <1>4 DEF Asserts, Reads, Effect
  <2>3. c.tool \in DOMAIN tools /\ results[2] = tools[c.tool]
    BY <2>2 DEF setToolActive_asserts, toolReads
  <2>4. Contract!setToolActive(c.tool, c.active, c.sk)
    BY <2>2, <2>3
    DEF setToolActive_asserts, setToolActive_effect, publisherCommitment,
        Contract!setToolActive, Contract!publisherCommitment, RangeOf
  <2>5. c.tool \in Tools /\ c.active \in BOOLEAN /\ c.sk \in Secrets
    BY <2>1 DEF setToolActives
  <2> QED
    BY <2>4, <2>5 DEF Contract!Next
<1>5. CASE c.circuit = "issuePass"
  <2>1. c \in issuePasses
    BY <1>1, <1>5, CallsOfCircuit
  <2>2. issuePass_asserts(c, results) /\ results = toolReads(c)
        /\ issuePass_effect(c)
    BY <1>1, <1>2, <1>5 DEF Asserts, Reads, Effect
  <2>3. c.tool \in DOMAIN tools /\ tools[c.tool].active
    BY <2>2 DEF issuePass_asserts, toolReads
  <2>4. RangeOf(leaves') = RangeOf(leaves) \cup {passCommitment(c)}
    BY <2>1, <2>2, PurchaseIsAPass, AppendedLeaf
    DEF issuePass_effect, IInv, CountedLeaves
  <2>5. passesIssued < TreeCapacity /\ passesIssued' = passesIssued + 1
        /\ UNCHANGED <<tools, spentCalls, callsServed, attestations>>
    BY <2>2 DEF issuePass_effect, IInv, CountedLeaves
  <2>6. Contract!issuePass(c.tool, c.sk, c.nonce)
    BY <2>3, <2>4, <2>5
    DEF passCommitment, Contract!issuePass, Contract!passCommitment
  <2>7. c.tool \in Tools /\ c.sk \in Secrets /\ c.nonce \in Nonces
    BY <2>1 DEF issuePasses
  <2> QED
    BY <2>6, <2>7 DEF Contract!Next
<1>6. CASE c.circuit = "redeemCall"
  <2>1. c \in redeemCalls
    BY <1>1, <1>6, CallsOfCircuit
  <2>2. redeemCall_asserts(c, results) /\ results = redeemCall_reads(c)
        /\ redeemCall_effect(c, results)
    BY <1>1, <1>2, <1>6 DEF Asserts, Reads, Effect
  <2>3. c.tool \in DOMAIN tools
    BY <2>2 DEF redeemCall_asserts, redeemCall_reads
  <2>4. /\ results[2] = tools[c.tool]
        /\ results[3] = (c.path.root \in history)
        /\ results[4] = (callNullifier(c) \in spentCalls)
        /\ results[5] = callsServed[c.tool]
    BY <2>2, <2>3 DEF redeemCall_reads
  <2>5. c.path \in Path /\ c.path.root \in history
    BY <2>1, <2>2, <2>4 DEF redeemCalls, redeemCall_asserts
  <2>6. c.path.leaf \in RangeOf(leaves) /\ c.path.leaf \in Contract!Pass
    BY <2>5, AcceptedPathIsIssued, PathLeadsToItsLeaf
  <2>7. Contract!redeemCall(c.tool, c.sk, c.nonce, c.path.leaf, c.index)
    <3>1. tools[c.tool].active /\ c.path.leaf = passCommitment(c)
          /\ c.index < tools[c.tool].quota
          /\ callNullifier(c) \notin spentCalls
          /\ callsServed[c.tool] + 1 <= MaxUint
      BY <2>2, <2>4 DEF redeemCall_asserts
    <3>2. callNullifier(c) = Contract!callNullifier(
            Contract!passCommitment(c.tool, c.sk, c.nonce), c.index)
      BY DEF callNullifier, passCommitment, Contract!callNullifier,
             Contract!passCommitment
    <3>3. passCommitment(c) = Contract!passCommitment(c.tool, c.sk, c.nonce)
      BY DEF passCommitment, Contract!passCommitment
    <3>4. callsServed[c.tool] < MaxUint
      BY <2>3, <3>1, BoundsAssumption DEF IInv, ServedAreCounters
    <3>5. /\ spentCalls' = spentCalls \cup {callNullifier(c)}
          /\ callsServed' = Contract!Insert(callsServed, c.tool,
                                            callsServed[c.tool] + 1)
          /\ UNCHANGED <<tools, RangeOf(leaves), passesIssued, attestations>>
      BY <2>2, <2>4 DEF redeemCall_effect, RangeOf
    <3> QED
      BY <2>3, <2>6, <3>1, <3>2, <3>3, <3>4, <3>5
      DEF Contract!redeemCall, Contract!checkRoot, Contract!sameLeaf,
          Contract!withinQuota, Contract!unspent
  <2>8. c.tool \in Tools /\ c.sk \in Secrets /\ c.nonce \in Nonces
        /\ c.index \in 0 .. MaxUint
    BY <2>1 DEF redeemCalls
  <2> QED
    BY <2>6, <2>7, <2>8 DEF Contract!Next
<1>7. CASE c.circuit = "attestUsage"
  <2>1. c \in attestUsages
    BY <1>1, <1>7, CallsOfCircuit
  <2>2. attestUsage_asserts(c, results) /\ results = attestUsage_reads(c)
        /\ attestUsage_effect(c)
    BY <1>1, <1>2, <1>7 DEF Asserts, Reads, Effect
  <2>3. c.tool \in DOMAIN tools
    BY <2>2 DEF attestUsage_asserts, attestUsage_reads
  <2>4. /\ results[2] = tools[c.tool]
        /\ results[3] = (c.path.root \in history)
        /\ results[4] = (auditTag(c) \in DOMAIN attestations)
    BY <2>2, <2>3 DEF attestUsage_reads
  <2>5. c.path \in Path /\ c.path.root \in history
    BY <2>1, <2>2, <2>4 DEF attestUsages, attestUsage_asserts
  <2>6. c.path.leaf \in RangeOf(leaves) /\ c.path.leaf \in Contract!Pass
    BY <2>5, AcceptedPathIsIssued, PathLeadsToItsLeaf
  <2>7. Contract!attestUsage(c.tool, c.sk, c.nonce, c.path.leaf, c.auditor,
                             c.calls)
    <3>1. c.path.leaf = passCommitment(c) /\ c.calls <= tools[c.tool].quota
          /\ auditTag(c) \notin DOMAIN attestations
      BY <2>2, <2>4 DEF attestUsage_asserts
    <3>2. auditTag(c) = Contract!auditTag(c.auditor,
            Contract!passCommitment(c.tool, c.sk, c.nonce), c.calls)
      BY DEF auditTag, passCommitment, Contract!auditTag,
             Contract!passCommitment
    <3>3. passCommitment(c) = Contract!passCommitment(c.tool, c.sk, c.nonce)
      BY DEF passCommitment, Contract!passCommitment
    <3>4. /\ attestations' = Contract!Insert(attestations, auditTag(c),
                                             c.auditor)
          /\ UNCHANGED <<tools, RangeOf(leaves), spentCalls, callsServed,
                         passesIssued>>
      BY <2>2 DEF attestUsage_effect, RangeOf
    <3> QED
      BY <2>3, <2>6, <3>1, <3>2, <3>3, <3>4
      DEF Contract!attestUsage, Contract!checkRoot, Contract!sameLeaf,
          Contract!claimable
  <2>8. c.tool \in Tools /\ c.sk \in Secrets /\ c.nonce \in Nonces
        /\ c.auditor \in Auditors /\ c.calls \in 0 .. MaxUint
    BY <2>1 DEF attestUsages
  <2> QED
    BY <2>6, <2>7, <2>8 DEF Contract!Next
<1>8. c.circuit \in {"registerTool", "setToolActive", "issuePass",
                     "redeemCall", "attestUsage"}
  BY <1>2 DEF Effect
<1> QED
  BY <1>3, <1>4, <1>5, <1>6, <1>7, <1>8

\* Every step of the compiled contract is a circuit of the source or leaves
\* the ledger alone.
LEMMA StepImplements == IInv /\ [Next]_vars => [Contract!Next]_Contract!vars
<1> SUFFICES ASSUME IInv, [Next]_vars PROVE [Contract!Next]_Contract!vars
  OBVIOUS
<1>1. ASSUME NEW client \in Clients, NEW call \in Calls, Prove(client, call)
      PROVE  UNCHANGED Contract!vars
  BY <1>1 DEF Prove, ledger, Contract!vars, RangeOf
<1>2. ASSUME NEW client \in Clients, Drop(client)
      PROVE  UNCHANGED Contract!vars
  BY <1>2 DEF Drop, ledger, Contract!vars, RangeOf
<1>3. CASE UNCHANGED vars
  BY <1>3 DEF vars, Contract!vars, RangeOf
<1> QED
  BY <1>1, <1>2, <1>3, ApplyImplements DEF Next

\* The compiled contract with any number of transactions in flight implements
\* the contract executed one circuit at a time.
THEOREM CompiledImplementsContract == Spec => ImplementsContract
<1>1. Init => Contract!Init
  BY InitImplements
<1>2. IInv /\ [Next]_vars => [Contract!Next]_Contract!vars
  BY StepImplements
<1> QED
  BY <1>1, <1>2, Inductive, PTL DEF Spec, ImplementsContract, Contract!Spec

-----------------------------------------------------------------------------
(***************************************************************************)
(* What the trees and the races come to.                                   *)
(***************************************************************************)
\* A prefix of a tree that has grown is a prefix of the old one, or all of it.
LEMMA GrownPrefixes ==
  ASSUME NEW S, NEW s \in Seq(S), NEW c \in S
  PROVE  /\ \A n \in 0 .. Len(s) : SubSeq(Append(s, c), 1, n) = SubSeq(s, 1, n)
         /\ SubSeq(Append(s, c), 1, Len(s) + 1) = Append(s, c)
<1>. DEFINE t == Append(s, c)
<1>1. /\ t \in Seq(S) /\ Len(t) = Len(s) + 1 /\ Len(s) \in Nat
      /\ \A i \in 1 .. Len(s) : t[i] = s[i]
  BY AppendProperties, LenProperties
<1>2. \A i \in 1 .. Len(s) : s[i] \in S
  BY ElementOfSeq
<1>. HIDE DEF t
<1>3. ASSUME NEW n \in 0 .. Len(s) PROVE SubSeq(t, 1, n) = SubSeq(s, 1, n)
  <2>1. /\ \A i \in 1 .. n : t[i] \in S
        /\ \A i \in 1 .. n : s[i] \in S
        /\ n \in Int
    BY <1>1, <1>2
  <2>2. /\ SubSeq(s, 1, n) \in Seq(S) /\ Len(SubSeq(s, 1, n)) = n
        /\ \A i \in 1 .. n : SubSeq(s, 1, n)[i] = s[i]
    <3>1. /\ SubSeq(s, 1, n) \in Seq(S)
          /\ Len(SubSeq(s, 1, n)) = IF 1 <= n THEN n - 1 + 1 ELSE 0
          /\ \A i \in 1 .. n - 1 + 1 : SubSeq(s, 1, n)[i] = s[1 + i - 1]
      BY <2>1, SubSeqProperties
    <3>. QED BY <3>1
  <2>3. /\ SubSeq(t, 1, n) \in Seq(S) /\ Len(SubSeq(t, 1, n)) = n
        /\ \A i \in 1 .. n : SubSeq(t, 1, n)[i] = t[i]
    <3>1. /\ SubSeq(t, 1, n) \in Seq(S)
          /\ Len(SubSeq(t, 1, n)) = IF 1 <= n THEN n - 1 + 1 ELSE 0
          /\ \A i \in 1 .. n - 1 + 1 : SubSeq(t, 1, n)[i] = t[1 + i - 1]
      BY <2>1, SubSeqProperties
    <3>. QED BY <3>1
  <2>4. \A i \in 1 .. n : t[i] = s[i]
    BY <1>1
  <2>. QED BY <2>2, <2>3, <2>4, SeqEqual
<1>4. SubSeq(t, 1, Len(s) + 1) = t
  BY <1>1, SubSeqFull
<1>5. (\A n \in 0 .. Len(s) : SubSeq(t, 1, n) = SubSeq(s, 1, n))
      /\ SubSeq(t, 1, Len(s) + 1) = t
  BY <1>3, <1>4
<1>. QED BY <1>5 DEF t

\* A purchase adds the root of the new tree, every other transaction none.
LEMMA HistoryStep == IInv /\ HistoryIsEveryTree /\ [Next]_vars => HistoryIsEveryTree'
<1>. SUFFICES ASSUME IInv, HistoryIsEveryTree, [Next]_vars PROVE HistoryIsEveryTree'
  OBVIOUS
<1>1. ASSUME UNCHANGED <<leaves, history, passesIssued>> PROVE HistoryIsEveryTree'
  BY <1>1 DEF HistoryIsEveryTree
<1>2. ASSUME NEW client \in Clients, Apply(client) PROVE HistoryIsEveryTree'
  <2>. DEFINE c == inflight[client].call
  <2>1. CASE c.circuit = "issuePass"
    <3>1. issuePass_effect(c)
      BY <1>2, <2>1 DEF Apply, Effect
    <3>2. c \in Calls
      BY <1>2 DEF Apply, IInv, Proven
    <3>3. PICK p \in Contract!Pass : p = passCommitment(c)
      BY <2>1, <3>2, CallsOfCircuit, PurchaseIsAPass
    <3>4. /\ leaves' = Append(leaves, p) /\ history' = history \cup {Append(leaves, p)}
          /\ passesIssued' = passesIssued + 1
      BY <3>1, <3>3 DEF issuePass_effect
    <3>5. PICK k \in Nat : k = Len(leaves) /\ passesIssued = k /\ leaves \in Seq(Contract!Pass)
      BY LenProperties DEF IInv, CountedLeaves
    <3>6. Len(leaves') = k + 1
      BY <3>4, <3>5, AppendProperties
    <3>7. /\ \A n \in 0 .. k : SubSeq(leaves', 1, n) = SubSeq(leaves, 1, n)
          /\ SubSeq(leaves', 1, k + 1) = leaves'
      BY <3>4, <3>5, GrownPrefixes
    <3>8. history = {SubSeq(leaves, 1, n) : n \in 0 .. k}
      BY <3>5 DEF HistoryIsEveryTree
    <3>9. {SubSeq(leaves', 1, n) : n \in 0 .. k + 1}
            = {SubSeq(leaves', 1, n) : n \in 0 .. k} \cup {SubSeq(leaves', 1, k + 1)}
      <4>1. 0 .. k + 1 = (0 .. k) \cup {k + 1}
        BY <3>5
      <4>. HIDE DEF c
      <4>. QED BY <4>1
    <3>10. {SubSeq(leaves', 1, n) : n \in 0 .. k} = {SubSeq(leaves, 1, n) : n \in 0 .. k}
      BY <3>7
    <3>11. history' = {SubSeq(leaves', 1, n) : n \in 0 .. k + 1}
      BY <3>4, <3>7, <3>8, <3>9, <3>10
    <3>. QED BY <3>4, <3>5, <3>6, <3>11 DEF HistoryIsEveryTree
  <2>2. CASE c.circuit # "issuePass"
    <3>1. UNCHANGED <<passesIssued, leaves, history>>
      BY <1>2, <2>2
      DEF Apply, Effect, registerTool_effect, setToolActive_effect,
          redeemCall_effect, attestUsage_effect
    <3>. QED BY <3>1, <1>1
  <2>. QED BY <2>1, <2>2
<1>3. CASE UNCHANGED ledger
  BY <1>1, <1>3 DEF ledger
<1>4. CASE UNCHANGED vars
  BY <1>1, <1>4 DEF vars
<1>. QED BY <1>2, <1>3, <1>4 DEF Next, Prove, Drop

\* The roots a spend may prove against are those of every tree there was, in
\* their order, as the compiled contract computes them (contract/index.js).
THEOREM HistoryHolds == Spec => []HistoryIsEveryTree
<1>1. Init => HistoryIsEveryTree
  <2>. SUFFICES ASSUME Init PROVE HistoryIsEveryTree
    OBVIOUS
  <2>1. leaves = <<>> /\ history = {<<>>} /\ passesIssued = 0 /\ Len(leaves) = 0
    BY DEF Init
  <2>2. SubSeq(leaves, 1, 0) = <<>> /\ 0 .. 0 = {0}
    BY SubSeqEmpty
  <2>. QED BY <2>1, <2>2 DEF HistoryIsEveryTree
<1>2. IInv /\ HistoryIsEveryTree /\ [Next]_vars => (IInv /\ HistoryIsEveryTree)'
  BY StepIInv, HistoryStep
<1>. QED BY <1>1, <1>2, InitIInv, StepIInv, PTL DEF Spec

-----------------------------------------------------------------------------
\* What applies to one entry of the ledger disturbs only what reads that entry.
LEMMA ApplyDisturbsRaces ==
  ASSUME IInv, NEW a \in Clients, NEW c, NEW results, Apply(a), c \in Calls,
         Asserts(c, results), results = Reads(c),
         ~ Races(inflight[a].call, c)
  PROVE  Reads(c)' = Reads(c)
<1>. PICK d, seen : d = inflight[a].call /\ seen = inflight[a].results
  OBVIOUS
<1>1. d \in Calls /\ Asserts(d, seen) /\ seen = Reads(d) /\ Effect(d, seen)
  BY DEF Apply, IInv, Proven, applicable
<1>2. ~ Races(d, c)
  OBVIOUS
<1>3. callsServed \in [DOMAIN tools -> 0 .. MaxUint]
  BY DEF IInv, ServedAreCounters
\* What a proven call found registered.
<1>4. c.circuit # "registerTool" =>
        /\ c.tool \in DOMAIN tools
        /\ c.circuit \in {"redeemCall", "attestUsage"} => c.path.root \in history
  <2>1. CASE c.circuit \in {"setToolActive", "issuePass"}
    BY <2>1 DEF Asserts, Reads, setToolActive_asserts, issuePass_asserts,
       toolReads
  <2>2. CASE c.circuit = "redeemCall"
    BY <2>2 DEF Asserts, Reads, redeemCall_asserts, redeemCall_reads
  <2>3. CASE c.circuit = "attestUsage"
    BY <2>3 DEF Asserts, Reads, attestUsage_asserts, attestUsage_reads
  <2>. QED BY <2>1, <2>2, <2>3 DEF Calls, registerTools, setToolActives,
      issuePasses,
               redeemCalls, attestUsages
\* The parts a call reads decide what it reads.
<1>5. ASSUME c.tool \in DOMAIN tools <=> c.tool \in DOMAIN tools',
             c.circuit # "registerTool" => tools'[c.tool] = tools[c.tool],
             c.circuit # "registerTool" => history \subseteq history',
             c.circuit = "redeemCall" =>
               /\ callsServed'[c.tool] = callsServed[c.tool]
               /\ callNullifier(c) \in spentCalls <=> callNullifier(c) \in spentCalls',
             c.circuit = "attestUsage" =>
               (auditTag(c) \in DOMAIN attestations <=> auditTag(c) \in DOMAIN attestations')
      PROVE  Reads(c)' = Reads(c)
  <2>1. CASE c.circuit = "registerTool"
    BY <2>1, <1>5 DEF Reads, registerTool_reads
  <2>2. CASE c.circuit \in {"setToolActive", "issuePass"}
    BY <2>2, <1>4, <1>5 DEF Reads, toolReads
  <2>3. CASE c.circuit = "redeemCall"
    <3>1. redeemCall_reads(c)' = redeemCall_reads(c)
      <4>1. /\ c.tool \in DOMAIN tools /\ c.tool \in DOMAIN tools'
            /\ tools'[c.tool] = tools[c.tool] /\ callsServed'[c.tool] = callsServed[c.tool]
            /\ (c.path.root \in history') = (c.path.root \in history)
            /\ (callNullifier(c) \in spentCalls') = (callNullifier(c) \in spentCalls)
        BY <2>3, <1>4, <1>5
      <4>2. callNullifier(c)' = callNullifier(c)
        BY DEF callNullifier, passCommitment
      <4>. QED BY <4>1, <4>2, Zenon DEF redeemCall_reads
    <3>. QED BY <2>3, <3>1 DEF Reads
  <2>4. CASE c.circuit = "attestUsage"
    <3>1. attestUsage_reads(c)' = attestUsage_reads(c)
      <4>1. /\ c.tool \in DOMAIN tools /\ c.tool \in DOMAIN tools'
            /\ tools'[c.tool] = tools[c.tool]
            /\ (c.path.root \in history') = (c.path.root \in history)
            /\ (auditTag(c) \in DOMAIN attestations') = (auditTag(c) \in DOMAIN attestations)
        BY <2>4, <1>4, <1>5
      <4>2. auditTag(c)' = auditTag(c)
        BY DEF auditTag, passCommitment
      <4>. QED BY <4>1, <4>2, Zenon DEF attestUsage_reads
    <3>. QED BY <2>4, <3>1 DEF Reads
  <2>. QED BY <2>1, <2>2, <2>3, <2>4 DEF Calls, registerTools, setToolActives,
      issuePasses,
               redeemCalls, attestUsages
<1>6. CASE d.circuit = "registerTool"
  <2>0. registerTool_effect(d) /\ registerTool_asserts(d, seen) /\ seen = registerTool_reads(d)
    BY <1>1, <1>6 DEF Effect, Asserts, Reads
  <2>1. registerTool_effect(d) /\ d.tool \notin DOMAIN tools
    <3>1. seen[1] = (d.tool \in DOMAIN tools)
      BY <2>0 DEF registerTool_reads
    <3>. QED BY <2>0, <3>1 DEF registerTool_asserts
  <2>2. c.tool # d.tool
    BY <2>1, <1>2, <1>4, <1>6 DEF Races
  <2>. QED BY <2>1, <2>2, <1>3, <1>4, <1>5 DEF registerTool_effect,
      Contract!Insert
<1>7. CASE d.circuit = "setToolActive"
  <2>1. setToolActive_effect(d, seen) /\ d.tool \in DOMAIN tools
    BY <1>1, <1>7 DEF Effect, Asserts, Reads, setToolActive_asserts, toolReads
  <2>2. c.circuit # "registerTool" => c.tool # d.tool
    BY <1>2, <1>7 DEF Races
  <2>. QED BY <2>1, <2>2, <1>3, <1>4, <1>5 DEF setToolActive_effect,
      Contract!Insert
<1>8. CASE d.circuit = "issuePass"
  <2>1. issuePass_effect(d)
    BY <1>1, <1>8 DEF Effect
  <2>. QED BY <2>1, <1>5 DEF issuePass_effect
<1>9. CASE d.circuit = "redeemCall"
  <2>1. redeemCall_effect(d, seen) /\ d.tool \in DOMAIN tools
    BY <1>1, <1>9 DEF Effect, Asserts, Reads, redeemCall_asserts,
       redeemCall_reads
  <2>2. c.circuit = "redeemCall" => c.tool # d.tool
    BY <1>2, <1>9 DEF Races
  <2>3. c.circuit = "redeemCall" => callNullifier(c) # callNullifier(d)
    <3>1. passCommitment(c).tool = c.tool /\ passCommitment(d).tool = d.tool
      BY DEF passCommitment
    <3>2. callNullifier(c).pass = passCommitment(c) /\ callNullifier(d).pass = passCommitment(d)
      BY DEF callNullifier
    <3>. QED BY <3>1, <3>2, <2>2
  <2>. QED BY <2>1, <2>2, <2>3, <1>3, <1>4, <1>5 DEF redeemCall_effect,
      Contract!Insert
<1>10. CASE d.circuit = "attestUsage"
  <2>1. attestUsage_effect(d)
    BY <1>1, <1>10 DEF Effect
  <2>2. c.circuit = "attestUsage" => auditTag(c) # auditTag(d)
    <3>1. passCommitment(c).tool = c.tool /\ passCommitment(d).tool = d.tool
      BY DEF passCommitment
    <3>2. auditTag(c).pass = passCommitment(c) /\ auditTag(d).pass = passCommitment(d)
      BY DEF auditTag
    <3>. QED BY <3>1, <3>2, <1>2, <1>10 DEF Races
  <2>. QED BY <2>1, <2>2, <1>5 DEF attestUsage_effect, Contract!Insert
<1>. QED BY <1>1, <1>6, <1>7, <1>8, <1>9, <1>10 DEF Calls, registerTools,
    setToolActives,
            issuePasses, redeemCalls, attestUsages

\* No step of the compiled contract refuses a proof but for a race.
LEMMA StepLosesOnlyRaces == IInv /\ [Next]_vars => [LosesOnlyRaces]_vars
<1>. SUFFICES ASSUME IInv, [Next]_vars, NEW a \in Clients, NEW b \in Clients,
                     inflight[a] # None, inflight'[a] = None,
                     inflight[b] # None, inflight'[b] = inflight[b],
                     applicable(inflight[b]), ~ Races(inflight[a].call, inflight[b].call)
              PROVE  applicable(inflight[b])'
  BY DEF LosesOnlyRaces
<1>0. inflight' # inflight
  OBVIOUS
<1>. PICK c, results : c = inflight[b].call /\ results = inflight[b].results
  OBVIOUS
<1>1. c \in Calls /\ Asserts(c, results) /\ results = Reads(c)
  BY DEF IInv, Proven, applicable
<1>2. ASSUME Reads(c)' = Reads(c) PROVE applicable(inflight[b])'
  BY <1>1, <1>2 DEF applicable
<1>3. ASSUME UNCHANGED ledger PROVE Reads(c)' = Reads(c)
  BY <1>3 DEF ledger, Reads, registerTool_reads, toolReads, redeemCall_reads,
     attestUsage_reads
<1>4. ASSUME NEW client \in Clients, NEW call \in Calls, Prove(client, call)
      PROVE  applicable(inflight[b])'
  BY <1>2, <1>3, <1>4 DEF Prove
<1>5. ASSUME NEW client \in Clients, Drop(client) PROVE applicable(inflight[b])'
  BY <1>2, <1>3, <1>5 DEF Drop
<1>6. ASSUME NEW client \in Clients, Apply(client) PROVE applicable(inflight[b])'
  <2>1. client = a
    BY <1>6 DEF Apply, IInv
  <2>. QED BY <2>1, <1>1, <1>2, <1>6, ApplyDisturbsRaces
<1>. QED BY <1>0, <1>4, <1>5, <1>6 DEF Next, vars

\* A transaction that settles leaves the others in flight applicable, unless
\* the two race for the same field, for any number of transactions in flight.
THEOREM OnlyRacesAreLost == Spec => OnlyRacesLose
BY InitIInv, StepIInv, StepLosesOnlyRaces, PTL DEF Spec, OnlyRacesLose
=============================================================================
