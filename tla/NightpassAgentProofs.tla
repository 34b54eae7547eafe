------------------------ MODULE NightpassAgentProofs ------------------------
(***************************************************************************)
(* Theorems about the live agent on top of the contract, for every number  *)
(* of visitors, requests, keys and quotas.                                 *)
(***************************************************************************)
EXTENDS NightpassAgent, NightpassProofs

(***************************************************************************)
(* The inductive invariant.  Requests carry consecutive numbers, so the    *)
(* number of those taken from the queue tells whose transactions can be    *)
(* about; one job runs at a time and what it uses is what its visitor      *)
(* holds; a transaction on its way belongs to a key that was drawn and can *)
(* only record a call its holder has counted or is about to.               *)
(***************************************************************************)
Taken == requested - Len(queue)
Drawn == {FreshKeys[i] : i \in 1 .. drawn}

AgentTypes ==
  /\ phase \in Phases
  /\ sessions \in [Visitors -> SUBSET VisitorPass]
  /\ queue \in Seq(Request)
  /\ running \subseteq Job
  /\ slot \subseteq Witnesses
  /\ mempool \subseteq Tx(1 .. MaxRequests)
  /\ requested \in 0 .. MaxRequests
  /\ drawn \in 0 .. Len(FreshKeys)

InOrder ==
  /\ Len(queue) <= requested
  /\ \A i \in 1 .. Len(queue) : queue[i].id = Taken + i
  /\ answered = 1 .. (IF running = {} THEN Taken ELSE Taken - 1)
  /\ landed \subseteq 1 .. Taken
  /\ \A x \in mempool : x.id <= Taken

OneJob ==
  /\ \A j, k \in running : j = k
  /\ \A j \in running :
       /\ j.id = Taken
       /\ j.stage = "armed" => /\ slot = {j.uses}
                               /\ j.id \notin landed
                               /\ \A x \in mempool : x.id # j.id

SessionsApart ==
  /\ \A v \in Visitors : \A p, q \in sessions[v] : p = q
  /\ \A v, w \in Visitors : \A p \in sessions[v], q \in sessions[w] :
       p.key = q.key => v = w
  /\ \A v \in Visitors : \A p \in sessions[v] : p.key \in Drawn

\* A purchase under way: nobody holds the key, and no call was made with it.
Buying(j) ==
  /\ j.uses.callsUsed = 0
  /\ j.uses.key \in Drawn
  /\ \A v \in Visitors : \A p \in sessions[v] : p.key # j.uses.key
  /\ \A n \in spentCalls : n.pass # PassOf(j.uses.key)
  /\ \A x \in mempool : x.pass = PassOf(j.uses.key) => x.action = "issuePass"
  /\ j.id \in landed => PassOf(j.uses.key) \in passCommitments

\* A call or an attestation under way: the visitor's pass as the session has it.
Using(j) ==
  /\ \E p \in sessions[j.visitor] :
       p.key = j.uses.key /\ p.callsUsed = j.uses.callsUsed
  /\ j.action = "redeemCall" =>
       /\ j.uses.callsUsed < DemoQuota
       /\ j.id \in landed =>
            callNullifier(PassOf(j.uses.key), j.uses.callsUsed) \in spentCalls

JobsTrue ==
  \A j \in running : IF j.action = "issuePass" THEN Buying(j) ELSE Using(j)

\* x is what job j sent.
SentBy(x, j) ==
  /\ x.action = j.action
  /\ x.pass = PassOf(j.uses.key)
  /\ x.action = "redeemCall" => x.calls = j.uses.callsUsed

TxTrue(x) ==
  /\ \E key \in Drawn : x.pass = PassOf(key)
  /\ x.action = "redeemCall" =>
       /\ x.calls < DemoQuota
       /\ \A v \in Visitors : \A p \in sessions[v] :
            x.pass = PassOf(p.key) => x.calls <= p.callsUsed
  /\ x.action = "attest" =>
       \A i \in 0 .. x.calls - 1 : callNullifier(x.pass, i) \in spentCalls
  /\ \A j \in running : x.id = j.id => SentBy(x, j)

TxsTrue == \A x \in mempool : TxTrue(x)

CallsAreOurs ==
  \A n \in spentCalls : \/ n.pass = PassOf(OutsideKey)
                        \/ /\ \E key \in Drawn : n.pass = PassOf(key)
                           /\ n.index < DemoQuota

\* CounterTracksChain, call by call.
Tracked ==
  \A v \in Visitors : \A p \in sessions[v] :
    /\ PassOf(p.key) \in passCommitments
    /\ \A i \in 0 .. p.callsUsed - 1 :
         callNullifier(PassOf(p.key), i) \in spentCalls
    /\ \A n \in spentCalls : n.pass = PassOf(p.key) => n.index <= p.callsUsed

JobParts  == AgentTypes /\ InOrder /\ OneJob
PassParts == SessionsApart /\ JobsTrue /\ TxsTrue /\ CallsAreOurs /\ Tracked
AgentIInv == IInv /\ JobParts /\ PassParts /\ AttestedCallsAreOnRecord

-----------------------------------------------------------------------------
(***************************************************************************)
(* The chain.                                                              *)
(***************************************************************************)
\* A pass determines the key behind it.
LEMMA PassOfKey ==
  /\ \A k, l : PassOf(k) = PassOf(l) => k = l
  /\ \A k \in Secrets \cap Nonces : PassOf(k) \in Pass
  BY AgentAssumption DEF PassOf, passCommitment, Pass

\* What a transaction of the agent changes on the ledger when it lands.
LEMMA LandingEffect ==
  ASSUME NEW x \in Tx(1 .. MaxRequests), Apply(x, Auditor)
  PROVE  /\ Next
         /\ spentCalls' = spentCalls \cup
              (IF x.action = "redeemCall" THEN {callNullifier(x.pass, x.calls)}
                                          ELSE {})
         /\ passCommitments' = passCommitments \cup
              (IF x.action = "issuePass" THEN {x.pass} ELSE {})
         /\ DOMAIN attestations' = DOMAIN attestations \cup
              (IF x.action = "attest" THEN {auditTag(Auditor, x.pass, x.calls)}
                                      ELSE {})
<1> DEFINE t == x.pass.tool
           sk == x.pass.sk
           nonce == x.pass.nonce
<1>1. /\ x.action \in Actions /\ x.pass \in Pass /\ x.calls \in 0 .. MaxUint
      /\ t \in Tools /\ sk \in Secrets /\ nonce \in Nonces
      /\ passCommitment(t, sk, nonce) = x.pass
  BY DEF Tx, Pass, passCommitment
<1>2. Auditor \in Auditors
  BY AgentAssumption
<1>3. CASE x.action = "issuePass"
  <2>1. issuePass(t, sk, nonce)
    BY <1>3 DEF Apply
  <2>2. Next
    BY <2>1, <1>1 DEF Next
  <2> QED
    BY <2>1, <2>2, <1>1, <1>3 DEF issuePass
<1>4. CASE x.action = "redeemCall"
  <2>1. redeemCall(t, sk, nonce, x.pass, x.calls)
    BY <1>4 DEF Apply
  <2>2. Next
    BY <2>1, <1>1 DEF Next
  <2> QED
    BY <2>1, <2>2, <1>1, <1>4 DEF redeemCall
<1>5. CASE x.action = "attest"
  <2>1. attestUsage(t, sk, nonce, x.pass, Auditor, x.calls)
    BY <1>5 DEF Apply
  <2>2. Next
    BY <2>1, <1>1, <1>2 DEF Next
  <2> QED
    BY <2>1, <2>2, <1>1, <1>5 DEF attestUsage, Insert
<1> QED
  BY <1>1, <1>3, <1>4, <1>5 DEF Actions

\* What others change: calls with the pass of their own.
LEMMA ElsewhereEffect ==
  ASSUME Elsewhere
  PROVE  /\ Next /\ UNCHANGED agentVars
         /\ spentCalls \subseteq spentCalls'
         /\ \A n \in spentCalls' : n \in spentCalls \/ n.pass = PassOf(OutsideKey)
         /\ passCommitments' = passCommitments
         /\ DOMAIN attestations' = DOMAIN attestations
<1>1. CASE \E active \in BOOLEAN : setToolActive(Tool, active, PublisherKey)
  <2>1. PICK active \in BOOLEAN : setToolActive(Tool, active, PublisherKey)
    BY <1>1
  <2>2. Next
    BY <2>1, AgentAssumption DEF Next
  <2> QED
    BY <2>1, <2>2 DEF setToolActive, Elsewhere
<1>2. CASE \E i \in 0 .. MaxUint :
             redeemCall(Tool, OutsideKey, OutsideKey, PassOf(OutsideKey), i)
  <2>1. PICK i \in 0 .. MaxUint :
          redeemCall(Tool, OutsideKey, OutsideKey, PassOf(OutsideKey), i)
    BY <1>2
  <2>2. Next
    BY <2>1, AgentAssumption, PassOfKey DEF Next
  <2> QED
    BY <2>1, <2>2 DEF redeemCall, Elsewhere, callNullifier, PassOf
<1> QED
  BY <1>1, <1>2 DEF Elsewhere

\* The ledger keeps its own invariant under every step of the agent.
LEMMA ContractStep == ASSUME IInv, [Next]_vars PROVE IInv' /\ [PermanentStep]_vars
  BY NextIInv, PermanentNext

-----------------------------------------------------------------------------
\* The tool is listed, one pass of somebody else's is in circulation and the
\* process has just started.
LEMMA AgentInitIInv == AgentInit => AgentIInv
<1> SUFFICES ASSUME AgentInit PROVE AgentIInv
  OBVIOUS
<1>1. PICK price \in Prices, quota \in Quotas \ {0} :
        tools = [t \in {Tool} |->
                   [publisherCommitment |-> publisherCommitment(PublisherKey),
                    priceAtomic |-> price, quota |-> quota, active |-> TRUE]]
  BY DEF AgentInit
<1>2. TypeOK
  <2>1. tools \in [{Tool} -> ToolRecord]
    BY <1>1, AgentAssumption, BoundsAssumption
    DEF ToolRecord, Publisher, publisherCommitment
  <2>2. callsServed \in [{Tool} -> 0 .. MaxUint] /\ passesIssued \in 0 .. TreeCapacity
    BY AgentAssumption, BoundsAssumption DEF AgentInit
  <2>3. passCommitments \subseteq Pass
    BY PassOfKey, AgentAssumption DEF AgentInit
  <2> QED
    BY <2>1, <2>2, <2>3, AgentAssumption DEF AgentInit, TypeOK
<1>3. IInv
  <2>1. PassesAreForTools
    BY <1>1 DEF AgentInit, PassesAreForTools, PassOf, passCommitment
  <2>2. Counted
    <3>1. IsFiniteSet(passCommitments) /\ Cardinality(passCommitments) = 1
      BY FS_Singleton DEF AgentInit
    <3> QED
      BY <3>1, FS_EmptySet DEF AgentInit, Counted
  <2>3. SpentCallsAreEntitled /\ AttestationsAreBacked
    BY DEF AgentInit, SpentCallsAreEntitled, AttestationsAreBacked
  <2>4. ReputationIsExact
    BY <1>1, FS_EmptySet DEF AgentInit, ReputationIsExact, CallsTo
  <2> QED
    BY <1>2, <2>1, <2>2, <2>3, <2>4 DEF IInv
<1>4. JobParts
  BY AgentAssumption
  DEF AgentInit, JobParts, AgentTypes, InOrder, OneJob, Phases, Taken
<1>5. PassParts /\ AttestedCallsAreOnRecord
  BY DEF AgentInit, PassParts, SessionsApart, JobsTrue, TxsTrue, CallsAreOurs,
         Tracked, AttestedCallsAreOnRecord
<1> QED
  BY <1>3, <1>4, <1>5 DEF AgentIInv

-----------------------------------------------------------------------------
(***************************************************************************)
(* Steps that send nothing.                                                *)
(***************************************************************************)
LEMMA BootStep == ASSUME AgentIInv, Boot PROVE AgentIInv'
<1>1. /\ phase' \in {"ready", "error"}
      /\ UNCHANGED <<vars, sessions, queue, running, slot, mempool, landed,
                     requested, drawn, answered>>
  BY DEF Boot
<1>2. IInv'
  BY <1>1, ContractStep DEF AgentIInv
<1>3. JobParts'
  BY <1>1 DEF AgentIInv, JobParts, AgentTypes, InOrder, OneJob, Phases, Taken
<1>4. PassParts' /\ AttestedCallsAreOnRecord'
  BY <1>1 DEF vars, AgentIInv, PassParts, SessionsApart, JobsTrue, Buying, Using,
     TxsTrue, TxTrue, SentBy, CallsAreOurs, Tracked, Drawn,
     AttestedCallsAreOnRecord
<1> QED
  BY <1>2, <1>3, <1>4 DEF AgentIInv

\* What is said of passes depends on neither the queue nor the answers.
LEMMA PassPartsKept ==
  ASSUME PassParts, AttestedCallsAreOnRecord,
         UNCHANGED <<vars, sessions, running, mempool, landed, drawn>>
  PROVE  PassParts' /\ AttestedCallsAreOnRecord'
  BY DEF vars, PassParts, SessionsApart, JobsTrue, Buying, Using, TxsTrue, TxTrue,
     SentBy, CallsAreOurs, Tracked, Drawn, AttestedCallsAreOnRecord

LEMMA EnqueueStep ==
  ASSUME AgentIInv, NEW v \in Visitors, NEW a \in Actions, Enqueue(v, a)
  PROVE  AgentIInv'
<1> DEFINE r == [id |-> requested + 1, visitor |-> v, action |-> a]
<1>1. /\ requested < MaxRequests
      /\ requested' = requested + 1
      /\ queue' = Append(queue, r)
      /\ UNCHANGED <<vars, phase, sessions, running, slot, mempool, landed, drawn,
                     answered>>
  BY DEF Enqueue
<1>2. AgentTypes
  BY DEF AgentIInv, JobParts
<1>3. r \in Request /\ requested \in Nat
  BY <1>1, <1>2, AgentAssumption DEF AgentTypes, Request
<1> HIDE DEF r
<1>4. AgentTypes'
  BY <1>1, <1>2, <1>3, AgentAssumption DEF AgentTypes
<1>5. /\ Len(queue') = Len(queue) + 1
      /\ Taken' = Taken
      /\ Taken \in Int /\ Len(queue) \in Nat
      /\ \A i \in 1 .. Len(queue) : queue'[i] = queue[i]
      /\ queue'[Len(queue) + 1] = r
  BY <1>1, <1>2, <1>3 DEF AgentTypes, Taken
<1>6. InOrder'
  <2>1. InOrder
    BY DEF AgentIInv, JobParts
  <2>2. r.id = Taken + (Len(queue) + 1)
    BY <1>2, <1>3 DEF r, Taken, AgentTypes
  <2>a. \A i \in 1 .. Len(queue) : queue[i].id = Taken + i
    BY <2>1 DEF InOrder
  <2>b. \A i \in 1 .. Len(queue) : queue'[i].id = Taken + i
    BY <2>a, <1>5
  <2>c. \A i \in 1 .. Len(queue') : i \in 1 .. Len(queue) \/ i = Len(queue) + 1
    BY <1>5
  <2>3. \A i \in 1 .. Len(queue') : queue'[i].id = Taken' + i
    <3>. SUFFICES ASSUME NEW i \in 1 .. Len(queue')  PROVE queue'[i].id = Taken + i
      BY <1>5
    <3>1. CASE i \in 1 .. Len(queue)
      BY <3>1, <2>b
    <3>2. CASE i = Len(queue) + 1
      BY <3>2, <2>2, <1>5
    <3>. QED BY <3>1, <3>2, <2>c
  <2>4. Len(queue') <= requested'
    BY <2>1, <1>1, <1>3, <1>5 DEF InOrder
  <2> QED
    BY <2>1, <2>3, <2>4, <1>1, <1>5 DEF InOrder
<1>7. OneJob'
  BY <1>1, <1>5 DEF AgentIInv, JobParts, OneJob
<1>8. IInv' /\ PassParts' /\ AttestedCallsAreOnRecord'
  BY <1>1, ContractStep, PassPartsKept DEF AgentIInv
<1> QED
  BY <1>4, <1>6, <1>7, <1>8 DEF AgentIInv, JobParts

\* The head of the queue is the next request.
LEMMA TakeHead ==
  ASSUME JobParts, queue # <<>>, queue' = Tail(queue), requested' = requested
  PROVE  /\ Head(queue) \in Request
         /\ Head(queue).id = Taken + 1
         /\ queue' \in Seq(Request)
         /\ Taken' = Taken + 1 /\ Taken \in Nat
         /\ Len(queue') <= requested'
         /\ \A i \in 1 .. Len(queue') : queue'[i].id = Taken' + i
<1>1. queue \in Seq(Request) /\ requested \in Nat /\ Len(queue) <= requested
  BY DEF JobParts, AgentTypes, InOrder
<1>2. Len(queue) \in Nat /\ Len(queue) > 0 /\ Head(queue) = queue[1]
      /\ queue[1] \in Request
  BY <1>1
<1>3. /\ Tail(queue) \in Seq(Request) /\ Len(Tail(queue)) = Len(queue) - 1
      /\ \A i \in 1 .. Len(Tail(queue)) : Tail(queue)[i] = queue[i + 1]
  BY <1>1, <1>2
<1>4. Taken' = Taken + 1 /\ Taken \in Nat
  BY <1>1, <1>2, <1>3 DEF Taken
<1>5. \A i \in 1 .. Len(queue) : queue[i].id = Taken + i
  BY DEF JobParts, InOrder
<1>6. queue[1].id = Taken + 1
  BY <1>2, <1>5
<1>7. ASSUME NEW i \in 1 .. Len(queue')
      PROVE  queue'[i].id = Taken' + i
  <2>1. queue'[i] = queue[i + 1] /\ i + 1 \in 1 .. Len(queue)
    BY <1>2, <1>3
  <2> QED
    BY <2>1, <1>4, <1>5
<1>8. queue' \in Seq(Request) /\ Head(queue) \in Request /\ Head(queue).id = Taken + 1
  BY <1>2, <1>3, <1>6
<1>9. Len(queue') <= requested'
  BY <1>1, <1>2, <1>3
<1> QED
  BY <1>4, <1>7, <1>8, <1>9

LEMMA RefuseStep == ASSUME AgentIInv, RefuseJob PROVE AgentIInv'
<1>1. /\ running = {} /\ queue # <<>> /\ queue' = Tail(queue)
      /\ answered' = answered \cup {Head(queue).id}
      /\ UNCHANGED <<vars, phase, sessions, running, slot, mempool, landed,
                     requested, drawn>>
  BY DEF RefuseJob, mayStart
<1>2. JobParts
  BY DEF AgentIInv
<1>3. /\ Head(queue).id = Taken + 1 /\ queue' \in Seq(Request)
      /\ Taken' = Taken + 1 /\ Taken \in Nat
      /\ Len(queue') <= requested'
      /\ \A i \in 1 .. Len(queue') : queue'[i].id = Taken' + i
  BY <1>1, <1>2, TakeHead
<1>4. AgentTypes'
  BY <1>1, <1>2, <1>3 DEF JobParts, AgentTypes
<1>5. InOrder'
  <2>1. answered = 1 .. Taken /\ landed \subseteq 1 .. Taken
        /\ \A x \in mempool : x.id <= Taken
    BY <1>1, <1>2 DEF JobParts, InOrder
  <2>2. answered' = 1 .. Taken + 1
    BY <2>1, <1>1, <1>3
  <2>3. \A x \in mempool : x.id \in Nat
    BY <1>2, AgentAssumption DEF JobParts, AgentTypes, Tx
  <2> QED
    BY <2>1, <2>2, <2>3, <1>1, <1>3 DEF InOrder
<1>6. OneJob'
  BY <1>1 DEF OneJob
<1>7. IInv' /\ PassParts' /\ AttestedCallsAreOnRecord'
  BY <1>1, ContractStep, PassPartsKept DEF AgentIInv
<1> QED
  BY <1>4, <1>5, <1>6, <1>7 DEF AgentIInv, JobParts

-----------------------------------------------------------------------------
(***************************************************************************)
(* Steps of a job.                                                         *)
(***************************************************************************)
\* A key that was not drawn is nobody's yet.
LEMMA FreshKey ==
  ASSUME AgentIInv, drawn + 1 \in DOMAIN FreshKeys
  PROVE  LET k == FreshKeys[drawn + 1]
         IN  /\ k \in Secrets \cap Nonces
             /\ k \notin Drawn
             /\ \A v \in Visitors : \A p \in sessions[v] : p.key # k
             /\ \A n \in spentCalls : n.pass # PassOf(k)
             /\ \A x \in mempool : x.pass # PassOf(k)
<1> DEFINE k == FreshKeys[drawn + 1]
<1>1. drawn \in Nat /\ drawn <= Len(FreshKeys)
  BY AgentAssumption DEF AgentIInv, JobParts, AgentTypes
<1>2. k \in Secrets \cap Nonces /\ k # OutsideKey
  BY AgentAssumption
<1>3. k \notin Drawn
  BY <1>1, AgentAssumption DEF Drawn
<1>4. \A v \in Visitors : \A p \in sessions[v] : p.key # k
  BY <1>3 DEF AgentIInv, PassParts, SessionsApart
<1>5. \A n \in spentCalls : n.pass # PassOf(k)
  BY <1>2, <1>3, PassOfKey DEF AgentIInv, PassParts, CallsAreOurs
<1>6. \A x \in mempool : x.pass # PassOf(k)
  BY <1>3, PassOfKey DEF AgentIInv, PassParts, TxsTrue, TxTrue
<1> QED
  BY <1>2, <1>3, <1>4, <1>5, <1>6

LEMMA StartStep == ASSUME AgentIInv, StartJob PROVE AgentIInv'
<1> DEFINE r == Head(queue)
           buys == r.action = "issuePass"
<1>1. /\ running = {} /\ queue # <<>> /\ accepted(r)
      /\ queue' = Tail(queue)
      /\ UNCHANGED <<vars, phase, sessions, mempool, landed, requested, answered>>
  BY DEF StartJob, mayStart
<1>2. PICK w \in IF buys
                 THEN {[key |-> FreshKeys[i], callsUsed |-> 0] :
                         i \in {drawn + 1} \cap DOMAIN FreshKeys}
                 ELSE {[key |-> p.key, callsUsed |-> p.callsUsed] :
                         p \in sessions[r.visitor]} :
        /\ slot' = {w}
        /\ drawn' = IF buys THEN drawn + 1 ELSE drawn
        /\ running' = running \cup
             {[id |-> r.id, visitor |-> r.visitor, action |-> r.action,
               stage |-> "armed", uses |-> w]}
  BY DEF StartJob
<1>0. PICK j : j = [id |-> r.id, visitor |-> r.visitor, action |-> r.action,
                    stage |-> "armed", uses |-> w]
  OBVIOUS
<1>3. /\ JobParts /\ AgentTypes /\ InOrder
      /\ SessionsApart /\ TxsTrue /\ CallsAreOurs /\ Tracked
  BY DEF AgentIInv, JobParts, PassParts
<1>4. /\ r \in Request
      /\ r.id = Taken + 1 /\ queue' \in Seq(Request)
      /\ Taken' = Taken + 1 /\ Taken \in Nat
      /\ Len(queue') <= requested'
      /\ \A i \in 1 .. Len(queue') : queue'[i].id = Taken' + i
  BY <1>1, <1>3, TakeHead
<1>5. running' = {j} /\ slot' = {j.uses} /\ j.uses = w /\ j.id = Taken'
      /\ j.stage = "armed" /\ j.action = r.action /\ j.visitor = r.visitor
  BY <1>0, <1>1, <1>2, <1>4
<1>6. w \in Witnesses /\ drawn' \in 0 .. Len(FreshKeys)
  <2>1. CASE buys
    BY <2>1, <1>2, <1>3, AgentAssumption DEF AgentTypes, Witnesses
  <2>2. CASE ~buys
    <3>1. PICK p \in sessions[r.visitor] :
            w = [key |-> p.key, callsUsed |-> p.callsUsed]
      BY <2>2, <1>2
    <3>2. p \in VisitorPass
      BY <1>3, <1>4 DEF AgentTypes, Request
    <3> QED
      BY <2>2, <3>1, <3>2, <1>2, <1>3 DEF AgentTypes, Witnesses, VisitorPass
  <2> QED
    BY <2>1, <2>2
<1>7. Drawn \subseteq Drawn'
  BY <1>2, <1>3 DEF Drawn, AgentTypes
<1>8. j \in Job
  BY <1>0, <1>4, <1>6 DEF Job, Request
<1>9. AgentTypes'
  BY <1>1, <1>3, <1>4, <1>5, <1>6, <1>8 DEF AgentTypes
<1>10. \A x \in mempool : x.id \in Nat /\ x.id <= Taken
  BY <1>3, AgentAssumption DEF AgentTypes, InOrder, Tx
<1>11. InOrder'
  <2>1. answered' = 1 .. Taken' - 1
    BY <1>1, <1>3, <1>4 DEF InOrder
  <2>2. landed' \subseteq 1 .. Taken'
    BY <1>1, <1>3, <1>4 DEF InOrder
  <2>3. \A x \in mempool' : x.id <= Taken'
    BY <1>1, <1>4, <1>10
  <2>4. running' # {}
    BY <1>5
  <2> QED
    BY <2>1, <2>2, <2>3, <2>4, <1>4 DEF InOrder
<1>12. OneJob'
  <2>1. j.id \notin landed'
    BY <1>1, <1>3, <1>4, <1>5 DEF InOrder
  <2>2. \A x \in mempool' : x.id # j.id
    BY <1>1, <1>4, <1>5, <1>10
  <2> QED
    BY <2>1, <2>2, <1>5 DEF OneJob
<1>13. JobsTrue'
  <2>1. CASE buys
    <3>1. drawn + 1 \in DOMAIN FreshKeys
          /\ w = [key |-> FreshKeys[drawn + 1], callsUsed |-> 0]
      BY <2>1, <1>2
    <3>2. w.key \in Drawn'
      BY <3>1, <2>1, <1>2, <1>3 DEF Drawn, AgentTypes
    <3>3. j.id \notin landed'
      BY <1>5, <1>12 DEF OneJob
    <3>4. Buying(j)'
      BY <3>1, <3>2, <3>3, <1>1, <1>5, FreshKey DEF Buying, vars
    <3> QED
      BY <3>4, <2>1, <1>5 DEF JobsTrue
  <2>2. CASE ~buys
    <3>1. PICK p \in sessions[r.visitor] :
            w = [key |-> p.key, callsUsed |-> p.callsUsed]
      BY <2>2, <1>2
    <3>2. r.action = "redeemCall" => p.callsUsed < DemoQuota
      BY <1>1, <1>3, <1>4, <3>1
      DEF accepted, callsLeft, AgentTypes, VisitorPass, SessionsApart, Request
    <3>3. j.id \notin landed'
      BY <1>5, <1>12 DEF OneJob
    <3>4. Using(j)'
      BY <3>1, <3>2, <3>3, <1>1, <1>5 DEF Using
    <3> QED
      BY <3>4, <2>2, <1>5 DEF JobsTrue
  <2> QED
    BY <2>1, <2>2
<1>14. SessionsApart' /\ CallsAreOurs' /\ Tracked'
  BY <1>1, <1>3, <1>7 DEF vars, SessionsApart, CallsAreOurs, Tracked
<1>15. TxsTrue'
  <2> SUFFICES ASSUME NEW x \in mempool PROVE TxTrue(x)'
    BY <1>1 DEF TxsTrue
  <2>1. TxTrue(x)
    BY <1>3 DEF TxsTrue
  <2>2. \A k \in running' : x.id # k.id
    BY <1>1, <1>5, <1>12 DEF OneJob
  <2> QED
    BY <2>1, <2>2, <1>1, <1>7 DEF TxTrue, vars
<1>16. IInv' /\ AttestedCallsAreOnRecord'
  BY <1>1, ContractStep DEF AgentIInv, AttestedCallsAreOnRecord, vars
<1> QED
  BY <1>9, <1>11, <1>12, <1>13, <1>14, <1>15, <1>16 DEF AgentIInv, JobParts, PassParts

\* The one transaction a job sends is about the pass of its own visitor.
LEMMA ProveStep ==
  ASSUME AgentIInv, NEW j \in running, Prove(j)
  PROVE  AgentIInv'
<1>0. j.stage = "armed"
  BY DEF Prove
<1>1. PICK w \in slot :
        LET c     == PassOf(w.key)
            calls == IF j.action = "attest" THEN claimed(j) ELSE w.callsUsed
        IN  /\ circuitHolds(j.action, c, Auditor, calls)
            /\ mempool' = mempool \cup {proven(j.id, j.action, c, calls)}
  BY DEF Prove
<1>2. /\ running' = (running \ {j}) \cup {[j EXCEPT !.stage = "submitted"]}
      /\ UNCHANGED <<vars, phase, sessions, queue, slot, landed, requested, drawn,
                     answered>>
  BY DEF Prove
<1>3. /\ JobParts /\ AgentTypes /\ InOrder /\ OneJob /\ TypeOK
      /\ SessionsApart /\ JobsTrue /\ TxsTrue /\ CallsAreOurs /\ Tracked
  BY DEF AgentIInv, JobParts, PassParts, IInv
<1>4. /\ j \in Job /\ running = {j} /\ j.id = Taken /\ w = j.uses
      /\ j.uses \in Witnesses /\ j.action \in Actions
  BY <1>0, <1>3 DEF AgentTypes, OneJob, Job
<1>5. PICK k : k = [j EXCEPT !.stage = "submitted"]
  OBVIOUS
<1>6. /\ running' = {k} /\ k \in Job /\ k.id = j.id /\ k.uses = j.uses
      /\ k.action = j.action /\ k.visitor = j.visitor /\ k.stage = "submitted"
  BY <1>2, <1>4, <1>5 DEF Job
<1>7. PICK x : x = proven(j.id, j.action, PassOf(j.uses.key), j.uses.callsUsed)
  OBVIOUS
<1>8. /\ mempool' = mempool \cup {x}
      /\ circuitHolds(j.action, PassOf(j.uses.key), Auditor, j.uses.callsUsed)
  BY <1>1, <1>4, <1>7 DEF claimed
<1>9. /\ x.id = j.id /\ x.action = j.action /\ x.pass = PassOf(j.uses.key)
      /\ x.calls = j.uses.callsUsed
  BY <1>7 DEF proven
<1>10. /\ j.uses.key \in Secrets \cap Nonces
       /\ j.uses.callsUsed \in 0 .. DemoQuota
       /\ \E key \in Drawn : x.pass = PassOf(key)
  <2>1. CASE j.action = "issuePass"
    <3>1. j.uses.key \in Drawn
      BY <2>1, <1>3 DEF JobsTrue, Buying
    <3>2. Drawn \subseteq Secrets \cap Nonces
      BY <1>3, AgentAssumption DEF Drawn, AgentTypes
    <3> QED
      BY <3>1, <3>2, <1>4, <1>9 DEF Witnesses
  <2>2. CASE j.action # "issuePass"
    <3>1. PICK p \in sessions[j.visitor] : p.key = j.uses.key
      BY <2>2, <1>3 DEF JobsTrue, Using
    <3>2. p \in VisitorPass /\ p.key \in Drawn
      BY <1>3, <1>4 DEF AgentTypes, SessionsApart, Job
    <3> QED
      BY <3>1, <3>2, <1>4, <1>9 DEF Witnesses, VisitorPass
  <2> QED
    BY <2>1, <2>2
<1>11. x \in Tx(1 .. MaxRequests)
  <2>1. x.pass \in Pass /\ x.pass.tool = Tool
    BY <1>9, <1>10, PassOfKey DEF PassOf, passCommitment
  <2>2. Tool \in DOMAIN tools
    BY <1>8 DEF circuitHolds, PassOf, passCommitment
  <2>3. tools[Tool] \in ToolRecord /\ callsServed[Tool] \in 0 .. MaxUint
    BY <2>2, <1>3 DEF TypeOK
  <2>4. j.uses.callsUsed \in 0 .. MaxUint
    BY <1>10, AgentAssumption, BoundsAssumption
  <2>5. x = [id |-> j.id, action |-> j.action, pass |-> PassOf(j.uses.key),
             calls |-> j.uses.callsUsed, record |-> tools[Tool],
             served |-> callsServed[Tool]]
    BY <1>7 DEF proven, PassOf, passCommitment
  <2> QED
    BY <2>1, <2>3, <2>4, <2>5, <1>4, <1>9 DEF Tx, Job
<1>12. AgentTypes'
  BY <1>2, <1>3, <1>6, <1>8, <1>11 DEF AgentTypes
<1>13. Taken' = Taken /\ Drawn' = Drawn
  BY <1>2 DEF Taken, Drawn
<1>14. InOrder'
  <2>1. running # {} /\ running' # {}
    BY <1>4, <1>6
  <2>2. \A y \in mempool' : y.id <= Taken
    <3>1. Taken \in Int
      BY <1>3, AgentAssumption DEF Taken, AgentTypes
    <3> QED
      BY <3>1, <1>3, <1>4, <1>8, <1>9 DEF InOrder
  <2> QED
    BY <2>1, <2>2, <1>2, <1>3, <1>13 DEF InOrder
<1>15. OneJob'
  BY <1>4, <1>6, <1>13 DEF OneJob
<1>16. JobsTrue'
  <2>1. CASE j.action = "issuePass"
    <3>1. Buying(j)
      BY <2>1, <1>3 DEF JobsTrue
    <3>2. Buying(k)'
      BY <2>1, <3>1, <1>2, <1>6, <1>8, <1>9, <1>13 DEF Buying, vars
    <3> QED
      BY <2>1, <3>2, <1>6 DEF JobsTrue
  <2>2. CASE j.action # "issuePass"
    <3>1. Using(j)
      BY <2>2, <1>3 DEF JobsTrue
    <3>2. Using(k)'
      BY <3>1, <1>2, <1>6 DEF Using, vars
    <3> QED
      BY <2>2, <3>2, <1>6 DEF JobsTrue
  <2> QED
    BY <2>1, <2>2
<1>17. TxTrue(x)'
  <2>1. x.action = "redeemCall" =>
          \A v \in Visitors : \A p \in sessions[v] :
            x.pass = PassOf(p.key) => x.calls <= p.callsUsed
    <3> SUFFICES ASSUME x.action = "redeemCall",
                        NEW v \in Visitors, NEW p \in sessions[v],
                        x.pass = PassOf(p.key)
                 PROVE  x.calls <= p.callsUsed
      OBVIOUS
    <3>1. PICK q \in sessions[j.visitor] :
            q.key = j.uses.key /\ q.callsUsed = j.uses.callsUsed
      BY <1>3, <1>9 DEF JobsTrue, Using
    <3>2. p.key = q.key
      BY <3>1, <1>9, PassOfKey
    <3>3. v = j.visitor /\ j.visitor \in Visitors
      BY <3>1, <3>2, <1>3, <1>4 DEF SessionsApart, Job
    <3>4. p = q
      BY <3>1, <3>3, <1>3 DEF SessionsApart
    <3> QED
      BY <3>1, <3>4, <1>9, <1>10
  <2>2. x.action = "attest" =>
          \A i \in 0 .. x.calls - 1 : callNullifier(x.pass, i) \in spentCalls
    <3> SUFFICES ASSUME x.action = "attest"
                 PROVE  \A i \in 0 .. x.calls - 1 :
                          callNullifier(x.pass, i) \in spentCalls
      OBVIOUS
    <3>1. PICK q \in sessions[j.visitor] :
            q.key = j.uses.key /\ q.callsUsed = j.uses.callsUsed
      BY <1>3, <1>9 DEF JobsTrue, Using
    <3> QED
      BY <3>1, <1>3, <1>4, <1>9 DEF Tracked, Job
  <2>3. \A i \in running' : x.id = i.id => SentBy(x, i)
    BY <1>6, <1>9 DEF SentBy
  <2>4. x.action = "redeemCall" => x.calls < DemoQuota
    BY <1>3, <1>9 DEF JobsTrue, Using
  <2> QED
    BY <2>1, <2>2, <2>3, <2>4, <1>2, <1>10, <1>13 DEF TxTrue, vars
<1>18. TxsTrue'
  <2> SUFFICES ASSUME NEW y \in mempool PROVE TxTrue(y)'
    BY <1>8, <1>17 DEF TxsTrue
  <2>1. TxTrue(y)
    BY <1>3 DEF TxsTrue
  <2>2. \A i \in running' : y.id # i.id
    BY <1>0, <1>3, <1>6 DEF OneJob
  <2> QED
    BY <2>1, <2>2, <1>2, <1>13 DEF TxTrue, vars
<1>19. SessionsApart' /\ CallsAreOurs' /\ Tracked'
  BY <1>2, <1>3, <1>13 DEF vars, SessionsApart, CallsAreOurs, Tracked
<1>20. IInv' /\ AttestedCallsAreOnRecord'
  BY <1>2, ContractStep DEF AgentIInv, AttestedCallsAreOnRecord, vars
<1> QED
  BY <1>12, <1>14, <1>15, <1>16, <1>18, <1>19, <1>20
  DEF AgentIInv, JobParts, PassParts

\* A job that ends leaves the order of the requests and the types as they were.
LEMMA JobEnds ==
  ASSUME JobParts, NEW j \in running, running' = running \ {j},
         answered' = answered \cup {j.id},
         sessions' \in [Visitors -> SUBSET VisitorPass],
         UNCHANGED <<phase, queue, slot, mempool, landed, requested, drawn>>
  PROVE  JobParts' /\ running' = {} /\ Drawn' = Drawn
<1>1. AgentTypes /\ InOrder /\ OneJob
  BY DEF JobParts
<1>2. running = {j} /\ running' = {} /\ j.id = Taken /\ j \in Job
  BY <1>1 DEF OneJob, AgentTypes
<1>3. Taken' = Taken /\ Drawn' = Drawn
  BY DEF Taken, Drawn
<1>4. Taken \in Nat /\ Taken >= 1
  <2>1. Taken \in Int
    BY <1>1, AgentAssumption DEF Taken, AgentTypes
  <2>2. j.id >= 1
    BY <1>2, AgentAssumption DEF Job
  <2> QED
    BY <2>1, <2>2, <1>2
<1>5. answered' = 1 .. Taken
  <2>1. answered = 1 .. Taken - 1
    BY <1>1, <1>2 DEF InOrder
  <2> QED
    BY <2>1, <1>2, <1>4
<1>6. AgentTypes'
  BY <1>1, <1>2 DEF AgentTypes
<1>7. InOrder' /\ OneJob'
  BY <1>1, <1>2, <1>3, <1>5 DEF InOrder, OneJob
<1> QED
  BY <1>2, <1>3, <1>6, <1>7 DEF JobParts

LEMMA FailStep ==
  ASSUME AgentIInv, NEW j \in running, JobFails(j)
  PROVE  AgentIInv'
<1>1. /\ running' = running \ {j} /\ answered' = answered \cup {j.id}
      /\ UNCHANGED <<vars, phase, sessions, queue, slot, mempool, landed,
                     requested, drawn>>
  BY DEF JobFails
<1>2. JobParts' /\ running' = {} /\ Drawn' = Drawn
  <2>1. sessions' \in [Visitors -> SUBSET VisitorPass]
    BY <1>1 DEF AgentIInv, JobParts, AgentTypes
  <2> QED
    BY <2>1, <1>1, JobEnds DEF AgentIInv
<1>3. PassParts' /\ AttestedCallsAreOnRecord'
  BY <1>1, <1>2 DEF vars, AgentIInv, PassParts, SessionsApart, JobsTrue, TxsTrue,
     TxTrue, CallsAreOurs, Tracked, AttestedCallsAreOnRecord
<1>4. IInv'
  BY <1>1, ContractStep DEF AgentIInv
<1> QED
  BY <1>2, <1>3, <1>4 DEF AgentIInv

\* The answer arrives: a purchase is held from now on, a call is counted, and
\* both are on the ledger.
LEMMA SuccessStep ==
  ASSUME AgentIInv, NEW j \in running, JobSucceeds(j)
  PROVE  AgentIInv'
<1>1. /\ j.id \in landed
      /\ sessions' = [sessions EXCEPT ![j.visitor] =
           CASE j.action = "issuePass" ->
                  {[key |-> j.uses.key, callsUsed |-> 0, quota |-> DemoQuota]}
             [] j.action = "redeemCall" ->
                  {[p EXCEPT !.callsUsed = @ + 1] : p \in @}
             [] OTHER -> @]
      /\ running' = running \ {j} /\ answered' = answered \cup {j.id}
      /\ UNCHANGED <<vars, phase, queue, slot, mempool, landed, requested, drawn>>
  BY DEF JobSucceeds, final
<1>2. /\ JobParts /\ AgentTypes
      /\ SessionsApart /\ JobsTrue /\ TxsTrue /\ CallsAreOurs /\ Tracked
  BY DEF AgentIInv, JobParts, PassParts
<1>3. /\ j \in Job /\ j.visitor \in Visitors /\ j.action \in Actions
      /\ sessions \in [Visitors -> SUBSET VisitorPass]
  BY <1>2 DEF AgentTypes, Job
<1>4. IInv' /\ AttestedCallsAreOnRecord'
  BY <1>1, ContractStep DEF AgentIInv, AttestedCallsAreOnRecord, vars
<1>5. Drawn' = Drawn
  BY <1>1 DEF Drawn
<1>6. CASE j.action = "issuePass"
  <2>1. PICK np : np = [key |-> j.uses.key, callsUsed |-> 0, quota |-> DemoQuota]
    OBVIOUS
  <2>2. sessions' = [sessions EXCEPT ![j.visitor] = {np}]
    BY <2>1, <1>1, <1>6
  <2>3. Buying(j) /\ np.key = j.uses.key /\ np.callsUsed = 0
    BY <2>1, <1>2, <1>6 DEF JobsTrue
  <2>4. np \in VisitorPass
    <3>1. j.uses.key \in Secrets \cap Nonces
      BY <2>3, <1>2, AgentAssumption DEF Buying, Drawn, AgentTypes
    <3> QED
      BY <3>1, <2>1, AgentAssumption DEF VisitorPass
  <2>5. sessions' \in [Visitors -> SUBSET VisitorPass]
    BY <2>2, <2>4, <1>3
  <2>6. \A v \in Visitors : \A p \in sessions'[v] :
          (v = j.visitor /\ p = np) \/ (v # j.visitor /\ p \in sessions[v])
    BY <2>2, <1>3
  <2>7. SessionsApart'
    BY <2>3, <2>6, <1>2, <1>5 DEF SessionsApart, Buying
  <2>8. Tracked'
    <3> SUFFICES ASSUME NEW v \in Visitors, NEW p \in sessions'[v]
                 PROVE  /\ PassOf(p.key) \in passCommitments
                        /\ \A i \in 0 .. p.callsUsed - 1 :
                             callNullifier(PassOf(p.key), i) \in spentCalls
                        /\ \A n \in spentCalls :
                             n.pass = PassOf(p.key) => n.index <= p.callsUsed
      BY <1>1 DEF Tracked, vars
    <3>1. CASE p = np
      BY <3>1, <2>3, <1>1 DEF Buying
    <3>2. CASE p \in sessions[v]
      BY <3>2, <1>2 DEF Tracked
    <3> QED
      BY <3>1, <3>2, <2>6
  <2>9. TxsTrue'
    <3> SUFFICES ASSUME NEW x \in mempool PROVE TxTrue(x)'
      BY <1>1 DEF TxsTrue
    <3>1. TxTrue(x) /\ (x.pass = PassOf(np.key) => x.action = "issuePass")
      BY <2>3, <1>2 DEF TxsTrue, Buying
    <3>2. x.action = "redeemCall" =>
            \A v \in Visitors : \A p \in sessions'[v] :
              x.pass = PassOf(p.key) => x.calls <= p.callsUsed
      BY <3>1, <2>6 DEF TxTrue
    <3> QED
      BY <3>1, <3>2, <1>1, <1>5 DEF TxTrue, vars
  <2>10. JobParts' /\ running' = {}
    BY <2>5, <1>1, <1>2, JobEnds
  <2>11. JobsTrue' /\ CallsAreOurs'
    BY <2>10, <1>1, <1>2, <1>5 DEF JobsTrue, CallsAreOurs, vars
  <2> QED
    BY <2>7, <2>8, <2>9, <2>10, <2>11, <1>4 DEF AgentIInv, PassParts
<1>7. CASE j.action = "redeemCall"
  <2>1. Using(j)
    BY <1>2, <1>7 DEF JobsTrue
  <2>2. PICK q \in sessions[j.visitor] :
          q.key = j.uses.key /\ q.callsUsed = j.uses.callsUsed
    BY <2>1 DEF Using
  <2>3. PICK np : np = [q EXCEPT !.callsUsed = @ + 1]
    OBVIOUS
  <2>4. q \in VisitorPass /\ sessions[j.visitor] = {q}
    BY <2>2, <1>2, <1>3 DEF SessionsApart
  <2>5. /\ np \in VisitorPass /\ np.key = q.key
        /\ np.callsUsed = q.callsUsed + 1 /\ q.callsUsed \in Nat
    <3>1. q.callsUsed < DemoQuota
      BY <2>1, <2>2, <1>7 DEF Using
    <3> QED
      BY <3>1, <2>3, <2>4, AgentAssumption DEF VisitorPass
  <2>6. sessions' = [sessions EXCEPT ![j.visitor] = {np}]
    BY <2>3, <2>4, <1>1, <1>3, <1>7
  <2>7. sessions' \in [Visitors -> SUBSET VisitorPass]
    BY <2>5, <2>6, <1>3
  <2>8. \A v \in Visitors : \A p \in sessions'[v] :
          (v = j.visitor /\ p = np) \/ (v # j.visitor /\ p \in sessions[v])
    BY <2>6, <1>3
  <2>9. SessionsApart'
    BY <2>2, <2>5, <2>8, <1>2, <1>3, <1>5 DEF SessionsApart
  <2>10. callNullifier(PassOf(q.key), q.callsUsed) \in spentCalls
    BY <2>1, <2>2, <1>1, <1>7 DEF Using
  <2>11. Tracked'
    <3> SUFFICES ASSUME NEW v \in Visitors, NEW p \in sessions'[v]
                 PROVE  /\ PassOf(p.key) \in passCommitments
                        /\ \A i \in 0 .. p.callsUsed - 1 :
                             callNullifier(PassOf(p.key), i) \in spentCalls
                        /\ \A n \in spentCalls :
                             n.pass = PassOf(p.key) => n.index <= p.callsUsed
      BY <1>1 DEF Tracked, vars
    <3>1. CASE p = np
      <4>1. /\ PassOf(q.key) \in passCommitments
            /\ \A i \in 0 .. q.callsUsed - 1 :
                 callNullifier(PassOf(q.key), i) \in spentCalls
            /\ \A n \in spentCalls :
                 n.pass = PassOf(q.key) => n.index <= q.callsUsed
        BY <1>2, <1>3 DEF Tracked
      <4>2. \A n \in spentCalls : n.index \in Nat
        BY BoundsAssumption DEF AgentIInv, IInv, TypeOK, Nullifier
      <4>3. \A i \in 0 .. np.callsUsed - 1 :
              callNullifier(PassOf(q.key), i) \in spentCalls
        BY <4>1, <2>5, <2>10
      <4> QED
        BY <3>1, <4>1, <4>2, <4>3, <2>5
    <3>2. CASE p \in sessions[v]
      BY <3>2, <1>2 DEF Tracked
    <3> QED
      BY <3>1, <3>2, <2>8
  <2>12. TxsTrue'
    <3> SUFFICES ASSUME NEW x \in mempool PROVE TxTrue(x)'
      BY <1>1 DEF TxsTrue
    <3>1. TxTrue(x) /\ x.calls \in Nat
      BY <1>2, BoundsAssumption DEF TxsTrue, AgentTypes, Tx
    <3>2. x.action = "redeemCall" =>
            \A v \in Visitors : \A p \in sessions'[v] :
              x.pass = PassOf(p.key) => x.calls <= p.callsUsed
      <4>1. x.action = "redeemCall" /\ x.pass = PassOf(q.key)
              => x.calls <= q.callsUsed
        BY <3>1, <1>3 DEF TxTrue
      <4> QED
        BY <4>1, <3>1, <2>5, <2>8 DEF TxTrue
    <3> QED
      BY <3>1, <3>2, <1>1, <1>5 DEF TxTrue, vars
  <2>13. JobParts' /\ running' = {}
    BY <2>7, <1>1, <1>2, JobEnds
  <2>14. JobsTrue' /\ CallsAreOurs'
    BY <2>13, <1>1, <1>2, <1>5 DEF JobsTrue, CallsAreOurs, vars
  <2> QED
    BY <2>9, <2>11, <2>12, <2>13, <2>14, <1>4 DEF AgentIInv, PassParts
<1>8. CASE j.action = "attest"
  <2>1. sessions' = sessions
    BY <1>1, <1>3, <1>8
  <2>2. JobParts' /\ running' = {}
    BY <2>1, <1>1, <1>2, <1>3, JobEnds
  <2>3. PassParts'
    BY <2>1, <2>2, <1>1, <1>2, <1>5 DEF vars, PassParts, SessionsApart, JobsTrue,
       TxsTrue, TxTrue, CallsAreOurs, Tracked
  <2> QED
    BY <2>2, <2>3, <1>4 DEF AgentIInv
<1> QED
  BY <1>3, <1>6, <1>7, <1>8 DEF Actions

\* A restart forgets who held what; what is on its way stays accounted for.
LEMMA RestartStep == ASSUME AgentIInv, Restart PROVE AgentIInv'
<1>1. /\ phase' = "starting" /\ sessions' = [v \in Visitors |-> {}]
      /\ queue' = <<>> /\ running' = {} /\ slot' = {}
      /\ answered' = 1 .. requested
      /\ UNCHANGED <<vars, mempool, landed, requested, drawn>>
  BY DEF Restart
<1>2. AgentTypes /\ InOrder /\ TxsTrue /\ CallsAreOurs
  BY DEF AgentIInv, JobParts, PassParts
<1>3. /\ requested \in Nat /\ Taken \in Nat /\ Taken <= requested
      /\ Taken' = requested
  BY <1>1, <1>2, AgentAssumption DEF AgentTypes, InOrder, Taken
<1>4. AgentTypes'
  BY <1>1, <1>2 DEF AgentTypes, Phases
<1>5. InOrder'
  <2>1. landed \subseteq 1 .. requested
    BY <1>2, <1>3 DEF InOrder
  <2>2. \A x \in mempool : x.id <= requested
    <3>1. \A x \in mempool : x.id \in Nat /\ x.id <= Taken
      BY <1>2, AgentAssumption DEF InOrder, AgentTypes, Tx
    <3> QED
      BY <3>1, <1>3
  <2>3. Len(queue') = 0
    BY <1>1
  <2> QED
    BY <2>1, <2>2, <2>3, <1>1, <1>3 DEF InOrder
<1>6. OneJob' /\ JobsTrue' /\ SessionsApart' /\ Tracked'
  BY <1>1 DEF OneJob, JobsTrue, SessionsApart, Tracked
<1>7. TxsTrue' /\ CallsAreOurs'
  BY <1>1, <1>2 DEF TxsTrue, TxTrue, CallsAreOurs, Drawn, vars
<1>8. IInv' /\ AttestedCallsAreOnRecord'
  BY <1>1, ContractStep DEF AgentIInv, AttestedCallsAreOnRecord, vars
<1> QED
  BY <1>4, <1>5, <1>6, <1>7, <1>8 DEF AgentIInv, JobParts, PassParts

-----------------------------------------------------------------------------
(***************************************************************************)
(* The chain and everybody else.                                           *)
(***************************************************************************)
LEMMA DropStep ==
  ASSUME AgentIInv, NEW x \in mempool, DropTx(x)
  PROVE  AgentIInv'
<1>1. /\ mempool' \subseteq mempool
      /\ UNCHANGED <<vars, phase, sessions, queue, running, slot, landed,
                     requested, drawn, answered>>
  BY DEF DropTx
<1>2. JobParts'
  BY <1>1 DEF AgentIInv, JobParts, AgentTypes, InOrder, OneJob, Taken
<1>3. PassParts' /\ AttestedCallsAreOnRecord'
  BY <1>1 DEF vars, AgentIInv, PassParts, SessionsApart, JobsTrue, Buying, Using,
     TxsTrue, TxTrue, SentBy, CallsAreOurs, Tracked, Drawn,
     AttestedCallsAreOnRecord
<1>4. IInv'
  BY <1>1, ContractStep DEF AgentIInv
<1> QED
  BY <1>2, <1>3, <1>4 DEF AgentIInv

\* What lands is what the holder of the pass was about to count, and what
\* others do concerns a pass of their own.
LEMMA LandStep ==
  ASSUME AgentIInv, NEW x \in mempool, LandTx(x)
  PROVE  AgentIInv'
<1>1. /\ mempool' = mempool \ {x} /\ landed' = landed \cup {x.id}
      /\ Apply(x, Auditor)
      /\ UNCHANGED <<phase, sessions, queue, running, slot, requested, drawn,
                     answered>>
  BY DEF LandTx
<1>2. /\ JobParts /\ AgentTypes /\ InOrder /\ OneJob
      /\ SessionsApart /\ JobsTrue /\ TxsTrue /\ CallsAreOurs /\ Tracked
  BY DEF AgentIInv, JobParts, PassParts
<1>3. x \in Tx(1 .. MaxRequests) /\ TxTrue(x)
  BY <1>2 DEF AgentTypes, TxsTrue
<1> DEFINE n == callNullifier(x.pass, x.calls)
<1>4. /\ Next
      /\ spentCalls' = spentCalls \cup
           (IF x.action = "redeemCall" THEN {n} ELSE {})
      /\ passCommitments' = passCommitments \cup
           (IF x.action = "issuePass" THEN {x.pass} ELSE {})
      /\ DOMAIN attestations' = DOMAIN attestations \cup
           (IF x.action = "attest" THEN {auditTag(Auditor, x.pass, x.calls)}
                                   ELSE {})
  BY <1>1, <1>3, LandingEffect
<1>5. n.pass = x.pass /\ n.index = x.calls
  BY DEF callNullifier
<1>6. IInv'
  BY <1>4, ContractStep DEF AgentIInv
<1>7. Drawn' = Drawn /\ Taken' = Taken
  BY <1>1 DEF Drawn, Taken
<1>8. JobParts'
  <2>1. x.id \in 1 .. Taken
    <3>1. x.id \in 1 .. MaxRequests /\ x.id <= Taken
      BY <1>2, <1>3 DEF InOrder, Tx
    <3>2. Taken \in Int
      BY <1>2, AgentAssumption DEF Taken, AgentTypes
    <3> QED
      BY <3>1, <3>2, AgentAssumption
  <2>2. OneJob'
    BY <1>1, <1>2, <1>7 DEF OneJob
  <2>3. InOrder'
    BY <2>1, <1>1, <1>2, <1>7 DEF InOrder
  <2> QED
    BY <2>2, <2>3, <1>1, <1>2 DEF JobParts, AgentTypes
<1>9. SessionsApart'
  BY <1>1, <1>2, <1>7 DEF SessionsApart
<1>10. CallsAreOurs'
  BY <1>2, <1>3, <1>4, <1>5, <1>7 DEF CallsAreOurs, TxTrue
<1>11. Tracked'
  <2> SUFFICES ASSUME NEW v \in Visitors, NEW p \in sessions[v]
               PROVE  /\ PassOf(p.key) \in passCommitments'
                      /\ \A i \in 0 .. p.callsUsed - 1 :
                           callNullifier(PassOf(p.key), i) \in spentCalls'
                      /\ \A m \in spentCalls' :
                           m.pass = PassOf(p.key) => m.index <= p.callsUsed
    BY <1>1 DEF Tracked
  <2>1. /\ PassOf(p.key) \in passCommitments
        /\ \A i \in 0 .. p.callsUsed - 1 :
             callNullifier(PassOf(p.key), i) \in spentCalls
        /\ \A m \in spentCalls :
             m.pass = PassOf(p.key) => m.index <= p.callsUsed
    BY <1>2 DEF Tracked
  <2>2. x.action = "redeemCall" /\ n.pass = PassOf(p.key) => n.index <= p.callsUsed
    BY <1>3, <1>5 DEF TxTrue
  <2> QED
    BY <2>1, <2>2, <1>4
<1>12. JobsTrue'
  <2> SUFFICES ASSUME NEW j \in running
               PROVE  IF j.action = "issuePass" THEN Buying(j)' ELSE Using(j)'
    BY <1>1 DEF JobsTrue
  <2>1. x.id = j.id => SentBy(x, j)
    BY <1>3 DEF TxTrue
  <2>2. CASE j.action = "issuePass"
    <3>1. Buying(j)
      BY <2>2, <1>2 DEF JobsTrue
    <3>2. \A m \in spentCalls' : m.pass # PassOf(j.uses.key)
      BY <3>1, <1>4, <1>5 DEF Buying
    <3>3. j.id \in landed' => PassOf(j.uses.key) \in passCommitments'
      BY <3>1, <2>1, <2>2, <1>1, <1>4 DEF Buying, SentBy
    <3> QED
      BY <3>1, <3>2, <3>3, <2>2, <1>1, <1>7 DEF Buying
  <2>3. CASE j.action # "issuePass"
    <3>1. Using(j)
      BY <2>3, <1>2 DEF JobsTrue
    <3>2. j.action = "redeemCall" /\ j.id \in landed' =>
            callNullifier(PassOf(j.uses.key), j.uses.callsUsed) \in spentCalls'
      BY <3>1, <2>1, <1>1, <1>4 DEF Using, SentBy
    <3> QED
      BY <3>1, <3>2, <2>3, <1>1 DEF Using
  <2> QED
    BY <2>2, <2>3
<1>13. TxsTrue'
  <2> SUFFICES ASSUME NEW y \in mempool PROVE TxTrue(y)'
    BY <1>1 DEF TxsTrue
  <2>1. TxTrue(y)
    BY <1>2 DEF TxsTrue
  <2> QED
    BY <2>1, <1>1, <1>4, <1>7 DEF TxTrue, SentBy
<1>14. AttestedCallsAreOnRecord'
  <2> SUFFICES ASSUME NEW tag \in DOMAIN attestations',
                      NEW i \in 0 .. tag.calls - 1
               PROVE  callNullifier(tag.pass, i) \in spentCalls'
    BY DEF AttestedCallsAreOnRecord
  <2>1. CASE tag \in DOMAIN attestations
    BY <2>1, <1>4 DEF AgentIInv, AttestedCallsAreOnRecord
  <2>2. CASE x.action = "attest" /\ tag = auditTag(Auditor, x.pass, x.calls)
    BY <2>2, <1>3, <1>4 DEF TxTrue, auditTag
  <2> QED
    BY <2>1, <2>2, <1>4
<1> QED
  BY <1>6, <1>8, <1>9, <1>10, <1>11, <1>12, <1>13, <1>14
  DEF AgentIInv, PassParts

LEMMA ElsewhereStep == ASSUME AgentIInv, Elsewhere PROVE AgentIInv'
<1>1. /\ Next
      /\ UNCHANGED <<phase, sessions, queue, running, slot, mempool, landed,
                     requested, drawn, answered>>
      /\ spentCalls \subseteq spentCalls'
      /\ \A n \in spentCalls' : n \in spentCalls \/ n.pass = PassOf(OutsideKey)
      /\ passCommitments' = passCommitments
      /\ DOMAIN attestations' = DOMAIN attestations
  BY ElsewhereEffect DEF agentVars
<1>2. /\ JobParts /\ AgentTypes
      /\ SessionsApart /\ JobsTrue /\ TxsTrue /\ CallsAreOurs /\ Tracked
  BY DEF AgentIInv, JobParts, PassParts
<1>3. \A k \in Drawn : PassOf(k) # PassOf(OutsideKey)
  BY <1>2, AgentAssumption, PassOfKey DEF Drawn, AgentTypes
<1>4. Drawn' = Drawn
  BY <1>1 DEF Drawn
<1>5. JobParts'
  BY <1>1, <1>2 DEF JobParts, AgentTypes, InOrder, OneJob, Taken
<1>6. SessionsApart' /\ CallsAreOurs' /\ AttestedCallsAreOnRecord'
  BY <1>1, <1>2, <1>4 DEF SessionsApart, CallsAreOurs, AgentIInv,
     AttestedCallsAreOnRecord
<1>7. Tracked'
  BY <1>1, <1>2, <1>3 DEF Tracked, SessionsApart
<1>8. JobsTrue'
  <2> SUFFICES ASSUME NEW j \in running
               PROVE  IF j.action = "issuePass" THEN Buying(j)' ELSE Using(j)'
    BY <1>1 DEF JobsTrue
  <2>1. j.action = "issuePass" => Buying(j)'
    BY <1>1, <1>2, <1>3, <1>4 DEF JobsTrue, Buying
  <2>2. j.action # "issuePass" => Using(j)'
    BY <1>1, <1>2 DEF JobsTrue, Using
  <2> QED
    BY <2>1, <2>2
<1>9. TxsTrue'
  BY <1>1, <1>2, <1>4 DEF TxsTrue, TxTrue, SentBy
<1>10. IInv'
  BY <1>1, ContractStep DEF AgentIInv
<1> QED
  BY <1>5, <1>6, <1>7, <1>8, <1>9, <1>10 DEF AgentIInv, PassParts

-----------------------------------------------------------------------------
\* Every step, and every step that is none, keeps the invariant.
LEMMA AgentNextIInv == AgentIInv /\ [AgentNext]_allVars => AgentIInv'
<1> SUFFICES ASSUME AgentIInv, [AgentNext]_allVars PROVE AgentIInv'
  OBVIOUS
<1>1. CASE Boot
  BY <1>1, BootStep
<1>2. CASE \E v \in Visitors, a \in Actions : Enqueue(v, a)
  BY <1>2, EnqueueStep
<1>3. CASE RefuseJob
  BY <1>3, RefuseStep
<1>4. CASE StartJob
  BY <1>4, StartStep
<1>5. CASE \E j \in running : Prove(j)
  BY <1>5, ProveStep
<1>6. CASE \E j \in running : JobSucceeds(j)
  BY <1>6, SuccessStep
<1>7. CASE \E j \in running : JobFails(j)
  BY <1>7, FailStep
<1>8. CASE \E x \in mempool : LandTx(x)
  BY <1>8, LandStep
<1>9. CASE \E x \in mempool : DropTx(x)
  BY <1>9, DropStep
<1>10. CASE Restart
  BY <1>10, RestartStep
<1>11. CASE Elsewhere
  BY <1>11, ElsewhereStep
<1>12. CASE UNCHANGED allVars
  <2>1. UNCHANGED <<vars, phase, sessions, queue, running, slot, mempool, landed,
                    requested, drawn, answered>>
    BY <1>12 DEF allVars, agentVars
  <2>2. IInv'
    BY <2>1, ContractStep DEF AgentIInv
  <2>3. JobParts'
    BY <2>1 DEF AgentIInv, JobParts, AgentTypes, InOrder, OneJob, Taken
  <2> QED
    BY <2>1, <2>2, <2>3, PassPartsKept DEF AgentIInv
<1> QED
  BY <1>1, <1>2, <1>3, <1>4, <1>5, <1>6, <1>7, <1>8, <1>9, <1>10, <1>11, <1>12
  DEF AgentNext

\* The invariant of the agent holds in every reachable state.
THEOREM AgentInvariant == AgentSpec => []AgentIInv
  BY AgentInitIInv, AgentNextIInv, PTL DEF AgentSpec

-----------------------------------------------------------------------------
(***************************************************************************)
(* What follows from it.                                                   *)
(***************************************************************************)
\* Types and quotas, honest attestations, answers in the order of requests.
THEOREM AgentIsHonest == AgentSpec => []AgentInv
<1>1. AgentIInv => AgentInv
  <2> SUFFICES ASSUME AgentIInv PROVE AgentInv
    OBVIOUS
  <2>1. AgentTypes /\ InOrder /\ TypeOK /\ AttestedCallsAreOnRecord
    BY DEF AgentIInv, IInv, JobParts
  <2>2. Taken \in Nat /\ Taken <= requested /\ requested \in Nat
    BY <2>1, AgentAssumption DEF AgentTypes, InOrder, Taken
  <2>3. landed \subseteq 1 .. requested /\ answered \subseteq 1 .. requested
    BY <2>1, <2>2 DEF InOrder
  <2>4. AgentTypeOK
    BY <2>1, <2>3 DEF AgentTypes, AgentTypeOK
  <2>5. AnsweredInOrder
    BY <2>1, <2>2 DEF InOrder, AnsweredInOrder
  <2> QED
    BY <2>1, <2>4, <2>5 DEF AgentInv
<1> QED
  BY <1>1, AgentInvariant, PTL

\* No transaction is proven with another visitor's secret.
THEOREM OwnSecret == AgentSpec => []ProvenWithOwnSecret
<1>1. AgentIInv => ProvenWithOwnSecret
  BY DEF AgentIInv, JobParts, PassParts, OneJob, TxsTrue, TxTrue, SentBy,
     ProvenWithOwnSecret
<1> QED
  BY <1>1, AgentInvariant, PTL

\* A session counts what the chain has, one call behind at most.
THEOREM CounterTracks == AgentSpec => []CounterTracksChain
<1>1. AgentIInv => CounterTracksChain
  <2> SUFFICES ASSUME AgentIInv, NEW v \in Visitors, NEW p \in sessions[v]
               PROVE  /\ PassOf(p.key) \in passCommitments
                      /\ {n.index : n \in CallsOf(PassOf(p.key))}
                           \in {0 .. p.callsUsed - 1, 0 .. p.callsUsed}
    BY DEF CounterTracksChain
  <2> DEFINE c == PassOf(p.key)
             S == {n.index : n \in CallsOf(c)}
             k == p.callsUsed
  <2>1. /\ c \in passCommitments
        /\ \A i \in 0 .. k - 1 : callNullifier(c, i) \in spentCalls
        /\ \A n \in spentCalls : n.pass = c => n.index <= k
    BY DEF AgentIInv, PassParts, Tracked
  <2>2. k \in Nat
    BY AgentAssumption DEF AgentIInv, JobParts, AgentTypes, VisitorPass
  <2>3. \A n \in spentCalls : n.index \in Nat /\ n = callNullifier(n.pass, n.index)
    BY BoundsAssumption DEF AgentIInv, IInv, TypeOK, Nullifier, callNullifier
  <2>4. \A i : i \in S <=> callNullifier(c, i) \in spentCalls
    BY <2>3 DEF CallsOf, callNullifier
  <2>5. \A i \in S : i \in 0 .. k
    BY <2>1, <2>2, <2>3 DEF CallsOf
  <2>6. 0 .. k - 1 \subseteq S
    BY <2>1, <2>4
  <2>7. S = 0 .. k - 1 \/ S = 0 .. k
    <3>1. CASE k \in S
      BY <3>1, <2>2, <2>5, <2>6
    <3>2. CASE k \notin S
      BY <3>2, <2>2, <2>5, <2>6
    <3> QED
      BY <3>1, <3>2
  <2> QED
    BY <2>1, <2>7
<1> QED
  BY <1>1, AgentInvariant, PTL

-----------------------------------------------------------------------------
(***************************************************************************)
(* The refinement.  HeldPasses and OnRecord are what the abstract          *)
(* variables map to in NightpassAgent's instance of PassService.           *)
(***************************************************************************)
Told(S)    == {[key |-> p.key, calls |-> p.callsUsed] : p \in S}
HeldPasses == [v \in Visitors |-> Told(sessions[v])]
OnRecord   == [k \in {key \in AgentKeys : PassOf(key) \in passCommitments} |->
                 Cardinality(CallsOf(PassOf(k)))]

\* The calls of a pass with the first m indexes are m calls.
LEMMA FirstCalls ==
  ASSUME NEW c, NEW m \in Nat
  PROVE  Cardinality({callNullifier(c, i) : i \in 0 .. m - 1}) = m
<1> DEFINE S == {callNullifier(c, i) : i \in 0 .. m - 1}
           f == [i \in 0 .. m - 1 |-> callNullifier(c, i)]
<1>1. f \in Surjection(0 .. m - 1, S)
  BY DEF Surjection
<1>2. f \in Injection(0 .. m - 1, S)
  BY DEF Injection, IsInjective, callNullifier
<1> HIDE DEF f, S
<1>3. Cardinality(S) = m
  BY <1>1, <1>2, IndexesOfQuota, FS_Surjection
<1> QED
  BY <1>3 DEF S

\* Of a pass that is held as many calls are on record as the session counts,
\* or one more when the next is there already.
LEMMA CallsCounted ==
  ASSUME AgentIInv, NEW v \in Visitors, NEW p \in sessions[v]
  PROVE  LET next == callNullifier(PassOf(p.key), p.callsUsed)
         IN  /\ p.callsUsed \in 0 .. DemoQuota
             /\ next \in spentCalls =>
                  Cardinality(CallsOf(PassOf(p.key))) = p.callsUsed + 1
             /\ next \notin spentCalls =>
                  Cardinality(CallsOf(PassOf(p.key))) = p.callsUsed
<1> DEFINE c == PassOf(p.key)
           k == p.callsUsed
<1>1. /\ \A i \in 0 .. k - 1 : callNullifier(c, i) \in spentCalls
      /\ \A n \in spentCalls : n.pass = c => n.index <= k
  BY DEF AgentIInv, PassParts, Tracked
<1>2. k \in 0 .. DemoQuota /\ k \in Nat
  BY AgentAssumption DEF AgentIInv, JobParts, AgentTypes, VisitorPass
<1>3. \A n \in spentCalls : n.index \in Nat /\ n = callNullifier(n.pass, n.index)
  BY BoundsAssumption DEF AgentIInv, IInv, TypeOK, Nullifier, callNullifier
<1> HIDE DEF c, k
<1>4. ASSUME callNullifier(c, k) \in spentCalls
      PROVE  Cardinality(CallsOf(c)) = k + 1
  <2>1. PICK last : last = k + 1 /\ last \in Nat
    BY <1>2
  <2>2. CallsOf(c) \subseteq {callNullifier(c, i) : i \in 0 .. last - 1}
    <3> SUFFICES ASSUME NEW n \in CallsOf(c)
                 PROVE  \E i \in 0 .. last - 1 : n = callNullifier(c, i)
      OBVIOUS
    <3>1. n \in spentCalls /\ n.pass = c
      BY DEF CallsOf
    <3>2. n = callNullifier(c, n.index) /\ n.index \in 0 .. last - 1
      BY <3>1, <2>1, <1>1, <1>2, <1>3
    <3> QED
      BY <3>2
  <2>3. {callNullifier(c, i) : i \in 0 .. last - 1} \subseteq CallsOf(c)
    BY <1>1, <1>2, <1>4, <2>1 DEF CallsOf, callNullifier
  <2>4. CallsOf(c) = {callNullifier(c, i) : i \in 0 .. last - 1}
    BY <2>2, <2>3
  <2>5. Cardinality({callNullifier(c, i) : i \in 0 .. last - 1}) = last
    BY <2>1, FirstCalls
  <2> QED
    BY <2>1, <2>4, <2>5
<1>5. ASSUME callNullifier(c, k) \notin spentCalls
      PROVE  Cardinality(CallsOf(c)) = k
  <2>1. CallsOf(c) \subseteq {callNullifier(c, i) : i \in 0 .. k - 1}
    <3> SUFFICES ASSUME NEW n \in CallsOf(c)
                 PROVE  \E i \in 0 .. k - 1 : n = callNullifier(c, i)
      OBVIOUS
    <3>1. n \in spentCalls /\ n.pass = c
      BY DEF CallsOf
    <3>2. n = callNullifier(c, n.index) /\ n.index # k
      BY <3>1, <1>3, <1>5
    <3>3. n.index \in 0 .. k - 1
      BY <3>1, <3>2, <1>1, <1>2, <1>3
    <3> QED
      BY <3>2, <3>3
  <2>2. {callNullifier(c, i) : i \in 0 .. k - 1} \subseteq CallsOf(c)
    BY <1>1 DEF CallsOf, callNullifier
  <2>3. CallsOf(c) = {callNullifier(c, i) : i \in 0 .. k - 1}
    BY <2>1, <2>2
  <2>4. Cardinality({callNullifier(c, i) : i \in 0 .. k - 1}) = k
    BY <1>2, FirstCalls
  <2> QED
    BY <2>3, <2>4
<1> QED
  BY <1>2, <1>4, <1>5 DEF c, k

\* A step that changes neither sessions nor what is on record of the agent's
\* passes is a stutter of the service.
LEMMA ServiceStutter ==
  ASSUME UNCHANGED <<sessions, passCommitments>>,
         \A k \in AgentKeys : CallsOf(PassOf(k))' = CallsOf(PassOf(k))
  PROVE  UNCHANGED <<HeldPasses, OnRecord>>
  BY DEF HeldPasses, OnRecord

\* The keys drawn so far are the agent's, and none is the outsider's.
LEMMA DrawnAreAgents ==
  ASSUME AgentIInv
  PROVE  /\ Drawn \subseteq AgentKeys
         /\ \A k \in AgentKeys : PassOf(k) # PassOf(OutsideKey)
<1>1. drawn \in 0 .. Len(FreshKeys)
  BY DEF AgentIInv, JobParts, AgentTypes
<1> QED
  BY <1>1, AgentAssumption, PassOfKey DEF Drawn, AgentKeys

\* A transaction that lands is a pass issued, a call recorded, or of no
\* account to the service.
LEMMA ServiceLand ==
  ASSUME AgentIInv, NEW x \in mempool, LandTx(x)
  PROVE  [Service!ServiceNext]_<<HeldPasses, OnRecord>>
<1>1. Apply(x, Auditor) /\ UNCHANGED sessions
  BY DEF LandTx
<1>2. /\ IInv /\ AgentTypes /\ TxsTrue /\ CallsAreOurs /\ SessionsApart
      /\ x \in Tx(1 .. MaxRequests) /\ TxTrue(x)
  BY DEF AgentIInv, JobParts, PassParts, AgentTypes, TxsTrue
<1> DEFINE n == callNullifier(x.pass, x.calls)
<1>3. /\ spentCalls' = spentCalls \cup
           (IF x.action = "redeemCall" THEN {n} ELSE {})
      /\ passCommitments' = passCommitments \cup
           (IF x.action = "issuePass" THEN {x.pass} ELSE {})
  BY <1>1, <1>2, LandingEffect
<1>4. PICK key \in Drawn : x.pass = PassOf(key)
  BY <1>2 DEF TxTrue
<1>5. key \in AgentKeys
  BY <1>4, DrawnAreAgents
<1>6. HeldPasses' = HeldPasses
  BY <1>1 DEF HeldPasses
<1>7. n.pass = PassOf(key) /\ n.index = x.calls
  BY <1>4 DEF callNullifier
<1>8. CASE x.action = "issuePass" /\ x.pass \notin passCommitments
  <2>1. CallsOf(PassOf(key))' = {} /\ \A d : CallsOf(d)' = CallsOf(d)
    BY <1>2, <1>3, <1>4, <1>8 DEF IInv, SpentCallsAreEntitled, CallsOf
  <2>2. key \notin DOMAIN OnRecord
    BY <1>4, <1>8 DEF OnRecord
  <2>3. \A k \in AgentKeys : PassOf(k) \in passCommitments'
                               <=> PassOf(k) \in passCommitments \/ k = key
    BY <1>3, <1>4, <1>8, PassOfKey
  <2>4. OnRecord' = [k \in DOMAIN OnRecord \cup {key} |->
                       IF k = key THEN 0 ELSE OnRecord[k]]
    BY <2>1, <2>3, <1>5, FS_EmptySet DEF OnRecord
  <2>5. Service!Issue(key)
    BY <2>2, <2>4, <1>6 DEF Service!Issue, OnRecord, HeldPasses, Told
  <2> QED
    BY <2>5, <1>5 DEF Service!ServiceNext
<1>9. CASE x.action = "redeemCall"
  <2>1. /\ x.pass \in passCommitments /\ n \notin spentCalls
        /\ passCommitments' = passCommitments
    <3>1. redeemCall(x.pass.tool, x.pass.sk, x.pass.nonce, x.pass, x.calls)
      BY <1>1, <1>9 DEF Apply
    <3>2. passCommitment(x.pass.tool, x.pass.sk, x.pass.nonce) = x.pass
      BY <1>2 DEF Tx, Pass, passCommitment
    <3> QED
      BY <3>1, <3>2 DEF redeemCall, checkRoot, unspent
  <2> DEFINE S == CallsOf(x.pass)
  <2>2. /\ CallsOf(x.pass)' = S \cup {n} /\ n \notin S
        /\ \A d : d # x.pass => CallsOf(d)' = CallsOf(d)
    BY <2>1, <1>3, <1>4, <1>7, <1>9 DEF CallsOf
  <2>3. IsFiniteSet(S) /\ Cardinality(S) \in Nat
    BY <1>2, FS_Subset, FS_CardinalityType DEF IInv, Counted, CallsOf
  <2>4. Cardinality(S \cup {n}) = Cardinality(S) + 1
    BY <2>2, <2>3, FS_AddElement
  <2>5. OnRecord' = [OnRecord EXCEPT ![key] = @ + 1]
    <3>1. \A k \in AgentKeys : PassOf(k) = x.pass <=> k = key
      BY <1>4, PassOfKey
    <3> QED
      BY <3>1, <2>1, <2>2, <2>4, <1>4, <1>5 DEF OnRecord
  <2>6. key \in DOMAIN OnRecord /\ OnRecord[key] = Cardinality(S)
    BY <2>1, <1>4, <1>5 DEF OnRecord
  <2>7. Cardinality(S) < DemoQuota
    <3>1. \A m \in S \cup {n} : m.pass = x.pass /\ m.index < DemoQuota
      <4>1. n.index < DemoQuota
        BY <1>2, <1>7, <1>9 DEF TxTrue
      <4>2. \A m \in S : m.pass = x.pass /\ m.index < DemoQuota
        BY <1>2, <1>4, <1>5, DrawnAreAgents DEF CallsOf, CallsAreOurs
      <4> QED
        BY <4>1, <4>2, <1>4, <1>7
    <3>2. S \cup {n} \in SUBSET Nullifier
      BY <1>2 DEF IInv, TypeOK, CallsOf, Nullifier, Tx, callNullifier
    <3>3. DemoQuota \in Nat
      BY AgentAssumption
    <3>4. Cardinality(S \cup {n}) <= DemoQuota
      BY <3>1, <3>2, <3>3, IndexBound
    <3> QED
      BY <3>3, <3>4, <2>3, <2>4
  <2>8. \A v \in Visitors : \A q \in HeldPasses[v] :
          q.key = key => q.calls = OnRecord[key]
    <3> SUFFICES ASSUME NEW v \in Visitors, NEW p \in sessions[v], p.key = key
                 PROVE  p.callsUsed = Cardinality(S)
      BY <2>6 DEF HeldPasses, Told
    <3>1. x.calls <= p.callsUsed /\ x.calls \in Nat
      BY <1>2, <1>4, <1>9, BoundsAssumption DEF TxTrue, Tx
    <3>2. \A i \in 0 .. p.callsUsed - 1 : callNullifier(x.pass, i) \in spentCalls
      BY <1>4 DEF AgentIInv, PassParts, Tracked
    <3>3. p.callsUsed \in Nat
      BY CallsCounted, AgentAssumption
    <3>4. x.calls = p.callsUsed
      BY <3>1, <3>2, <3>3, <2>1
    <3> QED
      BY <3>4, <2>1, <1>4, CallsCounted
  <2>9. Service!Record(key)
    BY <2>5, <2>6, <2>7, <2>8, <1>6 DEF Service!Record, OnRecord, HeldPasses, Told
  <2> QED
    BY <2>9, <1>5 DEF Service!ServiceNext
<1>10. CASE \/ x.action = "attest"
            \/ x.action = "issuePass" /\ x.pass \in passCommitments
  <2>1. UNCHANGED <<passCommitments, spentCalls>>
    BY <1>3, <1>10
  <2> QED
    BY <2>1, <1>1, ServiceStutter DEF CallsOf
<1>11. x.action \in Actions
  BY <1>2 DEF Tx
<1>12. x.action = "issuePass" \/ x.action = "redeemCall" \/ x.action = "attest"
  BY <1>11 DEF Actions
<1> QED
  BY <1>8, <1>9, <1>10, <1>12

\* An answer is a pass granted or a call counted; an attestation's is nothing
\* to the service.
LEMMA ServiceAnswer ==
  ASSUME AgentIInv, NEW j \in running, JobSucceeds(j)
  PROVE  [Service!ServiceNext]_<<HeldPasses, OnRecord>>
<1>1. /\ j.id \in landed
      /\ sessions' = [sessions EXCEPT ![j.visitor] =
           CASE j.action = "issuePass" ->
                  {[key |-> j.uses.key, callsUsed |-> 0, quota |-> DemoQuota]}
             [] j.action = "redeemCall" ->
                  {[p EXCEPT !.callsUsed = @ + 1] : p \in @}
             [] OTHER -> @]
      /\ UNCHANGED vars
  BY DEF JobSucceeds, final
<1>2. /\ AgentTypes /\ SessionsApart /\ JobsTrue
      /\ j \in Job /\ j.visitor \in Visitors /\ j.action \in Actions
      /\ sessions \in [Visitors -> SUBSET VisitorPass]
  BY DEF AgentIInv, JobParts, PassParts, AgentTypes, Job
<1>3. OnRecord' = OnRecord
  BY <1>1 DEF OnRecord, CallsOf, vars
<1>4. CASE j.action = "issuePass"
  <2>1. Buying(j)
    BY <1>2, <1>4 DEF JobsTrue
  <2>2. j.uses.key \in AgentKeys /\ PassOf(j.uses.key) \in passCommitments
    BY <2>1, <1>1, DrawnAreAgents DEF Buying
  <2>3. CallsOf(PassOf(j.uses.key)) = {}
    BY <2>1 DEF Buying, CallsOf
  <2>4. j.uses.key \in DOMAIN OnRecord /\ OnRecord[j.uses.key] = 0
    BY <2>2, <2>3, FS_EmptySet DEF OnRecord
  <2>5. HeldPasses' = [HeldPasses EXCEPT ![j.visitor] =
                         {[key |-> j.uses.key, calls |-> 0]}]
    <3>1. PICK np : np = [key |-> j.uses.key, callsUsed |-> 0, quota |-> DemoQuota]
      OBVIOUS
    <3>2. sessions' = [sessions EXCEPT ![j.visitor] = {np}]
      BY <3>1, <1>1, <1>4
    <3>3. Told({np}) = {[key |-> j.uses.key, calls |-> 0]}
      BY <3>1 DEF Told
    <3> QED
      BY <3>2, <3>3, <1>2 DEF HeldPasses
  <2>6. Service!Grant(j.visitor, j.uses.key)
    BY <2>4, <2>5, <1>3 DEF Service!Grant, OnRecord, HeldPasses, Told
  <2> QED
    BY <2>2, <2>6, <1>2 DEF Service!ServiceNext
<1>5. CASE j.action = "redeemCall"
  <2>1. Using(j)
    BY <1>2, <1>5 DEF JobsTrue
  <2>2. PICK q \in sessions[j.visitor] :
          q.key = j.uses.key /\ q.callsUsed = j.uses.callsUsed
    BY <2>1 DEF Using
  <2>3. PICK np : np = [q EXCEPT !.callsUsed = @ + 1]
    OBVIOUS
  <2>4. q \in VisitorPass /\ sessions[j.visitor] = {q}
    BY <2>2, <1>2 DEF SessionsApart
  <2>5. np.key = q.key /\ np.callsUsed = q.callsUsed + 1
    BY <2>3, <2>4 DEF VisitorPass
  <2>6. sessions' = [sessions EXCEPT ![j.visitor] = {np}]
    BY <2>3, <2>4, <1>1, <1>2, <1>5
  <2>7. PICK h : h = [key |-> q.key, calls |-> q.callsUsed]
    OBVIOUS
  <2>8. h \in HeldPasses[j.visitor]
    BY <2>4, <2>7, <1>2 DEF HeldPasses, Told
  <2>9. HeldPasses' = [HeldPasses EXCEPT ![j.visitor] =
                         {[h EXCEPT !.calls = @ + 1]}]
    <3>1. [h EXCEPT !.calls = @ + 1] = [key |-> np.key, calls |-> np.callsUsed]
      BY <2>5, <2>7
    <3>2. Told({np}) = {[h EXCEPT !.calls = @ + 1]}
      BY <3>1 DEF Told
    <3> QED
      BY <2>6, <3>2, <1>2 DEF HeldPasses
  <2>10. h.calls < OnRecord[h.key]
    <3>1. callNullifier(PassOf(q.key), q.callsUsed) \in spentCalls
      BY <2>1, <2>2, <1>1, <1>5 DEF Using
    <3>2. /\ Cardinality(CallsOf(PassOf(q.key))) = q.callsUsed + 1
          /\ q.callsUsed \in Nat
      BY <3>1, <1>2, AgentAssumption, CallsCounted
    <3>3. PassOf(q.key) \in passCommitments /\ q.key \in AgentKeys
      BY <1>2, DrawnAreAgents DEF AgentIInv, PassParts, Tracked, SessionsApart
    <3>4. OnRecord[q.key] = q.callsUsed + 1
      BY <3>2, <3>3 DEF OnRecord
    <3> QED
      BY <3>2, <3>4, <2>7
  <2>11. Service!Count(j.visitor)
    BY <2>8, <2>9, <2>10, <1>3 DEF Service!Count, OnRecord, HeldPasses, Told
  <2> QED
    BY <2>11, <1>2 DEF Service!ServiceNext
<1>6. CASE j.action = "attest"
  <2>1. sessions' = sessions
    BY <1>1, <1>2, <1>6
  <2> QED
    BY <2>1, <1>3 DEF HeldPasses
<1> QED
  BY <1>2, <1>4, <1>5, <1>6 DEF Actions

\* Every step of the agent is a step of the service or a stutter.
LEMMA ServiceStep ==
  AgentIInv /\ [AgentNext]_allVars
    => [Service!ServiceNext]_<<HeldPasses, OnRecord>>
<1> SUFFICES ASSUME AgentIInv, [AgentNext]_allVars
             PROVE  [Service!ServiceNext]_<<HeldPasses, OnRecord>>
  OBVIOUS
<1>1. CASE UNCHANGED <<vars, sessions>>
  BY <1>1, ServiceStutter DEF vars, CallsOf
<1>2. CASE \E j \in running : JobSucceeds(j)
  BY <1>2, ServiceAnswer
<1>3. CASE \E x \in mempool : LandTx(x)
  BY <1>3, ServiceLand
<1>4. CASE Restart
  <2>1. OnRecord' = OnRecord
    BY <1>4 DEF Restart, vars, OnRecord, CallsOf
  <2>2. HeldPasses' = [v \in Visitors |-> {}]
    BY <1>4 DEF Restart, HeldPasses, Told
  <2>3. Service!Forget
    BY <2>1, <2>2 DEF Service!Forget, HeldPasses, OnRecord, Told
  <2> QED
    BY <2>3 DEF Service!ServiceNext
<1>5. CASE Elsewhere
  <2>1. /\ UNCHANGED <<sessions, passCommitments>>
        /\ spentCalls \subseteq spentCalls'
        /\ \A n \in spentCalls' : n \in spentCalls \/ n.pass = PassOf(OutsideKey)
    BY <1>5, ElsewhereEffect DEF agentVars
  <2>2. \A k \in AgentKeys : CallsOf(PassOf(k))' = CallsOf(PassOf(k))
    BY <2>1, DrawnAreAgents DEF CallsOf
  <2> QED
    BY <2>1, <2>2, ServiceStutter
<1>6. ASSUME \/ Boot \/ RefuseJob \/ StartJob
             \/ \E v \in Visitors, a \in Actions : Enqueue(v, a)
             \/ \E j \in running : Prove(j) \/ JobFails(j)
             \/ \E x \in mempool : DropTx(x)
             \/ UNCHANGED allVars
      PROVE  UNCHANGED <<vars, sessions>>
  BY <1>6 DEF Boot, RefuseJob, StartJob, Enqueue, Prove, JobFails, DropTx,
     allVars, agentVars
<1> QED
  BY <1>1, <1>2, <1>3, <1>4, <1>5, <1>6 DEF AgentNext

\* The agent implements the service its visitors are promised.
THEOREM ImplementsService == AgentSpec => ImplementsPassService
<1>1. AgentInit => Service!ServiceInit
  <2> SUFFICES ASSUME AgentInit PROVE Service!ServiceInit
    OBVIOUS
  <2>1. \A k \in AgentKeys : PassOf(k) \notin passCommitments
    BY AgentAssumption, PassOfKey DEF AgentInit, AgentKeys
  <2> QED
    BY <2>1 DEF AgentInit, Service!ServiceInit
<1>2. AgentIInv /\ [AgentNext]_allVars
        => [Service!ServiceNext]_<<
             [v \in Visitors |->
                {[key |-> p.key, calls |-> p.callsUsed] : p \in sessions[v]}],
             [k \in {key \in AgentKeys : PassOf(key) \in passCommitments} |->
                Cardinality(CallsOf(PassOf(k)))]>>
  BY ServiceStep DEF HeldPasses, OnRecord, Told
<1> QED
  BY <1>1, <1>2, AgentInvariant, PTL
  DEF AgentSpec, ImplementsPassService, Service!ServiceSpec, Service!serviceVars
=============================================================================
