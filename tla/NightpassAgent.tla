--------------------------- MODULE NightpassAgent ---------------------------
(***************************************************************************)
(* The live Nightpass agent of the website                                 *)
(* (apps/web/src/lib/nightpass-agent.ts) on top of the contract.           *)
(*                                                                         *)
(* One wallet serves every visitor.  The circuits read their witnesses     *)
(* from ONE private-state slot, so the agent writes a visitor's secret     *)
(* there right before that visitor's transaction and runs the jobs one     *)
(* after the other.  A job awaits the proof, the submission and the        *)
(* finality of its transaction; any of them can throw, also after the      *)
(* transaction reached the chain, and the process can restart at any time  *)
(* while a transaction it sent is still on its way.                        *)
(*                                                                         *)
(* Covered: request queue, private-state slot, sessions, proving against   *)
(* a ledger that moves before the transaction lands, rejection, lost       *)
(* outcomes, restarts, a boot that fails, other users of the same tool.    *)
(* Not covered: wallet synchronisation, coin selection, the fee wallet.    *)
(***************************************************************************)
EXTENDS NightpassTx, Sequences

CONSTANTS
  Visitors,     \* browser sessions
  Tool,         \* the demo tool, DEMO_SLUG of the route
  DemoQuota,    \* quota the route writes into a session, DEMO_QUOTA
  Auditor,      \* the auditor the route attests to
  PublisherKey, \* secret of the tool's publisher
  OutsideKey,   \* secret of an agent that uses the tool from elsewhere
  FreshKeys,    \* secrets the agent draws, in order: a sequence
  MaxRequests   \* bound: requests made in one behaviour

ASSUME AgentAssumption ==
  /\ Tool \in Tools /\ Auditor \in Auditors
  /\ PublisherKey \in Secrets /\ OutsideKey \in Secrets \cap Nonces
  /\ FreshKeys \in Seq(Secrets \cap Nonces)
  /\ \A i \in DOMAIN FreshKeys : FreshKeys[i] # OutsideKey
  /\ \A i, j \in DOMAIN FreshKeys : FreshKeys[i] = FreshKeys[j] => i = j
  /\ DemoQuota \in 1 .. MaxUint
  /\ MaxRequests \in Nat
  /\ TreeCapacity # 0

VARIABLES
  phase,      \* runtime.phase
  sessions,   \* visitor -> set with the pass held, or empty
  queue,      \* jobs waiting on runtime.queue
  running,    \* jobs that have started and not ended
  slot,       \* the witnesses under PRIVATE_STATE_ID
  mempool,    \* transactions submitted and not yet decided
  landed,     \* ids of jobs whose transaction is final on chain
  requested,  \* number of requests so far
  drawn,      \* number of keys drawn so far
  answered    \* ids of requests that got an answer, result or error

agentVars == <<phase, sessions, queue, running, slot, mempool, landed,
               requested, drawn, answered>>
allVars == <<vars, agentVars>>

\* starting stands for syncing too: neither has providers yet.
Phases  == {"starting", "ready", "error"}

\* A visitor's pass.  nonce and secret are drawn together; one key names both.
VisitorPass == [key : Secrets \cap Nonces, callsUsed : 0 .. DemoQuota,
                quota : {DemoQuota}]
Witnesses   == [key : Secrets, callsUsed : 0 .. DemoQuota]
Request     == [id : 1 .. MaxRequests, visitor : Visitors, action : Actions]
Job         == [id : 1 .. MaxRequests, visitor : Visitors, action : Actions,
                stage : {"armed", "submitted"}, uses : Witnesses]

PassOf(key) == passCommitment(Tool, key, key)

-----------------------------------------------------------------------------
(***************************************************************************)
(* The contract is deployed, the demo tool is listed and somebody else     *)
(* holds a pass for it; the web process has just started.                  *)
(***************************************************************************)
AgentInit ==
  /\ \E price \in Prices, quota \in Quotas \ {0} :
       tools = [t \in {Tool} |->
                  [publisherCommitment |-> publisherCommitment(PublisherKey),
                   priceAtomic |-> price, quota |-> quota, active |-> TRUE]]
  /\ callsServed = [t \in {Tool} |-> 0]
  /\ passCommitments = {PassOf(OutsideKey)}
  /\ passesIssued = 1
  /\ spentCalls = {}
  /\ attestations = [tag \in {} |-> {}]
  /\ phase = "starting"
  /\ sessions = [v \in Visitors |-> {}]
  /\ queue = <<>>
  /\ running = {}
  /\ slot = {}
  /\ mempool = {}
  /\ landed = {}
  /\ requested = 0
  /\ drawn = 0
  /\ answered = {}

\* boot() ends by publishing the providers, or throws; a failed boot is never
\* tried again because startedAt stays set.
Boot ==
  /\ phase = "starting"
  /\ phase' \in {"ready", "error"}
  /\ UNCHANGED <<vars, sessions, queue, running, slot, mempool, landed,
                 requested, drawn, answered>>

\* POST /api/nightpass/run enqueues one job.
Enqueue(v, a) ==
  /\ requested < MaxRequests
  /\ requested' = requested + 1
  /\ queue' = Append(queue, [id |-> requested + 1, visitor |-> v, action |-> a])
  /\ UNCHANGED <<vars, phase, sessions, running, slot, mempool, landed, drawn,
                 answered>>

-----------------------------------------------------------------------------
(***************************************************************************)
(* Running a job.                                                          *)
(***************************************************************************)
\* runtime.queue chains each job on the end of the one before.
mayStart_NoQueue == TRUE
mayStart         == running = {}

\* The job function's own checks: the agent is ready, and redeeming or
\* attesting needs a pass in the right state.
callsLeft(p) == p.callsUsed < p.quota

accepted(r) ==
  /\ phase = "ready"
  /\ \/ r.action = "issuePass"
     \/ \E p \in sessions[r.visitor] :
          IF r.action = "redeemCall" THEN callsLeft(p) ELSE p.callsUsed # 0

\* Throwing ends the job; the next one starts either way.
refused_UntilReady(r) == phase = "ready" /\ ~accepted(r)
refused(r)            == ~accepted(r)

RefuseJob ==
  /\ mayStart
  /\ queue # <<>>
  /\ refused(Head(queue))
  /\ queue' = Tail(queue)
  /\ answered' = answered \cup {Head(queue).id}
  /\ UNCHANGED <<vars, phase, sessions, running, slot, mempool, landed,
                 requested, drawn>>

\* The job writes its witnesses into the slot: a fresh secret and nonce for a
\* purchase, the visitor's own pass otherwise.
StartJob ==
  /\ mayStart
  /\ queue # <<>>
  /\ accepted(Head(queue))
  /\ LET r    == Head(queue)
         buys == r.action = "issuePass"
     IN  \E w \in IF buys
                  THEN {[key |-> FreshKeys[i], callsUsed |-> 0] :
                          i \in {drawn + 1} \cap DOMAIN FreshKeys}
                  ELSE {[key |-> p.key, callsUsed |-> p.callsUsed] :
                          p \in sessions[r.visitor]} :
           /\ slot' = {w}
           /\ drawn' = IF buys THEN drawn + 1 ELSE drawn
           /\ running' = running \cup
                {[id |-> r.id, visitor |-> r.visitor, action |-> r.action,
                  stage |-> "armed", uses |-> w]}
  /\ queue' = Tail(queue)
  /\ UNCHANGED <<vars, phase, sessions, mempool, landed, requested, answered>>

\* What an attestation claims: the calls the session has counted.
claimed_WholeQuota(j) == DemoQuota
claimed(j)            == j.uses.callsUsed

\* callTx runs and proves the circuit with the witnesses the slot holds and
\* submits it.  The calls an attestation claims are an argument of the job,
\* not a witness.
Prove(j) ==
  /\ j.stage = "armed"
  /\ \E w \in slot :
       LET c     == PassOf(w.key)
           calls == IF j.action = "attest" THEN claimed(j) ELSE w.callsUsed
       IN  /\ circuitHolds(j.action, c, Auditor, calls)
           /\ mempool' = mempool \cup {proven(j.id, j.action, c, calls)}
  /\ running' = (running \ {j}) \cup {[j EXCEPT !.stage = "submitted"]}
  /\ UNCHANGED <<vars, phase, sessions, queue, slot, landed, requested, drawn,
                 answered>>

\* callTx resolved: the transaction is final and the session is updated.
final_OnSubmit(j) == j.stage = "submitted"
final(j)          == j.stage = "submitted" /\ j.id \in landed

JobSucceeds(j) ==
  /\ final(j)
  /\ sessions' = [sessions EXCEPT ![j.visitor] =
       CASE j.action = "issuePass" ->
              {[key |-> j.uses.key, callsUsed |-> 0, quota |-> DemoQuota]}
         [] j.action = "redeemCall" ->
              {[p EXCEPT !.callsUsed = @ + 1] : p \in @}
         [] OTHER -> @]
  /\ running' = running \ {j}
  /\ answered' = answered \cup {j.id}
  /\ UNCHANGED <<vars, phase, queue, slot, mempool, landed, requested, drawn>>

\* callTx threw: an assert failed on the ledger it saw, the proof server, the
\* node or the indexer failed, the transaction was rejected, or the answer was
\* lost after it was sent.  Nothing is recorded in the session.
JobFails(j) ==
  /\ running' = running \ {j}
  /\ answered' = answered \cup {j.id}
  /\ UNCHANGED <<vars, phase, sessions, queue, slot, mempool, landed,
                 requested, drawn>>

\* The process restarts: sessions, queue and slot are in memory only.
Restart ==
  /\ phase' = "starting"
  /\ sessions' = [v \in Visitors |-> {}]
  /\ queue' = <<>>
  /\ running' = {}
  /\ slot' = {}
  /\ answered' = 1 .. requested
  /\ UNCHANGED <<vars, mempool, landed, requested, drawn>>

-----------------------------------------------------------------------------
(***************************************************************************)
(* The chain and everybody else.                                           *)
(***************************************************************************)
LandTx(x) ==
  /\ Apply(x, Auditor)
  /\ mempool' = mempool \ {x}
  /\ landed' = landed \cup {x.id}
  /\ UNCHANGED <<phase, sessions, queue, running, slot, requested, drawn,
                 answered>>

\* The chain rejects it, or its time to live passes.
DropTx(x) ==
  /\ mempool' = mempool \ {x}
  /\ UNCHANGED <<vars, phase, sessions, queue, running, slot, landed,
                 requested, drawn, answered>>

\* The publisher toggles the listing; another holder redeems a call.
Elsewhere ==
  /\ \/ \E active \in BOOLEAN : setToolActive(Tool, active, PublisherKey)
     \/ \E i \in 0 .. MaxUint :
          redeemCall(Tool, OutsideKey, OutsideKey, PassOf(OutsideKey), i)
  /\ UNCHANGED agentVars

AgentNext ==
  \/ Boot
  \/ \E v \in Visitors, a \in Actions : Enqueue(v, a)
  \/ RefuseJob
  \/ StartJob
  \/ \E j \in running : Prove(j)
  \/ \E j \in running : JobSucceeds(j)
  \/ \E j \in running : JobFails(j)
  \/ \E x \in mempool : LandTx(x)
  \/ \E x \in mempool : DropTx(x)
  \/ Restart
  \/ Elsewhere

AgentSpec == AgentInit /\ [][AgentNext]_allVars

\* The event loop runs every callback that is ready, and callTx settles: that
\* last part is an assumption about the Midnight library, nothing in the agent
\* bounds the wait.
AgentFairness ==
  /\ WF_allVars(Boot)
  /\ WF_allVars(RefuseJob)
  /\ WF_allVars(StartJob)
  /\ WF_allVars(\E j \in running : JobSucceeds(j) \/ JobFails(j))

FairAgentSpec == AgentSpec /\ AgentFairness

-----------------------------------------------------------------------------
(***************************************************************************)
(* Properties.                                                             *)
(***************************************************************************)
\* Every field has its type; in particular no session counts more calls than
\* its quota and every transaction that landed was requested.
AgentTypeOK ==
  /\ TypeOK
  /\ phase \in Phases
  /\ \A v \in Visitors : sessions[v] \subseteq VisitorPass
  /\ queue \in Seq(Request)
  /\ running \subseteq Job
  /\ slot \subseteq Witnesses
  /\ mempool \subseteq Tx(1 .. MaxRequests)
  /\ landed \subseteq 1 .. requested
  /\ requested \in 0 .. MaxRequests
  /\ drawn \in 0 .. Len(FreshKeys)
  /\ answered \subseteq 1 .. requested

\* "each visitor's secret is written here immediately before their call": no
\* transaction is ever proven with another visitor's secret, although all of
\* them read the same slot across several awaits.
ProvenWithOwnSecret ==
  \A j \in running :
    /\ j.stage = "armed" => slot = {j.uses}
    /\ \A x \in mempool : x.id = j.id => x.pass = PassOf(j.uses.key)

\* The session's counter never runs ahead of the chain and falls behind it by
\* at most one call, the one whose answer is outstanding or was lost; the
\* calls of a pass are its first indexes, without holes.
CounterTracksChain ==
  \A v \in Visitors : \A p \in sessions[v] :
    /\ PassOf(p.key) \in passCommitments
    /\ {n.index : n \in CallsOf(PassOf(p.key))}
         \in {0 .. p.callsUsed - 1, 0 .. p.callsUsed}

\* What the agent attests for a visitor is true when it is published and stays
\* so: every call claimed is on record.
AttestedCallsAreOnRecord ==
  \A tag \in DOMAIN attestations :
    \A i \in 0 .. tag.calls - 1 : callNullifier(tag.pass, i) \in spentCalls

\* Requests are answered in the order they were made.
AnsweredInOrder ==
  \A id \in answered : 1 .. id \subseteq answered

\* Every request gets an answer, whatever happened to those before it and
\* whether or not the wallet ever came up.
EveryRequestAnswered ==
  \A id \in 1 .. MaxRequests : (id <= requested) ~> (id \in answered)

\* What visitors are promised, over the passes the agent buys: each is backed
\* by the chain, and told of its calls in order, one behind at most.
AgentKeys == {FreshKeys[i] : i \in DOMAIN FreshKeys}

Service == INSTANCE PassService WITH
  Keys     <- AgentKeys,
  Quota    <- DemoQuota,
  held     <- [v \in Visitors |->
                 {[key |-> p.key, calls |-> p.callsUsed] : p \in sessions[v]}],
  onRecord <- [k \in {key \in AgentKeys : PassOf(key) \in passCommitments} |->
                 Cardinality(CallsOf(PassOf(k)))]

ImplementsPassService == Service!ServiceSpec

\* The parts of the agent's invariant that are claims of their own: types and
\* quotas, honest attestations, answers in the order of the requests.
AgentInv == AgentTypeOK /\ AttestedCallsAreOnRecord /\ AnsweredInOrder
=============================================================================
