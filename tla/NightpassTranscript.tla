-------------------------- MODULE NightpassTranscript --------------------------
(***************************************************************************)
(* The contract as compiled (managed/nightpass/contract/index.js): a       *)
(* circuit runs at its caller, who proves it, and what reaches the chain   *)
(* is its public transcript: the ledger queries the circuit made, in       *)
(* order, and the results it saw.  The chain repeats the queries when the  *)
(* transaction applies and refuses it if one of them ('popeq') answers     *)
(* differently; it repeats no assert.  That two transactions proven        *)
(* against one ledger cannot both spend a call therefore rests on what     *)
(* each circuit reads and not on what it asserts.  ImplementsContract says *)
(* that the reads are enough: transactions in flight behave as the         *)
(* circuits of Nightpass executed one at a time.  OnlyRacesLose says that  *)
(* they are not too much.                                                  *)
(*                                                                         *)
(* A Merkle tree is the sequence of its leaves, and so is its root, hashes *)
(* being collision free; a path is a leaf and the root computed from it.   *)
(***************************************************************************)
EXTENDS Integers, Sequences

CONSTANTS
  Tools, Secrets, Nonces, Auditors, Prices, Quotas, MaxUint, TreeCapacity,
  Clients,  \* callers, each with at most one transaction in flight
  None      \* no transaction

ASSUME BoundsAssumption ==
  /\ MaxUint \in Nat \ {0}
  /\ TreeCapacity \in Nat
  /\ Quotas \subseteq 0 .. MaxUint

VARIABLES
  tools, spentCalls, callsServed, passesIssued, attestations,
  leaves,    \* passCommitments: the tree, firstFree is its length
  history,   \* passCommitments: the roots the tree has had
  inflight   \* client -> its transaction, or None

ledger == <<tools, spentCalls, callsServed, passesIssued, attestations,
            leaves, history>>
vars == <<tools, spentCalls, callsServed, passesIssued, attestations,
          leaves, history, inflight>>

RangeOf(s) == {s[i] : i \in DOMAIN s}

Contract == INSTANCE Nightpass WITH passCommitments <- RangeOf(leaves)

-----------------------------------------------------------------------------
(***************************************************************************)
(* Derived values and arguments.                                           *)
(***************************************************************************)
passCommitment(call) ==
  [tool |-> call.tool, sk |-> call.sk, nonce |-> call.nonce]
callNullifier(call) == [pass |-> passCommitment(call), index |-> call.index]
auditTag(call) == [auditor |-> call.auditor, pass |-> passCommitment(call),
                   calls |-> call.calls]
publisherCommitment(call) == [publisher |-> call.sk]

Roots == UNION {[1 .. n -> Contract!Pass] : n \in 0 .. TreeCapacity}

\* What a witness may return: any path that computes to some root.
Path == {p \in [leaf : Contract!Pass, root : Roots] : p.leaf \in RangeOf(p.root)}

\* The arguments the wrappers let through, with the witnesses' answers.
registerTools ==
  [circuit : {"registerTool"}, tool : Tools, price : Prices, quota : Quotas,
   sk : Secrets]
setToolActives ==
  [circuit : {"setToolActive"}, tool : Tools, active : BOOLEAN, sk : Secrets]
issuePasses ==
  [circuit : {"issuePass"}, tool : Tools, sk : Secrets, nonce : Nonces]
redeemCalls ==
  [circuit : {"redeemCall"}, tool : Tools, sk : Secrets, nonce : Nonces,
   path : Path, index : 0 .. MaxUint]
attestUsages ==
  [circuit : {"attestUsage"}, tool : Tools, sk : Secrets, nonce : Nonces,
   path : Path, auditor : Auditors, calls : 0 .. MaxUint]

Calls == registerTools \cup setToolActives \cup issuePasses \cup redeemCalls
           \cup attestUsages

-----------------------------------------------------------------------------
(***************************************************************************)
(* Each circuit: the results it reads, the asserts it makes on them, and   *)
(* its effect on the ledger.                                               *)
(***************************************************************************)
registerTool_reads(c) == <<c.tool \in DOMAIN tools>>

registerTool_asserts(c, results) == ~ results[1] /\ c.quota > 0

registerTool_effect(c) ==
  /\ tools' = Contract!Insert(tools, c.tool,
                [publisherCommitment |-> publisherCommitment(c),
                 priceAtomic |-> c.price, quota |-> c.quota, active |-> TRUE])
  /\ callsServed' = Contract!Insert(callsServed, c.tool, 0)
  /\ UNCHANGED <<spentCalls, passesIssued, attestations, leaves, history>>

\* The two reads every other circuit starts with.  The lookup of a tool that
\* is not there is never reached: the first assert has failed.
toolReads(c) ==
  IF c.tool \in DOMAIN tools THEN <<TRUE, tools[c.tool]>> ELSE <<FALSE>>

setToolActive_asserts(c, results) ==
  results[1] /\ results[2].publisherCommitment = publisherCommitment(c)

setToolActive_effect(c, results) ==
  /\ tools' = Contract!Insert(tools, c.tool,
                [publisherCommitment |-> results[2].publisherCommitment,
                 priceAtomic |-> results[2].priceAtomic,
                 quota |-> results[2].quota, active |-> c.active])
  /\ UNCHANGED <<spentCalls, callsServed, passesIssued, attestations, leaves,
                 history>>

issuePass_asserts(c, results) == results[1] /\ results[2].active

\* The leaf goes to firstFree as it is when the transaction applies, which is
\* copied inside the ledger and never compared; so are root and counter.
issuePass_effect_LatestRoot(c) ==
  LET grown == Append(leaves, passCommitment(c))
  IN  /\ Len(leaves) < TreeCapacity
      /\ leaves' = grown
      /\ history' = {grown}
      /\ passesIssued' = passesIssued + 1
      /\ UNCHANGED <<tools, spentCalls, callsServed, attestations>>

issuePass_effect(c) ==
  LET grown == Append(leaves, passCommitment(c))
  IN  /\ Len(leaves) < TreeCapacity
      /\ leaves' = grown
      /\ history' = history \cup {grown}
      /\ passesIssued' = passesIssued + 1
      /\ UNCHANGED <<tools, spentCalls, callsServed, attestations>>

redeemCall_reads_NoNullifier(c) ==
  IF c.tool \notin DOMAIN tools THEN <<FALSE>>
  ELSE <<TRUE, tools[c.tool], c.path.root \in history, FALSE,
         callsServed[c.tool]>>

redeemCall_reads(c) ==
  IF c.tool \notin DOMAIN tools THEN <<FALSE>>
  ELSE <<TRUE, tools[c.tool], c.path.root \in history,
         callNullifier(c) \in spentCalls, callsServed[c.tool]>>

\* The last conjunct is the cast of the incremented counter to Uint<64>.
redeemCall_asserts(c, results) ==
  /\ results[1]
  /\ results[2].active
  /\ results[3]
  /\ c.path.leaf = passCommitment(c)
  /\ c.index < results[2].quota
  /\ ~ results[4]
  /\ results[5] + 1 <= MaxUint

redeemCall_effect(c, results) ==
  /\ spentCalls' = spentCalls \cup {callNullifier(c)}
  /\ callsServed' = Contract!Insert(callsServed, c.tool, results[5] + 1)
  /\ UNCHANGED <<tools, passesIssued, attestations, leaves, history>>

attestUsage_reads(c) ==
  IF c.tool \notin DOMAIN tools THEN <<FALSE>>
  ELSE <<TRUE, tools[c.tool], c.path.root \in history,
         auditTag(c) \in DOMAIN attestations>>

attestUsage_asserts(c, results) ==
  /\ results[1]
  /\ c.calls <= results[2].quota
  /\ results[3]
  /\ c.path.leaf = passCommitment(c)
  /\ ~ results[4]

attestUsage_effect(c) ==
  /\ attestations' = Contract!Insert(attestations, auditTag(c), c.auditor)
  /\ UNCHANGED <<tools, spentCalls, callsServed, passesIssued, leaves, history>>

-----------------------------------------------------------------------------
(***************************************************************************)
(* Transactions.                                                           *)
(***************************************************************************)
Reads(c) ==
  CASE c.circuit = "registerTool" -> registerTool_reads(c)
    [] c.circuit \in {"setToolActive", "issuePass"} -> toolReads(c)
    [] c.circuit = "redeemCall"   -> redeemCall_reads(c)
    [] c.circuit = "attestUsage"  -> attestUsage_reads(c)

Asserts(c, results) ==
  CASE c.circuit = "registerTool"  -> registerTool_asserts(c, results)
    [] c.circuit = "setToolActive" -> setToolActive_asserts(c, results)
    [] c.circuit = "issuePass"     -> issuePass_asserts(c, results)
    [] c.circuit = "redeemCall"    -> redeemCall_asserts(c, results)
    [] c.circuit = "attestUsage"   -> attestUsage_asserts(c, results)

Effect(c, results) ==
  \/ c.circuit = "registerTool"  /\ registerTool_effect(c)
  \/ c.circuit = "setToolActive" /\ setToolActive_effect(c, results)
  \/ c.circuit = "issuePass"     /\ issuePass_effect(c)
  \/ c.circuit = "redeemCall"    /\ redeemCall_effect(c, results)
  \/ c.circuit = "attestUsage"   /\ attestUsage_effect(c)

\* The transcript is the one this ledger gives.
applicable(tx) == tx.results = Reads(tx.call)

Init ==
  /\ tools = [t \in {} |-> {}]
  /\ spentCalls = {}
  /\ callsServed = [t \in {} |-> {}]
  /\ passesIssued = 0
  /\ attestations = [tag \in {} |-> {}]
  /\ leaves = <<>>
  /\ history = {<<>>}
  /\ inflight = [client \in Clients |-> None]

\* A client runs a circuit on the ledger and submits the proven transcript.
Prove(client, call) ==
  /\ inflight[client] = None
  /\ Asserts(call, Reads(call))
  /\ inflight' = [inflight EXCEPT ![client] =
                    [call |-> call, results |-> Reads(call)]]
  /\ UNCHANGED ledger

\* The chain applies a transaction whose transcript still holds ...
Apply(client) ==
  /\ inflight[client] # None
  /\ applicable(inflight[client])
  /\ Effect(inflight[client].call, inflight[client].results)
  /\ inflight' = [inflight EXCEPT ![client] = None]

\* ... and may drop any: it was refused, lost or expired.
Drop(client) ==
  /\ inflight[client] # None
  /\ inflight' = [inflight EXCEPT ![client] = None]
  /\ UNCHANGED ledger

Next ==
  \E client \in Clients :
    \/ \E call \in Calls : Prove(client, call)
    \/ Apply(client)
    \/ Drop(client)

Spec == Init /\ [][Next]_vars

-----------------------------------------------------------------------------
(***************************************************************************)
(* Properties.                                                             *)
(***************************************************************************)
\* The fields that Nightpass does not have; the others are typed there.
TypeOK ==
  /\ Contract!TypeOK
  /\ leaves \in Roots
  /\ history \subseteq Roots
  /\ DOMAIN inflight = Clients
  /\ \A client \in Clients :
       inflight[client] # None => inflight[client].call \in Calls

\* The tree keeps the root it had after every purchase, the empty one
\* included, and the public counter of passes is its number of leaves
\* (HistoricMerkleTree and Counter are updated by one transcript).
HistoryIsEveryTree ==
  /\ history = {SubSeq(leaves, 1, n) : n \in 0 .. Len(leaves)}
  /\ passesIssued = Len(leaves)

\* Transactions proven side by side behave as circuits executed one at a
\* time: no interleaving of proving, applying and dropping does to the ledger
\* what the contract's source would not.
ImplementsContract == Contract!Spec

\* Two transactions compete for the same entry of the ledger.
Races(a, b) ==
  /\ a.tool = b.tool
  /\ \/ a.circuit = "registerTool" /\ b.circuit = "registerTool"
     \/ a.circuit = "setToolActive" /\ b.circuit # "registerTool"
     \/ a.circuit = "redeemCall" /\ b.circuit = "redeemCall"
     \/ /\ a.circuit = "attestUsage" /\ b.circuit = "attestUsage"
        /\ auditTag(a) = auditTag(b)

LosesOnlyRaces ==
  \A a, b \in Clients :
    /\ inflight[a] # None /\ inflight'[a] = None
    /\ inflight[b] # None /\ inflight'[b] = inflight[b]
    /\ applicable(inflight[b])
    => applicable(inflight[b])' \/ Races(inflight[a].call, inflight[b].call)

\* A proven transaction is invalidated only by one it really competes with: a
\* purchase moves the root that every pending proof of membership was made
\* against and disturbs none of them, and tools do not disturb each other.
OnlyRacesLose == [][LosesOnlyRaces]_vars
=============================================================================
