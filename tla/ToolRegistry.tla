----------------------------- MODULE ToolRegistry -----------------------------
(***************************************************************************)
(* The registry contract on Casper (contracts/tool-registry/src/main.rs)   *)
(* and the script that anchors a listing in it                             *)
(* (apps/web/scripts/casper/registry-register.ts).                         *)
(*                                                                         *)
(* The marketplace serves a manifest per slug, and edits it.  The script   *)
(* hashes what is served, submits the hash and polls for the result; other *)
(* accounts submit whatever they like.  Transactions land in any order,    *)
(* late or never.  Hashes do not collide: the hash of a manifest is the    *)
(* fields it covers.                                                       *)
(***************************************************************************)
EXTENDS Naturals, FiniteSets, Sequences

CONSTANTS
  Slugs,
  Publisher,  \* the account the script signs with
  Strangers,  \* other accounts
  Manifests,  \* what the covered fields can be: name, payTo, prices
  Schemas,    \* what the other fields can be
  absent,     \* no entry in a dictionary
  MaxTxs      \* bound: transactions submitted

ASSUME RegistryAssumption ==
  /\ Publisher \notin Strangers /\ absent \notin Strangers \cup {Publisher}
  /\ absent \notin Manifests
  /\ MaxTxs \in Nat

Accounts == Strangers \cup {Publisher}
TxIds    == 1 .. MaxTxs
Served   == [covered : Manifests, schema : Schemas]

VARIABLES
  catalog,   \* slug -> manifest served: covered fields and the others
  owners,    \* dictionary of the contract: slug -> account
  manifests, \* dictionary of the contract: slug -> hash
  txs,       \* transaction -> what it calls with, and what became of it
  submitted, \* number of transactions
  script,    \* transaction -> what the script that waits for it has printed
  anchored,  \* [slug, hash] the contract ever held (history)
  landed     \* transactions in the order they landed, reverted or not (history)

registryVars == <<catalog, owners, manifests, txs, submitted, script, anchored, landed>>

RegistryInit ==
  /\ catalog \in [Slugs -> Served]
  /\ owners = [s \in Slugs |-> absent]
  /\ manifests = [s \in Slugs |-> absent]
  /\ txs = [t \in {} |-> absent]
  /\ submitted = 0
  /\ script = [t \in TxIds |-> "none"]
  /\ anchored = {}
  /\ landed = <<>>

manifestHash(tool) == tool.covered

\* An edit in the database.
EditListing(s) ==
  /\ \E tool \in Served :
       tool # catalog[s] /\ catalog' = [catalog EXCEPT ![s] = tool]
  /\ UNCHANGED <<owners, manifests, txs, submitted, script, anchored, landed>>

submit(s, hash, by) ==
  LET t == submitted + 1
  IN  /\ submitted < MaxTxs
      /\ submitted' = t
      /\ txs' = [u \in 1 .. t |->
           IF u = t THEN [slug |-> s, hash |-> hash, by |-> by, at |-> "pending"]
                    ELSE txs[u]]
      /\ UNCHANGED <<catalog, owners, manifests, anchored, landed>>

\* The script: the hash of what is served now, and a wait for its execution.
Anchor(s) ==
  /\ submit(s, manifestHash(catalog[s]), Publisher)
  /\ script' = [script EXCEPT ![submitted + 1] = "waiting"]

SubmitOther(s, hash, by) ==
  /\ submit(s, hash, by)
  /\ UNCHANGED script

\* register_tool: the first writer claims the slug, and only they update it.
authorised_Anyone(s, caller) == TRUE
authorised(s, caller)        == owners[s] \in {absent, caller}

ownerAfter(s, caller) == IF owners[s] = absent THEN caller ELSE owners[s]

registerTool(t) ==
  LET s == txs[t].slug
  IN  /\ txs[t].at = "pending"
      /\ IF authorised(s, txs[t].by)
         THEN /\ owners' = [owners EXCEPT ![s] = ownerAfter(s, txs[t].by)]
              /\ manifests' = [manifests EXCEPT ![s] = txs[t].hash]
              /\ anchored' = anchored \cup {[slug |-> s, hash |-> txs[t].hash]}
              /\ txs' = [txs EXCEPT ![t].at = "executed"]
         ELSE /\ txs' = [txs EXCEPT ![t].at = "reverted"]
              /\ UNCHANGED <<owners, manifests, anchored>>
      /\ landed' = Append(landed, t)
      /\ UNCHANGED <<catalog, submitted, script>>

\* Its time to live passes.
ExpireTx(t) ==
  /\ txs[t].at = "pending"
  /\ txs' = [txs EXCEPT ![t].at = "expired"]
  /\ UNCHANGED <<catalog, owners, manifests, submitted, script, anchored, landed>>

\* waitForTransactionRaw: a result without an error, an error, or, from a
\* lost poll or the deadline, none.
executedOk(t) == txs[t].at = "executed"

PrintResult(t) ==
  /\ script[t] = "waiting"
  /\ \/ executedOk(t) /\ script' = [script EXCEPT ![t] = "anchored"]
     \/ script' = [script EXCEPT ![t] = "failed"]
  /\ UNCHANGED <<catalog, owners, manifests, txs, submitted, anchored, landed>>

RegistryNext ==
  \/ \E s \in Slugs : EditListing(s)
  \/ \E s \in Slugs : Anchor(s)
  \/ \E s \in Slugs, hash \in Manifests, by \in Strangers : SubmitOther(s, hash, by)
  \/ \E t \in DOMAIN txs : registerTool(t)
  \/ \E t \in DOMAIN txs : ExpireTx(t)
  \/ \E t \in DOMAIN txs : PrintResult(t)

RegistrySpec == RegistryInit /\ [][RegistryNext]_registryVars

-----------------------------------------------------------------------------
(***************************************************************************)
(* Properties.                                                             *)
(***************************************************************************)
\* Fields have their types, and a slug has a hash exactly when it has an owner.
RegistryTypeOK ==
  /\ catalog \in [Slugs -> Served]
  /\ owners \in [Slugs -> Accounts \cup {absent}]
  /\ manifests \in [Slugs -> Manifests \cup {absent}]
  /\ submitted \in 0 .. MaxTxs
  /\ txs \in [1 .. submitted -> [slug : Slugs, hash : Manifests, by : Accounts,
                at : {"pending", "executed", "reverted", "expired"}]]
  /\ script \in [TxIds -> {"none", "waiting", "anchored", "failed"}]
  /\ anchored \subseteq [slug : Slugs, hash : Manifests]
  /\ landed \in Seq(1 .. submitted)
  /\ \A s \in Slugs : (owners[s] = absent) = (manifests[s] = absent)

\* "anyone could overwrite a competitor's listing": in whatever order calls
\* land, a slug belongs to the account whose call landed first, and what stands
\* under it is the hash of the call of that account that landed last.
callsFor(s) == {i \in DOMAIN landed : txs[landed[i]].slug = s}

HashIsTheOwners ==
  \A s \in Slugs :
    IF owners[s] = absent THEN callsFor(s) = {}
    ELSE \E first, last \in callsFor(s) :
           /\ txs[landed[first]].by = owners[s]
           /\ txs[landed[last]].by = owners[s]
           /\ txs[landed[last]].hash = manifests[s]
           /\ \A i \in callsFor(s) :
                first <= i /\ (txs[landed[i]].by = owners[s] => i <= last)

\* "ANCHORED ON-CHAIN" is printed for a hash the contract took, and then the
\* slug is the publisher's for good.
PrintedIsAnchored ==
  \A t \in DOMAIN txs : script[t] = "anchored" =>
    /\ [slug |-> txs[t].slug, hash |-> txs[t].hash] \in anchored
    /\ owners[txs[t].slug] = Publisher

\* "a later silent edit to price or payout address becomes detectable": where
\* the anchored hash agrees with the hash of what is served, the covered
\* fields served are ones the owner committed to.
AgreementIsCommitment ==
  \A s \in Slugs : manifests[s] = manifestHash(catalog[s]) =>
    \E t \in DOMAIN txs : /\ txs[t].slug = s /\ txs[t].by = owners[s]
                          /\ txs[t].hash = catalog[s].covered

\* What the registry says of a slug is its owner's word, and the script says
\* of the registry what is so.
RegistryInv ==
  /\ RegistryTypeOK
  /\ HashIsTheOwners
  /\ PrintedIsAnchored
  /\ AgreementIsCommitment
=============================================================================
