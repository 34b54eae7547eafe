----------------------------- MODULE NightpassDemo -----------------------------
(***************************************************************************)
(* The command-line demo, run again and again over one contract and one    *)
(* private state on disk (runDemo of midnight/cli/src/main.ts with the     *)
(* operations of api.ts).                                                  *)
(*                                                                         *)
(* A run lists the catalog, buys a pass of its first tool, redeems CALLS   *)
(* calls, attests them and plays the auditor.  It may end at any await,    *)
(* leaving listed tools, a bought pass, a transaction under way and a      *)
(* private state behind; the next run draws fresh secrets and starts over. *)
(* Runs follow one another.  The library's join is external: it either     *)
(* keeps the private state it finds or stores the one it is handed.        *)
(***************************************************************************)
EXTENDS NightpassTx, Sequences

CONSTANTS
  CATALOG,   \* the tools the demo lists, in order; the first is the one used
  DemoPrice, DemoQuota,  \* what it lists them at
  CALLS,     \* calls a run redeems and attests
  Drawn,     \* random values of each run: a sequence
  DemoAuditor

ASSUME DemoAssumption ==
  /\ CATALOG \in Seq(Tools) /\ CATALOG # <<>>
  /\ DemoPrice \in Prices /\ DemoQuota \in Quotas /\ DemoAuditor \in Auditors
  /\ CALLS \in 1 .. MaxUint
  /\ Drawn \in Seq([publisher : Secrets, agent : Secrets, nonce : Nonces])

VARIABLES
  disk,      \* nightpassPrivateState: the secret and at most one pass
  runs,      \* number of runs begun
  scene,     \* where the current run is
  item,      \* the catalog entry, or the call, it is at
  awaiting,  \* ids of the transaction the run waits for, at most one
  inFlight,  \* transactions submitted and not yet decided
  applied,   \* ids of the transactions that applied
  printed    \* what the runs that finished printed

demoVars == <<disk, runs, scene, item, awaiting, inFlight, applied, printed>>
demoAll  == <<vars, demoVars>>

Scenes    == {"none", "list", "buy", "bought", "spend", "attest", "audit"}
ListTx(ids) == [id : ids, action : {"registerTool"}, tool : Tools, sk : Secrets]
Private   == [sk : Secrets, held : SUBSET [nonce : Nonces, callsUsed : 0 .. MaxUint]]
Printout  == [run : 1 .. Len(Drawn), tagMatches : BOOLEAN,
              everyCallChecks : BOOLEAN, nextCallAbsent : BOOLEAN]

fresh(sk) == [sk |-> sk, held |-> {}]
target    == CATALOG[1]
mine      == Drawn[runs]

-----------------------------------------------------------------------------
DemoStart ==
  /\ \E s \in Secrets : disk = fresh(s)   \* stored by the deployment
  /\ runs = 0 /\ scene = "none" /\ item = 0
  /\ awaiting = {} /\ inFlight = {} /\ applied = {} /\ printed = {}

DemoInit == Init /\ DemoStart

\* findDeployedContract with an initial private state: kept or replaced.
joined(initial) == {disk, initial}

StartDemo ==
  /\ scene = "none" /\ runs < Len(Drawn)
  /\ runs' = runs + 1
  /\ disk' \in joined(fresh(Drawn[runs + 1].publisher))
  /\ scene' = "list" /\ item' = 1
  /\ UNCHANGED <<vars, awaiting, inFlight, applied, printed>>

goOn(where, at) == scene' = where /\ item' = at

\* One tool further, or on to the purchase.
nextTool == IF item < Len(CATALOG) THEN goOn("list", item + 1) ELSE goOn("buy", 0)

Skip ==
  /\ scene = "list" /\ awaiting = {}
  /\ CATALOG[item] \in DOMAIN tools
  /\ nextTool
  /\ UNCHANGED <<vars, disk, runs, awaiting, inFlight, applied, printed>>

\* A run submits at most one transaction in each place of its script.
Ids  == (1 .. Len(Drawn)) \X Scenes \X (0 .. MaxUint + Len(CATALOG))
here == <<runs, scene, item>>

send(x) ==
  /\ awaiting' = {x.id}
  /\ inFlight' = inFlight \cup {x}
  /\ UNCHANGED <<vars, disk, runs, scene, item, applied, printed>>

List ==
  /\ scene = "list" /\ awaiting = {}
  /\ unregistered(CATALOG[item])
  /\ send([id |-> here, action |-> "registerTool", tool |-> CATALOG[item],
           sk |-> disk.sk])

\* The agent's fresh secret replaces whatever is on disk before the agent
\* joins, and the nonce of the new pass is stored before the circuit runs.
asAgent_ByJoin == joined(fresh(mine.agent))
asAgent        == {fresh(mine.agent)}

Buy ==
  /\ scene = "buy"
  /\ \E state \in asAgent :
       disk' = [state EXCEPT !.held = {[nonce |-> mine.nonce, callsUsed |-> 0]}]
  /\ goOn("bought", 0)
  /\ UNCHANGED <<vars, runs, awaiting, inFlight, applied, printed>>

\* The circuit that runs in each scene, on the witnesses the disk holds.
circuitOf(where) == CASE where = "bought" -> "issuePass"
                      [] where = "spend"  -> "redeemCall"
                      [] where = "attest" -> "attest"

Call ==
  /\ scene \in {"bought", "spend", "attest"} /\ awaiting = {}
  /\ \E p \in disk.held :
       LET c     == passCommitment(target, disk.sk, p.nonce)
           index == IF scene = "attest" THEN CALLS ELSE p.callsUsed
       IN  /\ circuitHolds(circuitOf(scene), c, DemoAuditor, index)
           /\ send(proven(here, circuitOf(scene), c, index))

\* callTx resolves once the transaction is final; a redemption then counts.
settled(ids) == ids # {} /\ ids \subseteq applied

advance ==
  CASE scene = "list"   -> nextTool
    [] scene = "bought" -> goOn("spend", 1)
    [] scene = "spend"  -> IF item < CALLS THEN goOn("spend", item + 1)
                                           ELSE goOn("attest", 0)
    [] scene = "attest" -> goOn("audit", 0)

Resolve ==
  /\ settled(awaiting)
  /\ disk' = IF scene = "spend"
             THEN [disk EXCEPT !.held = {[p EXCEPT !.callsUsed = @ + 1] : p \in @}]
             ELSE disk
  /\ advance
  /\ awaiting' = {}
  /\ UNCHANGED <<vars, runs, inFlight, applied, printed>>

\* The auditor's side: what the run remembers, hashed again, and looked up in
\* a fresh copy of the ledger.
commitment      == passCommitment(target, mine.agent, mine.nonce)
expectedTag     == auditTag(DemoAuditor, commitment, CALLS)
onChain(i)      == callNullifier(commitment, i) \in spentCalls
\* The tag the run was answered: of the pass on disk.
attestedTag     == {auditTag(DemoAuditor, passCommitment(target, disk.sk, p.nonce),
                             CALLS) : p \in disk.held}

Audit ==
  /\ scene = "audit"
  /\ printed' = printed \cup
       {[run |-> runs, tagMatches |-> attestedTag = {expectedTag},
         everyCallChecks |-> \A i \in 0 .. CALLS - 1 : onChain(i),
         nextCallAbsent |-> ~onChain(CALLS)]}
  /\ goOn("none", 0)
  /\ UNCHANGED <<vars, disk, runs, awaiting, inFlight, applied>>

\* An await threw, or the process ended; its transaction stays where it is.
Leave ==
  /\ scene # "none"
  /\ goOn("none", 0)
  /\ awaiting' = {}
  /\ UNCHANGED <<vars, disk, runs, inFlight, applied, printed>>

Mined(x) ==
  /\ IF x.action = "registerTool"
     THEN registerTool(x.tool, DemoPrice, DemoQuota, x.sk)
     ELSE Apply(x, DemoAuditor)
  /\ inFlight' = inFlight \ {x}
  /\ applied' = applied \cup {x.id}
  /\ UNCHANGED <<disk, runs, scene, item, awaiting, printed>>

Reject(x) ==
  /\ inFlight' = inFlight \ {x}
  /\ UNCHANGED <<vars, disk, runs, scene, item, awaiting, applied, printed>>

DemoNext ==
  \/ StartDemo \/ Skip \/ List \/ Buy \/ Call \/ Resolve \/ Audit \/ Leave
  \/ \E x \in inFlight : Mined(x)
  \/ \E x \in inFlight : Reject(x)

DemoSpec == DemoInit /\ [][DemoNext]_demoAll

-----------------------------------------------------------------------------
(***************************************************************************)
(* Properties.                                                             *)
(***************************************************************************)
\* Every field has its type; the script stays inside its catalog and its
\* calls, and waits only for the transaction it submitted where it stands.
DemoTypeOK ==
  /\ TypeOK
  /\ disk \in Private /\ Cardinality(disk.held) <= 1
  /\ runs \in 0 .. Len(Drawn) /\ scene \in Scenes
  /\ scene = "list" => item \in DOMAIN CATALOG
  /\ scene = "spend" => item \in 1 .. CALLS
  /\ awaiting \subseteq {here}
  /\ inFlight \subseteq Tx(Ids) \cup ListTx(Ids)
  /\ applied \subseteq Ids /\ printed \subseteq Printout

\* A run that reaches its end prints a match and two times yes, whatever the
\* runs before it left on disk, on chain or under way (main.ts, step 4).
DemoVerdictIsTrue ==
  \A p \in printed : p.tagMatches /\ p.everyCallChecks /\ p.nextCallAbsent

\* The demo stays in its script and tells the truth at its end.
DemoInv == DemoTypeOK /\ DemoVerdictIsTrue
=============================================================================
