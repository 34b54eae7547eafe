----------------------------- MODULE WalletStart -----------------------------
(***************************************************************************)
(* Starting a Midnight wallet and finding the contract: the command line   *)
(* (midnight/cli/src/main.ts, wallet.ts, state.ts) and the boot of the     *)
(* live agent (apps/web/src/lib/nightpass-agent.ts).                       *)
(*                                                                         *)
(* A run is one start of a process.  It opens the wallet of a seed, waits  *)
(* until it is synced, has its NIGHT designated for DUST, waits for DUST   *)
(* and then deploys the contract (deploy), uses it (demo) or serves        *)
(* visitors with it (agent).  Any run can end anywhere; what it leaves is  *)
(* the seed file, the two deployment records, and what the chain holds.    *)
(* The operator runs one command at a time; the agent runs beside it.      *)
(*                                                                         *)
(* What runs find need not come from this disk: a deployment is committed  *)
(* with the code (midnight/deployment.json, for preview and not for        *)
(* preprod) while seeds and local records are not, NIGHTPASS_SEED takes    *)
(* the place of the seed file, and NIGHTPASS_CONTRACT that of either       *)
(* record.  The environment is set anew for each process.  An address that *)
(* is pasted there is taken to be one of a contract: nobody can join any   *)
(* other.                                                                  *)
(***************************************************************************)
EXTENDS Naturals

CONSTANT MaxRuns  \* bound: number of the last run

ASSUME RunsAssumption == MaxRuns \in Nat \ {0}

\* Deployments and seeds are named after the run they come from, in order.
None == 0                 \* no file, no deployment, not configured
Foreign == 1              \* from another disk: the deployment that is committed,
                          \* a seed that is configured and kept by its owner
Runs == 2 .. MaxRuns
Sources == {Foreign} \cup Runs
Kinds == {"deploy", "demo", "agent"}

VARIABLES
  launched,      \* the last run so far
  kind,          \* run -> what is running
  stage,         \* run -> where it is
  seed,          \* run -> its NIGHTPASS_SEED, and then the seed of its wallet
  address,       \* demo and agent run -> contract it found when it started
  seedFile,      \* seed on disk
  localRecord,   \* .nightpass/deployment.<network>.json
  publicRecord,  \* midnight/deployment.json, which the website reads
  night,         \* seed -> state of its NIGHT: none, plain, pending, designated
  dust,          \* seeds whose wallet has DUST
  contracts      \* contracts on chain: [run, seed] that deployed it

startVars == <<launched, kind, stage, seed, address, seedFile, localRecord,
               publicRecord, night, dust, contracts>>
chainVars == <<night, dust, contracts>>
fileVars  == <<seedFile, localRecord, publicRecord>>

Stages == {"off", "opening", "syncing", "unfunded", "synced", "awaitingDust",
           "up", "deployed", "saved", "ready", "ended"}

StartInit ==
  /\ launched = Foreign
  /\ kind = [r \in Runs |-> "none"]
  /\ stage = [r \in Runs |-> "off"]
  /\ seed = [r \in Runs |-> None]
  /\ address = [r \in Runs |-> None]
  /\ seedFile = None /\ localRecord = None
  /\ publicRecord \in {None, Foreign}
  /\ night \in [Sources -> {"none", "designated"}]
  /\ \A s \in Runs : night[s] = "none"
  /\ dust = {}
  /\ contracts = {[run |-> Foreign, seed |-> Foreign]}

moves(r, from, to) ==
  /\ stage[r] = from
  /\ stage' = [stage EXCEPT ![r] = to]

alive(r)  == stage[r] \notin {"off", "ended"}
agents    == {r \in Runs : kind[r] = "agent"}
commands  == Runs \ agents
onChain   == {c.run : c \in contracts}

-----------------------------------------------------------------------------
(***************************************************************************)
(* Starting.  demo and the agent need a deployment and refuse to start     *)
(* without; the agent also needs its seed configured.                      *)
(***************************************************************************)
refuses(k, deployment) == k # "deploy" /\ deployment = None

recorded(k) == CASE k = "deploy" -> None
                 [] k = "demo"   -> localRecord
                 [] k = "agent"  -> publicRecord

\* What NIGHTPASS_SEED and NIGHTPASS_CONTRACT can be set to: the seed of the
\* file, or one from elsewhere; any contract there is.
seedsToConfigure     == {None, Foreign, seedFile}
contractsToConfigure == {None} \cup onChain

Launch(k, configured, pasted) ==
  LET r          == launched + 1
      deployment == IF k # "deploy" /\ pasted # None THEN pasted ELSE recorded(k)
  IN  /\ launched < MaxRuns
      /\ IF k = "agent" THEN configured # None /\ ~ \E a \in agents : alive(a)
                        ELSE ~ \E c \in commands : alive(c)
      /\ launched' = r
      /\ IF refuses(k, deployment)
         THEN moves(r, "off", "ended") /\ UNCHANGED <<kind, seed, address>>
         ELSE /\ moves(r, "off", "opening")
              /\ kind' = [kind EXCEPT ![r] = k]
              /\ seed' = [seed EXCEPT ![r] = configured]
              /\ address' = [address EXCEPT ![r] = deployment]
      /\ UNCHANGED <<fileVars, chainVars>>

\* The seed that is configured, or the one on disk, or a fresh one that is on
\* disk before it is used.
savedSeed(fresh) == fresh

OpenWallet(r) ==
  LET fresh == seed[r] = None /\ seedFile = None
  IN  /\ moves(r, "opening", "syncing")
      /\ seed' = [seed EXCEPT ![r] = IF seed[r] # None THEN seed[r]
                                     ELSE IF fresh THEN r ELSE seedFile]
      /\ seedFile' = IF fresh THEN savedSeed(r) ELSE seedFile
      /\ UNCHANGED <<launched, kind, address, localRecord, publicRecord,
                     chainVars>>

\* A command whose wallet is empty asks for funds and waits for them; the
\* agent goes on without.
Sync(r) ==
  /\ moves(r, "syncing", IF r \in commands /\ night[seed[r]] = "none"
                         THEN "unfunded" ELSE "synced")
  /\ UNCHANGED <<launched, kind, seed, address, fileVars, chainVars>>

Funded(r) ==
  /\ moves(r, "unfunded", "synced")
  /\ night[seed[r]] # "none"
  /\ UNCHANGED <<launched, kind, seed, address, fileVars, chainVars>>

\* Without DUST, the NIGHT that is there and not designated yet is.
designate_Never(s) == night
designate(s) ==
  IF night[s] = "plain" THEN [night EXCEPT ![s] = "pending"] ELSE night

canPay(s) == s \in dust

RegisterForDust(r) ==
  LET s == seed[r]
  IN  /\ moves(r, "synced", IF canPay(s) THEN "up" ELSE "awaitingDust")
      /\ night' = IF canPay(s) THEN night ELSE designate(s)
      /\ UNCHANGED <<launched, kind, seed, address, fileVars, dust, contracts>>

WaitForDust(r) ==
  /\ moves(r, "awaitingDust", "up")
  /\ canPay(seed[r])
  /\ UNCHANGED <<launched, kind, seed, address, fileVars, chainVars>>

-----------------------------------------------------------------------------
(***************************************************************************)
(* What a run does with its wallet.                                        *)
(***************************************************************************)
Deploy(r) ==
  /\ kind[r] = "deploy"
  /\ moves(r, "up", "deployed")
  /\ contracts' = contracts \cup {[run |-> r, seed |-> seed[r]]}
  /\ UNCHANGED <<launched, kind, seed, address, fileVars, night, dust>>

\* saveDeployment writes the local record and then the public one.
afterDeploy_PublicFirst == <<"public", "local">>
afterDeploy             == <<"local", "public">>

SaveDeployment(r) ==
  /\ \/ moves(r, "deployed", "saved")
     \/ moves(r, "saved", "ready")
  /\ LET file == IF stage[r] = "deployed" THEN afterDeploy[1]
                                          ELSE afterDeploy[2]
     IN  IF file = "local"
         THEN localRecord' = r /\ UNCHANGED publicRecord
         ELSE publicRecord' = r /\ UNCHANGED localRecord
  /\ UNCHANGED <<launched, kind, seed, address, seedFile, chainVars>>

\* The agent joins the contract it found when it booted.
Join(r) ==
  /\ kind[r] = "agent"
  /\ moves(r, "up", "ready")
  /\ UNCHANGED <<launched, kind, seed, address, fileVars, chainVars>>

\* A command that has finished, an error anywhere, or the end of the process,
\* and of what it had in memory.
End(r) ==
  /\ alive(r)
  /\ stage' = [stage EXCEPT ![r] = "ended"]
  /\ kind' = [kind EXCEPT ![r] = "none"]
  /\ seed' = [seed EXCEPT ![r] = None]
  /\ address' = [address EXCEPT ![r] = None]
  /\ UNCHANGED <<launched, fileVars, chainVars>>

-----------------------------------------------------------------------------
(***************************************************************************)
(* The chain and the faucet.                                               *)
(***************************************************************************)
\* The address of a wallet is shown by its run, and known to who has the seed.
Faucet(s) ==
  /\ night[s] = "none"
  /\ s \in {Foreign, seedFile} \/ \E r \in Runs : seed[r] = s
  /\ night' = [night EXCEPT ![s] = "plain"]
  /\ UNCHANGED <<launched, kind, stage, seed, address, fileVars, dust,
                 contracts>>

Designated(s) ==
  /\ night[s] = "pending"
  /\ night' = [night EXCEPT ![s] = "designated"]
  /\ UNCHANGED <<launched, kind, stage, seed, address, fileVars, dust,
                 contracts>>

Generate(s) ==
  /\ night[s] = "designated" /\ s \notin dust
  /\ dust' = dust \cup {s}
  /\ UNCHANGED <<launched, kind, stage, seed, address, fileVars, night,
                 contracts>>

walletStep(r) ==
  \/ OpenWallet(r)
  \/ Sync(r)
  \/ Funded(r)
  \/ RegisterForDust(r)
  \/ WaitForDust(r)
  \/ Deploy(r)
  \/ SaveDeployment(r)
  \/ Join(r)

StartNext ==
  \/ \E k \in Kinds, configured \in seedsToConfigure,
        pasted \in contractsToConfigure : Launch(k, configured, pasted)
  \/ \E r \in Runs : walletStep(r)
  \/ \E r \in Runs : End(r)
  \/ \E s \in Sources : Faucet(s) \/ Designated(s) \/ Generate(s)

\* Promises settle, a funded address is funded in the end, and the chain
\* applies a designation and generates.  Nobody has to start anything.
StartFairness ==
  /\ \A r \in Runs : WF_startVars(walletStep(r))
  /\ \A s \in Sources :
       /\ WF_startVars(Faucet(s))
       /\ WF_startVars(Designated(s))
       /\ WF_startVars(Generate(s))

StartSpec == StartInit /\ [][StartNext]_startVars /\ StartFairness

-----------------------------------------------------------------------------
(***************************************************************************)
(* Properties.                                                             *)
(***************************************************************************)
\* Fields have their types, and what runs without deploying has a contract to
\* use.
StartTypeOK ==
  /\ launched \in Foreign .. MaxRuns
  /\ kind \in [Runs -> Kinds \cup {"none"}]
  /\ stage \in [Runs -> Stages]
  /\ seed \in [Runs -> Sources \cup {None}]
  /\ address \in [Runs -> Sources \cup {None}]
  /\ {seedFile, localRecord} \subseteq Runs \cup {None}
  /\ publicRecord \in Sources \cup {None}
  /\ night \in [Sources -> {"none", "plain", "pending", "designated"}]
  /\ dust \subseteq Sources
  /\ contracts \subseteq [run : Sources, seed : Sources]
  /\ \A r \in Runs : alive(r) /\ kind[r] # "deploy" => address[r] # None

\* "Keep it: it owns the deployment": a seed that was drawn here, and not
\* configured, is the one on disk when a wallet was opened with it or funded,
\* or a contract deployed, at whatever point a run ended (openWallet).
DeployerSeedIsKept ==
  /\ \A r \in Runs : seed[r] \in Runs => seed[r] = seedFile
  /\ \A c \in contracts : c.seed \in Runs => c.seed = seedFile
  /\ \A s \in Runs : night[s] # "none" => s = seedFile

\* Whatever is recorded or used is on chain, and the website knows of no
\* deployment made here that the command line does not: a run that ended
\* between the two writes leaves the website behind, on an older contract that
\* exists, or on the one that is committed.
RecordsAreDeployments ==
  /\ {localRecord, publicRecord} \ {None} \subseteq onChain
  /\ publicRecord \in Runs => publicRecord <= localRecord
  /\ \A r \in Runs : address[r] # None => address[r] \in onChain

\* "Without this step a funded wallet still cannot afford a single
\* transaction": a wallet that is taken to be up can pay.
UpCanPay ==
  \A r \in Runs : stage[r] \in {"up", "deployed", "saved", "ready"} =>
    canPay(seed[r])

\* A run gets its wallet up, or ends, from however little it started with:
\* the one that can wait forever is an agent whose NIGHT came after it had
\* looked for NIGHT to designate.
StartsUp ==
  <>[](\A r \in Runs :
         \/ stage[r] \in {"off", "up", "deployed", "saved", "ready", "ended"}
         \/ /\ r \in agents /\ stage[r] = "awaitingDust"
            /\ night[seed[r]] = "plain")

\* Files, funds and chain agree wherever a run ended: the seed, the records,
\* and what a wallet that is up can do.
StartInv ==
  StartTypeOK /\ DeployerSeedIsKept /\ RecordsAreDeployments /\ UpCanPay
=============================================================================
