# Agentify OS in TLA+

Agentify OS is a marketplace where agents find tools, pay for each call over
x402 (HTTP 402) and get the result. This directory holds TLA+ models of the
parts of it that keep state, move money or answer several parties at once, the
TLC configurations that check them, and proofs of the properties that should
hold for every size of the system.

All paths below are relative to the repository (`src/` here). Line numbers are
in `PROJECT.json`, which maps every definition to the code it stands for.

## The system

### Components, their state and operations

`web` stands for `apps/web/src`, `scripts` for `apps/web/scripts`.

| component | code | state | operations |
|---|---|---|---|
| Nightpass contract | `midnight/contract/src/nightpass.compact` | catalog of tools, historic Merkle tree of pass commitments, set of call nullifiers, reputation per tool, count of passes, attestations | `registerTool`, `setToolActive`, `issuePass`, `redeemCall`, `attestUsage` |
| Compiled contract | `midnight/contract/src/managed/nightpass/contract/` | the same ledger, as entries that circuits read and write; transactions proven and not yet applied | run a circuit, apply or drop its transcript; accessors |
| Live Nightpass agent | `web/lib/nightpass-agent.ts`, `web/app/api/nightpass/run` | one wallet, a queue of jobs, ONE private-state slot, a session per visitor, a boot phase | boot, enqueue, issue, redeem, attest |
| Page of the live agent | `web/components/nightpass-*.tsx` | phase and pass shown, requests and answers under way, the verifier's inputs | poll, post, adopt a pass, audit it |
| Audit of passes | `web/lib/nightpass.ts`, `web/app/api/nightpass/verify` | none | read the ledger, look up the calls of a pass |
| Nightpass command line | `midnight/cli/src/api.ts`, `midnight/contract/src/witnesses.ts` | private state on disk: a secret, one pass per tool (nonce, calls used) | `issuePass`, `redeemCall`, `attestUsage` |
| Its demo, wallet and deployment | `midnight/cli/src/main.ts`, `wallet.ts`, `state.ts` | seed file, two deployment records, NIGHT and DUST of the wallet | deploy, demo; fund, designate, wait |
| Offline facilitator | `web/lib/x402/facilitator.ts`, `web/app/api/t/[slug]` | map of claimed nonces | `verify`, `settle`, the paid endpoint |
| Casper payments | `web/lib/x402/casper.ts`, `casper-route.ts` | none in memory; transactions at a node; rows of the ledger | verify, submit, poll, answer, record |
| Buyer library for Casper | `web/lib/x402/client.ts` | the call under way | ask, sign once, present, read the answer |
| Algorand payments | `web/lib/x402/algorand*.ts` | the cached client of a third-party facilitator | quote, verify, settle, record; the buyer's caps |
| Demo allowance and paid loop | `web/lib/security/spend.ts`, `web/app/api/agent/run`, `web/app/api/mcp`, `web/lib/x402/real-loop.ts` | units spent today, in Redis or per process; the budget of a run | `reserveSpend`, run, `call_tool` |
| Agent page | `web/app/agent/page.tsx` | the run shown and its meter | start, replay, leave |
| Sign-in | `web/lib/auth/siwx.ts`, `web/app/api/auth/*` | challenges in Redis or per process; sign-outs per process | mint, verify, read session, sign out |
| Sign-in button | `web/components/wallet-connect.tsx` | who is shown as signed in, requests under way | first GET, connect, sign out |
| Settlement ledger | `web/lib/store/ledger.ts`, `redis.ts` | two capped lists in Redis, mirrored in each process; one cached connection | append and trim, list, clear |
| Rate limiter | `web/lib/security/ratelimit.ts` | a window and a count per address, per process | `rateLimit`, the sweep |
| Live feed | `web/components/live-feed.tsx` | the rows shown, the newest ticket | poll, apply, give up |
| Tool registry contract | `contracts/tool-registry/src/main.rs`, `scripts/casper/registry-register.ts` | slug -> manifest hash, slug -> owner | `register_tool`; submit, poll, print |
| Set-up scripts | `scripts/casper/{keygen,fund,wrap,transfer,deploy-registry}.ts`, `scripts/algorand/{optin,fund,demo}.ts`, `scripts/cli.ts`, `scripts/mcp-server.ts` | key files and backups; balances and transactions on two chains | generate, back up, opt in, top up, transfer, install |
| Chain selection | `web/lib/chain.ts`, `web/lib/chain-server.ts`, `web/components/chain-switcher.tsx` | a cookie shared by the tabs of a browser; what each tab was rendered with; the chain of a run | choose, refresh, navigate, load, run |
| Catalog, discovery, configuration, payment encoding, tool handlers, other pages and scripts | see `PROJECT.json` | none that changes at run time | |

### How they interact

- A buyer calls the paid endpoint; the answer 402 names a price; the buyer signs
  an authorization and asks again. Offline, the facilitator in the process
  verifies and settles. With Casper configured, `casper-route.ts` verifies,
  submits a `transfer_with_authorization` to a node, polls and answers 200, 202
  or 402. On Algorand a third party simulates, submits and confirms the signed
  group. Each of them writes a row of the settlement ledger.
- An agent run and the MCP tool `call_tool` buy on behalf of visitors from the
  server's own wallet. An anonymous run first reserves its budget from the day's
  allowance, which is kept in Redis with a fallback in memory. The page replays
  the trace of the run when it is over.
- The Nightpass clients, website and command line, run circuits against the
  ledger they see, with witnesses from their private state, and submit the
  proof; the chain applies its transcript later, or never. The website's agent
  does this for all visitors with one wallet and one slot for witnesses; its page
  polls it and audits what it was told against the public ledger.
- The network a visitor chose is a cookie. Each request resolves it anew: for the
  layout, for the page below it, and for a run of the agent.
- Sign-in, ledger and allowance share one Redis connection, and each has its
  own fallback when a command throws.
- The operator's scripts make the keys, fund the accounts and anchor the listings
  that everything else takes for granted.

### What is hard here

- **Effects that outlive their request.** A transfer or a Midnight transaction
  is out of the caller's hands once a node took it. The answer may be lost
  before or after, the process may end, the poll may give up. Clients write
  their side before it (the command line's nonce) or after it (its counter, the
  agent's session) and can be left on either side. Set-up scripts are run again
  while the transaction of the run before is still on its way.
- **State shared across awaits.** The agent's slot, the facilitator's
  verify-then-settle, the challenge that is read and then deleted, the counter
  that is incremented and then tested, a proof against a ledger that moves on.
- **Answers out of order.** Pages poll, post and abort; what arrives last need not
  be what was asked last, and may come from before a restart.
- **Commands that fail after being applied.** Each Redis user falls back to
  memory when a command throws, and a command that throws may have happened.
- **Boundaries**: quotas and call indexes, seconds against milliseconds, two
  fixed windows inside a sliding one, caps of maps, lists and budgets.
- **Callers who choose their inputs**: witnesses of a circuit, copies of a signed
  payment, a message written around a known nonce, a forwarded-for header.

`PROJECT.json` lists each hazard at its line, with the property that would
notice it going wrong.

### What correctness means, per component

- Contract: only paid calls are ever recorded; reputation is exactly the calls
  made and cannot be had without passes; nothing a buyer relied on changes; an
  auditor who looks up every index of a pass sees all of its calls.
- Compiled contract: transactions proven side by side do nothing that circuits
  run one at a time would not do, and only real races are refused.
- Live agent: nobody's secret is used for another; sessions stay in step with
  the chain; every request is answered, in order.
- Its page: never ahead of the chain, whatever answer comes when.
- Command line: a pass that was bought is held until the next purchase for its
  tool is begun, whatever crashes; no call is counted that the chain has not; a
  seed that was drawn for a deployment is always on disk; a demo that ends tells
  the truth.
- Facilitator: one settlement per payment; only what the payer signed.
- Casper and Algorand payments: one service per payment; the ledger tells the
  truth; a buyer told no was not charged; nobody pays above a cap.
- Allowance and runs: grants within the cap, runs within their budgets, page and
  server with one account of them.
- Sign-in: a challenge is good once; a session is earned; a sign-out holds; the
  button shows who signed.
- Ledger: lanes keep the newest rows, views show recorded rows once.
- Rate limiter: at most twice the limit in any stretch of a window's length, at
  nobody else's cost.
- Chain selection: a tab ends on the network it chose last, unless a navigation or
  another tab overtook it; a run pays on the chain it began with.
- Registry: a slug is whose call landed first, and what stands under it is what
  that account's last call to land said.
- Scripts: no key the operator saw is lost; what is announced happened.

## Modules

```
PassBudget            abstract: a pass is a budget of calls
Nightpass             the contract                --implements--> PassBudget
  NightpassAudit        accessors, reader and verifier on its ledger
  NightpassTx           running a circuit from a client: prove, submit, apply
    NightpassAgent        the website's agent, composed with the contract
                                                  --implements--> PassService
    NightpassCli          the command line's wallet, composed with the contract
    NightpassDemo         the demo, run again and again on one disk
NightpassTranscript   the compiled contract       --implements--> Nightpass
PassService           abstract: what the live agent promises visitors
  NightpassPage         the page, composed with that promise
WalletStart           seed, funding, deployment records, boot
Facilitator           offline facilitator and its route
CasperPayment         Casper route, node and token contract
  CasperBuyer           the buyer library, composed with the server
AlgorandPayment       buyer, route, third-party facilitator
DemoSpend             allowance, agent run, call_tool
AgentPage             a run and the page that replays it
ChainChoice           cookie, tabs, refreshes, the chain of a run
SignIn                challenges, sessions, sign-out
WalletPage            the sign-in button
LedgerStore           the two lanes over one Redis connection
RateLimit             windows, sweep, forwarded addresses
LiveFeed              tickets, aborts, late answers
ToolRegistry          the contract and the script that writes it
CasperKeys            keys and their backups
AlgorandFunding, CasperFunding   the scripts that move money
  SetupScripts          the two side by side, and what both announce
MC*                   constants, symmetry and bounds for TLC
```

The theorems and their proofs:

| module | about |
|---|---|
| `NightpassProofs` | `Nightpass`, `NightpassAudit` |
| `NightpassTranscriptProofs` | `NightpassTranscript` |
| `NightpassAgentProofs` | `NightpassAgent` |
| `ClientProofs` | `AlgorandPayment`, `ChainChoice`, `NightpassCli`, `NightpassDemo`, `SetupScripts` |
| `GateProofs` | `Facilitator`, `SignIn` |
| `OperatorProofs` | `CasperPayment`, `CasperBuyer`, `DemoSpend`, `CasperKeys` |
| `ServerProofs` | `LedgerStore`, `RateLimit`, `ToolRegistry` |
| `WebsiteProofs` | `LiveFeed`, `WalletPage`, `AgentPage`, `WalletStart`, `NightpassPage` |

Five of the MC modules put components side by side that share no state:
`MCClientSide`, `MCGate`, `MCOperatorSide`, `MCServerSide` and `MCWebsite` have a
variable `part`, chosen at the start. A behaviour is a behaviour of that
component, and the others stay at an initial state, in which nothing that
fairness asks for is enabled. The states of such a model are the *sum* of the
components' states and not their product.

A definition `x_Something` next to a definition `x` is a plausible mistake in the
code that `x` models. No action uses it; each property names one such mistake
that it notices (`mutants` in `PROJECT.json`). Several invariants are conjunctions
of named parts, each commented where it is defined.

### Nightpass, NightpassAudit

One action per exported circuit, one variable per ledger field. An action is a
transaction the chain accepts: its guards are the asserts, and a circuit whose
assert fails does nothing. Hashes do not collide, so a commitment is the record
of what was hashed, and the domain separators of the four hashes are the
different fields of the records. `checkRoot` of a *historic* tree accepts any
root there ever was, so a path is good when its leaf was ever inserted. The
witnesses are parameters without constraints: what holds here holds against
every client. `Map.insert` of the standard library is the external `Insert`.

`ImplementsPassBudget` is the refinement: with each issued pass mapped to its
quota and to the number of its nullifiers, the contract is `PassBudget`, in which
a pass is granted once and each use takes one call.

The reader and the verifier of the website and the audit of the demo each fetch
the ledger once and compute on the copy: they are operators on a state.

### NightpassTranscript

What reaches the chain is not a circuit but a transcript: the queries the circuit
made and the results it saw. The chain repeats the queries and refuses the
transaction if one answers differently; it repeats no assert. `Reads` and
`Effect` are, per circuit, what the compiled JavaScript pushes; `Prove` runs the
asserts on today's ledger, `Apply` compares the reads with another day's, `Drop`
gives up. `ImplementsContract` says that what the circuits read is enough for the
asserts still to hold when they apply; `OnlyRacesLose` says it is not too much, so
that nobody's purchase makes somebody else's proof stale.

### NightpassTx, NightpassAgent, NightpassCli, NightpassDemo

`NightpassTx` splits `callTx` of the Midnight library into the three moments that
matter to a client: the circuit runs against the ledger as it is (`circuitHolds`,
`proven`), the transaction is submitted, and the chain applies it if what the
circuit read has not changed (`readsHold`, `Apply`). The actions of `Nightpass`
are the effect of applying it.

`NightpassAgent` adds the queue (`runtime.queue`), the jobs, the slot, the
sessions, boot and restart. A job is *armed* when it has written the slot and
*submitted* when `callTx` has sent its transaction; it succeeds when the
transaction is final, and it can fail at any moment, also after the transaction
was applied. Other holders of passes and the publisher use the contract at the
same time (`Elsewhere`). `PassService` is what a visitor can rely on: the pass shown
exists, calls are told in order and at most one is on record that was not told.

`NightpassCli` has one operation at a time (the command line is a menu) and a
wallet that survives a crash. `Abandon` is a failed `callTx` as well as a crash:
both leave the disk as it was last written and the transaction where it is. A
purchase writes its nonce first, over the pass that was held for the tool;
`drawnFor` is the history of what was drawn for which tool.

`NightpassDemo` is the script of `main.ts` over the same operations. A run can end
at any await and the next one starts over on what it left: listed tools, a
private state, transactions under way.

### NightpassPage

The page over `PassService`: the server's side of it takes any step the service
may take, on behalf of this visitor or another, and restarts. GETs are counted on
their way and become snapshots on their way back, in any order; a POST is one at
a time.

The verifier's form is a pass (secret and nonce), a slug and a number of calls. It
is filled by adopting what the page shows and edited piece by piece, also while a
request is under way. An audit is three steps: the request leaves with the form of
that moment (`DeriveAndCheck`), the server reads the chain (`ReadChain`), and the
answer is shown (`Checked`); it can be lost between any two. A request is `handed`
when it asks for the pass, the tool and no more than the calls that the page last
handed over. Of the verifier's steps, the first (it reads the whole public state)
and the comparison of hashes in the second change nothing that the third uses and
are left out.

### WalletStart

A run is one start of a process of one of three kinds (deploy, demo, the agent's
boot) and can end after any of its steps. Seeds, contracts and records are the
numbers of the runs they come from, so that "the seed on disk is the one that
deployed" is an equation. NIGHT arrives when it wants to and is designated for
DUST by who looks for it.

Not everything comes from this disk. `Foreign` stands for what does not: the
deployment that is committed with the code, whose seed and local record are not
(`midnight/deployment.json` has one for preview and none for preprod, so both
starts are modelled), and a seed that is configured and kept by its owner, funded
or not. Each start is configured anew (`Launch`): `NIGHTPASS_SEED` can be unset,
the seed of the file or the foreign one, and the agent needs it;
`NIGHTPASS_CONTRACT` can be unset or any contract on chain, and takes the place of
either record. An address of nothing cannot be joined and is left out.

### Facilitator

Requests are processes that yield wherever the route awaits: between arriving,
`verify`, `settle` and serving. `settle` itself is one step, as its claim and its
checks run without an await. Time is in ticks with `TicksPerSecond` of them to a
second, because the sweep compares milliseconds and the window whole seconds.

### CasperPayment, CasperBuyer

Each request verifies, submits, polls and answers; the chain executes, reverts or
expires independently. The node's reply to the submission can be lost after it
accepted; a poll can fail or run out. The token contract's used-authorization
table and the deadline are external. The buyer signs once and reads the answer;
others can present what it signed.

### AlgorandPayment

A buyer asks, is quoted, checks its caps (`NaN` included), signs one group and
presents it; the group can be presented again for any listing. The server holds a
cached promise of the facilitator's client, which several requests may wait for
and which is dropped when it failed. `verify`, `settle`, the row and the answer
are separate steps, with requests, answers, the process and the facilitator
failing in between.

### DemoSpend, AgentPage, ChainChoice

Every Redis command is a step. With `RedisIsReliable = FALSE` each of them may
throw, applied or not, after which the code falls back to the process's counter
(`ReserveLocally`) or ignores the error (`GiveBack`). A process can end at any
moment, with its requests. A run walks its plan and stops at the first failure; a
failed call may have moved its price. What was granted through Redis and through
each process, and what refused requests left counted, are history variables:
the properties compare the code's counters with them.

`AgentPage` has the same run seen from its page: planned from what is listed and
what the task's words call for, paid tool by tool, broken off by a tool that
throws after it was paid, answered once and replayed. `charged`, what the wallet
has paid, is a history variable, and a step carries what was left after it, which
the code sends only for the last.

`ChainChoice` has one browser with several tabs. A tab shows what the request that
rendered it resolved; a refresh is served with the cookie of that moment and
applied later; a navigation renders the page and leaves the layout, and may take
the place of a refresh under way. A run resolves the chain once, and how it pays
is one step.

### SignIn, WalletPage

GET and DEL of `consumeNonce` are separate steps, so two verifications of one
challenge overlap, on one server or on two. A command can throw, applied or not,
and the server then asks its own memory. The challenge's expiry, the eviction
from the bounded map, restarts and the clock are steps as well. The tokens are
stateless; the per-account cutoff lives in the memory of the server that signed
the account out. `WalletPage` is the button: its first GET, the three round trips
of connecting and the two of leaving, while the user switches accounts.

### LedgerStore, RateLimit, LiveFeed

An append connects, pushes, trims and mirrors in separate steps, each of which may
throw; a read connects, reads or falls back. The history variable `pushed` is what
Redis ever took. `RateLimit` is one map of one process with its clock; a request
carries the addresses its client wrote and those the proxies appended. `LiveFeed`
tells the newest ticket from superseded ones, which is all the code compares.

### ToolRegistry, CasperKeys, AlgorandFunding, CasperFunding

The registry's transactions are submitted by the publisher's script and by
strangers and land in any order, late or never; the marketplace edits what it
serves meanwhile. A manifest is the fields the hash covers and those it does not.
`landed` is the history of the order in which transactions land.
Keys are numbers in the order in which they are drawn, files hold a key, nothing
or the start of one, and a run of `keygen.ts` can be interrupted between any two
file operations. The funding scripts read, decide, submit and wait for a while,
one at a time, over a chain on which the transaction of an earlier one may land
later. `fund.ts` is asked for ALGO, for USDC or for both, zero included.
`SetupScripts` has the Algorand and the Casper scripts side by side: they
share an operator and nothing else.

## What is checked

| run | question | distinct states |
|---|---|---|
| `nightpass_contract` | Is every recorded call paid for, inside its quota, counted once? Is the contract a budget per pass, are its records well formed, and is its public record whole? | 47 000 |
| `nightpass_transcripts` | Does the compiled contract, with transactions proven side by side, do what its source says? | 246 000 |
| `nightpass_agent` | Do two visitors with one slot ever mix secrets; do sessions follow the chain; is everyone answered; is it the service it promises? | 138 000 |
| `nightpass_page` | Does the page ever show or audit what is not so? | 1 082 000 |
| `client_side` | Passes and demo of the command line, Algorand payments: what survives crashes, lost answers and a facilitator that fails? | 604 000 |
| `gate` | Are a payment and a challenge each good once? | 3 345 000 |
| `operator_side` | Casper payments and their buyer, the allowance, keys and funding scripts: is what is said of money true? | 1 715 000 |
| `server_side` | Ledger, limiter, registry: do they keep what they are given? | 457 000 |
| `website` | Feed, button, agent page: do they show the latest, and come to rest? Does a choice of network take hold where it was made, and in no run before it? Does a wallet that starts get up, and are its seed and its records kept? | 160 000 |
| `facilitator_replay` | Does a nonce settle at most once? | **violated** at the deadline |
| `casper_failed` | Does "failed" mean that no funds moved? | **violated** |
| `nightpass_audit_gap` | Is an audit that finds call *n* absent exact? | **violated** |

### Properties worth a word

- `ImplementsPassBudget` and `ReputationCostsPasses` count nullifiers. The contract
  does not count per pass and does not check that a commitment is new: that a
  quota holds follows only from the index being part of the nullifier.
- `ContractInv` is the types of the ledger and `ReputationCostsPasses`.
- `PublicRecordIsWhole` adds up the counters, the tree and the nullifiers, and says
  that an audit of all the indexes below the quota finds every call. An audit of
  the first *n* and the next one does not, see below.
- `CounterTracksChain` says that the chain has exactly the calls the session
  counted, or one more (the one whose answer was lost). Without the queue two
  overlapping redemptions of one visitor would break it.
- `AgentInv` contains `AttestedCallsAreOnRecord`, which the contract does not enforce
  (it bounds a claim by the quota only). It holds because the agent claims what it
  counted, and counts what is final; and `AnsweredInOrder`.
- `AuditConfirmsVisitor` relates three moments: what the page said was spent when the
  request left is found by the server that reads the chain later and shown later
  still. It speaks of the request the answer belongs to. The answer is shown under
  the form of its own time: a pass adopted with more calls, after an older request
  was sent, stands above an answer that was asked for fewer.
- `CliInv`: the wallet never believes more calls spent than the chain has, and a pass
  that was bought is held until the next purchase for its tool is begun. No more
  can be said: that purchase takes its place on disk before it is submitted.
  `DemoInv`: a demo that reaches its end prints three times yes, whatever earlier
  runs left behind. Its `nextCallAbsent` cannot fail within TLC's bounds, where the
  calls of the script are all the quota has; `DemoHolds` has no such bound.
- `StartInv`: a seed that was drawn here and opened a wallet, was funded or deployed
  is the one on disk, with or without seeds configured for other runs; what is
  recorded or used is on chain; the website's record, where it was made here, is
  never ahead of the command line's; a wallet taken to be up can pay. Of seeds and
  records from elsewhere it says only what the code can know: a fresh checkout has
  a website with a contract of which the command line knows nothing.
- `AlgorandInv`: a result is handed out and a row written on a confirmed transfer of
  this listing's price and on each transfer once; a refusal before settlement
  moved nothing; caps bound what is submitted, `NaN` and the MCP server's cap
  included; what was delivered is on the books.
- `SettledOnceBeforeDeadline` is as strong as it can be: at the deadline
  `facilitator_replay` shows the second settlement.
- `SpendInv`: grants stay within the cap for each counter, one for Redis and one
  for each process; grants through both together can exceed it, as the code's
  comment says.
- `BurntOncePerStore`: normally a challenge is in one store and is burnt once.
  When the SET reached Redis but its answer did not come back, the code keeps the
  challenge in memory as well, and two servers can each burn one copy.
- `SignInInv` contains `SignedOutStaysOut`, which is about the server that handled
  the sign-out, as long as it runs. Other servers and restarts forget it, as the
  comment at `siwx.ts:252` accepts.
- `LedgerInv`: however pushes and trims of several processes interleave or throw, a
  lane is the newest rows it was given, in order, its cap of them at least; the
  dashboard shows real, settled, recorded rows, each once.
- `LimitInv`: twice the limit is what two adjacent windows let through, and no more;
  nobody is charged for another's requests; whoever waits as told is let through.
- `ChoiceInv`: a tab that made the latest choice shows it once its refresh is there,
  unless a navigation took the refresh's place; a run pays on one chain, the one
  that was chosen when it began.
- `RegistryInv`: a slug is the account's whose call landed first, and its hash is that
  of this account's last call to land, so an update that was executed is never
  ignored and a stranger's never counts. Where the anchored hash agrees with what
  is served, the covered fields are ones the owner committed to.
- The liveness properties are `EveryRequestAnswered` (agent), `PageCatchesUp` (its
  page), `QuotesHeal` (Algorand), `SelfHeals` (ledger) and `NothingHangs`, which is
  `FeedCatchesUp`, `BusyEnds`, `RunEndsOnPage` and `StartsUp` together.
- `ScriptsAreHonest` and `KeysAreKept`: what is announced is executed, an opt-in is not
  repeated, the agent is topped up once, and a key that was shown stays on disk.
  On Casper a balance that passed its check was enough, unless another transaction
  of the wallet was on its way. On Algorand it need not be, see below, and no
  property says so; what is announced has executed all the same.

### Where code and comments differ

Three runs check a sentence of the repository that the code does not keep:

1. `web/lib/x402/facilitator.ts:35` says a nonce may settle at most once. In the
   last second of its window the claim is swept while the payment is still
   accepted (`NonceSettlesAtMostOnce`).
2. `web/lib/x402/casper.ts:304` says "failed" means that no funds moved. A lost reply
   to the submission or one failed poll is reported as failed while the transfer
   goes on to execute (`FailedMovedNoFunds`).
3. `midnight/cli/src/main.ts:197` says "claim is exact, not a lower bound". The index
   of a redemption is the caller's choice, so calls 0 and 2 can be spent and call 1
   not: a claim of one call is confirmed and two were made
   (`ConfirmedClaimIsExact`). The clients of this repository spend without holes;
   the contract does not ask them to.

Others were seen while modelling and have no run of their own. Where a property
states what does hold, its name is given.

Midnight:

- `midnight/cli/src/api.ts:147` says a failed call does not silently burn quota. When
  a redemption applies and its answer is lost, the wallet's index stays behind,
  every further attempt is refused as already redeemed, and the rest of the pass
  cannot be used (`CliInv` says that the wallet errs only on that side). The
  agent's session has the same fate until the process restarts.
- The command line's wallet is keyed by tool (`witnesses.ts:41`): buying a second
  pass for a tool drops the first with the calls left on it. It does so before the
  purchase is submitted (`api.ts:135`), so one that is refused or cut off there
  costs the first pass and buys nothing.
- `main.ts:113` says publisher and agent are separate identities. Whether they are
  depends on what the library's `join` does with a private state it finds; the
  demo therefore writes the agent's explicitly, over that of an earlier run, whose
  pass is lost with it. The publisher's secret lives in the process only.
- The two deployment records are written one after the other (`state.ts:38`): a
  process that ends in between leaves the website on an older contract. The
  committed one (`state.ts:14`) makes the website of a fresh checkout know a
  contract that the command line does not.
- `main.ts:62` says of the seed it drew that it owns the deployment. A run with
  `NIGHTPASS_SEED` set deploys under that seed and saves it nowhere (`state.ts:18`).
- The agent reads the record when it boots (`nightpass-agent.ts:166`) and the
  verifier on each request, so after a new deployment they look at different
  contracts until the process restarts. A boot that failed is not tried again
  (`nightpass-agent.ts:152`), and one that found no NIGHT waits for DUST for ever (`StartsUp` names that
  exception).
- `nightpass-run.tsx:54` says the next poll tries again. Polling starts with an
  answer that says "warming", so a page whose first GET failed never asks again.
  A late answer to a GET can also set a pass back to none after a POST showed it.
- `web/lib/nightpass.ts:203` says the call beyond those claimed must be absent. After a
  lost answer it may be there, and an honest visitor's audit then says no. The
  verifier shows an answer under whatever has been adopted or edited since
  (`nightpass-verifier.tsx:161`).

Payments:

- The buyer library takes every 2xx answer for a settled payment, also the 202
  of a pending one (`client.ts:115-120`; `OkIsOnTheBooks`).
- Nothing is claimed before a Casper payment is broadcast: two requests with one
  authorization both submit and both pay gas; only the token contract separates
  them.
- `algorand-client.ts:184` says "never delivered, so nothing settled" of every fetch
  that throws, also of one whose answer was lost (`AlgorandInv` says which refusals
  do mean that).
- `algorand-route.ts:94` says the buyer must have paid for THIS resource. Price and
  payee are matched and the resource is not: a transfer for one listing unlocks
  another of the same price and payee, once.
- `docs/TESTNET.md:24` says the allowance keeps the wallet from being drained.
  `call_tool` (`web/app/api/mcp/route.ts:119`) spends from the same wallet without
  reserving.
- The give-back after a refused reservation is best effort: when it is lost, the
  day's allowance stays smaller than what was granted (`SpendInv`).
- A run whose tool throws after it was paid ends as HTTP 500: the money moved, no
  row was written for that call, and the page shows an error (`TaskInv` counts it).
- A run on Algorand asks the paid endpoint over HTTP without the visitor's cookie
  (`web/lib/x402/algorand-client.ts`), and the endpoint resolves the deployment's
  default. Where that is Casper, every call of such a run is quoted in Casper and
  fails; it never pays on the wrong chain (`RunStaysOnItsChain`).
- The MCP server answers "cancelled by client" also after the payment settled
  (`mcp-server.ts:197`).

Server and pages:

- "Single-use is enforced atomically across them" (`siwx.ts:70`) has the exception
  described at `BurntOncePerStore`.
- `ledger.ts:72` says an empty lane comes back empty. An empty list falls back to
  process memory, so rows come back after `clearLedger` on another instance; and
  rows written during an outage vanish from view when Redis returns
  (`SelfHeals`).
- `ledger.ts:114` keeps headroom for failed rows with `Math.max(n, 200)`: from the
  default of 200 upwards there is none.
- The registry's comments (`main.rs:3`, `registry-register.ts:4`) promise that a change
  of the schema becomes detectable and that the hash commits to exactly what is
  served. It covers slug, name, tagline, payee and prices.
- The button's first GET, when it is answered late, overwrites what connecting
  showed; a sign-out whose DELETE failed is shown as done (`WalletInv` excludes
  both by name).
- The feed aborts a poll at its next tick, two seconds later: on a connection
  slower than that no answer ever arrives (`FeedCatchesUp` assumes that one does).

Scripts:

- `optin.ts:22` asks for 0.101 ALGO. The opt-in raises the minimum balance from 0.1 to
  0.2 and costs 0.001: an account with 0.2 passes the check and is refused by the
  network. `fund.ts --algo` does not leave the sender its minimum.
- `optin.ts` prints an opt-in without a transaction when it finds the account opted
  in meanwhile.
- `deploy-registry.ts:79` prints "install failed" when the wait for it has run out,
  and the contract may be installed later.

## Bounds

| model | bounds | why they are enough |
|---|---|---|
| Nightpass | 2 tools, 2 secrets, 1 nonce, quotas 0, 1, 2, `MaxUint` 3, tree of 2 leaves, audits of 2 calls | passes of different tools and of different agents; a refused quota; an index below, at and above the quota; one pass bought twice; a full tree. 3 nullifiers of 2 passes separate counts per pass from counts per tool |
| NightpassTranscript | 2 tools, 1 secret, 2 nonces, quotas 0 and 1, tree of 2, 2 clients | two transactions in flight are all a race needs; two roots to be proven against |
| NightpassAgent | 2 visitors, 3 fresh keys, a publisher and another holder; 3 requests; quotas 2 and 3 | two visitors overlap; one visitor buys, redeems, loses the answer and redeems or attests; the tool's own quota equals the session's or exceeds it |
| NightpassPage | one tab, one pass of 2 calls and a throwaway, 2 slugs, 2 GETs under way | the later of two GETs answered first; a call counted and one not; a restart in between; a form edited, adopted again or about another tool while an audit is under way |
| NightpassCli | 2 tools, 2 nonces, 4 operations, quotas 1 and 2 | passes for two tools or one replaced by another; buy, redeem, lose, retry |
| NightpassDemo | 2 runs, a catalog of 2, 2 calls | a second run over all that a first one can leave |
| WalletStart | 3 runs; a committed deployment or none; a foreign seed whose NIGHT is designated or that has none; configured or not in each run | two deploys and a demo or an agent after either, any of them cut off, each with its own disk, configured or foreign seed and contract |
| AlgorandPayment | 2 payers, one transfer presented twice, 2 prices, caps 0, 3 and `NaN`, purse of 3 | one transfer for two listings; a cap below a price; a purse that pays for one |
| Facilitator | a payment that two tools accept, its forged copy, a payment not yet valid; 3 requests; 2 ticks to a second, 6 ticks (7 in `facilitator_replay`) | the three concurrent presentations that a claim has to separate; every order of window, sweep and settle |
| SignIn | 2 servers, 2 challenges, 2 attempts, one entry per map, 2 ticks | two attempts at one challenge on one or two servers; eviction; expiry between GET and DEL; a token of the tick of a sign-out |
| CasperPayment, CasperBuyer | one authorization, 3 presentations (two authorizations in `casper_failed`) | the buyer's own and two copies; authorizations do not interact in other ways |
| DemoSpend | 2 processes, 3 requests, cap 5, budgets 2 and 4, plan 2 then 2 | two grants that fit, two that do not, a give-back between them; a run stopped half way |
| CasperKeys | 2 roles, 3 keys, 2 backups each | a role rotated twice, or once beside another; a torn file backed up |
| AlgorandFunding | 2 accounts, 3 transfers, one top-up; starts of 100 and 301 units (of 0.001 ALGO); `fund.ts` for 100 units, for 0 or 2 of USDC, or both | an opt-in that is affordable and one that is not; a transfer that lands after two later ones |
| CasperFunding | 2 wallets, 2 transactions, three starting balances | too little, enough for one, enough for two |
| LedgerStore | 2 processes, 2 real rows and 1 mock, caps of 1 | a trim that cuts, a push between push and trim, a clear by the other process |
| RateLimit | 3 addresses of which one is a proxy, limit 1, window 3, 5 ticks, one forged token, a map of 1 | two windows meet inside a third; a sweep with and without something to drop |
| ToolRegistry | 1 slug, a publisher and a stranger, 2 manifests, 2 schemas, 3 transactions | a stranger first, a stranger after, two versions in either order |
| LiveFeed | 2 changes, 3 polls and answers at once | an older answer after a newer one, twice |
| WalletPage | 2 accounts | the account switched between any two steps |
| ChainChoice | 2 tabs, 3 choices, 1 run | two choices in one tab and one in the other; a run with choices before and after it |
| AgentPage | 3 tools of which the budget of 3 pays two, 2 runs | a run refused, stopped by its budget, and broken off |

`MaxRequests`, `MaxOperations`, `MaxCalls`, `MaxMinted`, `MaxVerifies`, `MaxIssued`,
`MaxRuns`, `MaxGets`, `MaxChoices`, `MaxAgentRuns`, `MaxTxs`, `MaxTransfers`, `MaxPuts`, `MaxKeys`, `MaxBaks`, `MaxTasks`,
`MaxVersion`, `MaxPolls`, `LastTick` and `MaxTime` bound counters that are unbounded in
the code or in its environment; nothing else is cut. Deadlock checking is off in the
models that end when these bounds are reached; in `nightpass_contract`,
`nightpass_transcripts`, `nightpass_agent` and `nightpass_page` something can always
happen, and it stays on.

## Fairness

- `nightpass_agent`: `WF(StartJob)`, `WF(RefuseJob)`, `WF(Boot)`: the event loop runs
  callbacks that are ready, and boot either publishes the providers or throws.
  `WF(JobSucceeds or JobFails)`: `callTx` settles. This last one is an assumption
  about the Midnight library. Nothing in the agent bounds the wait, and a `callTx`
  that never settled would hold up every visitor behind it. No fairness is asked
  of the chain, of visitors or of restarts.
- `nightpass_page` (`PageFairness`): the timer fires; of the GETs that are sent again
  and again one is answered, and an answer is applied. `PageCatchesUp` asks that
  of a server whose boot has ended.
- `client_side`: the facilitator's client either comes up or rejects, and a
  visitor who asks again is answered (`AlgorandFairness`).
- `server_side` (`LedgerFairness`): a connection attempt settles and dashboards are
  read. That Redis stays reachable is the premise of `SelfHeals`.
- `website`: the feed's timer fires and some poll in time is answered
  (`FeedFairness`); each request of connecting settles (`WalletFairness`; a wallet
  dialog is closed one way or the other); the run's calls settle and the replay's
  timers fire (`TaskFairness`); a starting wallet's own steps go on, the faucet
  pays and the chain designates (`StartFairness`).

The other runs check safety only and state no fairness.

## What is proved

The proofs are checked by TLAPS and hold for all values of the constants that
satisfy the named assumptions of their modules. Every safety invariant and every
action property that a run checks, and each of the three refinements, is stated
by a theorem. An invariant is proved by a strengthening that is inductive, one
lemma per action (or per kind of step), and PTL. What follows is what each
strengthening adds and why it is needed.

**NightpassProofs.** The invariants of the contract are not inductive on their
own. `IInv` adds:

- `PassesAreForTools`: a pass exists only for a listed tool. Otherwise a later
  `registerTool` could give an old pass another quota, and
  `SpentCallsAreEntitled` would not survive it.
- `Counted`: the sets that are counted are finite and there are no more passes
  than sales; this makes cardinalities grow by one with each insertion.

`InitIInv` and one lemma per circuit show that `IInv` is inductive
(`ContractInvariant`). `NoPassOverspent` follows as the nullifiers of a pass
inject into `0 .. quota - 1`; `ReputationCostsPasses` follows by mapping each
nullifier of a tool to its pass and index, of which there are passes times quota.
`Permanent` is the action property, and `ImplementsBudget` the refinement: the
initial state maps to the initial state, `issuePass` to `Grant` or a stutter
(when a pass is bought again), `redeemCall` to `Use`, everything else to a stutter.

`RecordIsWhole` is about sums over all listed tools and all passes. A fold over a
finite set is defined by recursion, and what it adds up to would be shown by
induction over the set. Here the induction is a choice: among the subsets for
which a sum fails to be what it should, take a smallest one; it is not empty, and
without one of its members the sum was right (`SmallestSubset`, and the lemmas on
sums after it). `FewTools` adds to `IInv` that finitely many tools are listed.

**NightpassTranscriptProofs.** `CompiledImplementsContract`: every applied
transaction is a step of its circuit in `Nightpass`. The invariant says that each
transaction in flight is a call whose asserts held on the *results it carries*
(`Proven`), that every root in the history is a root of leaves that are still
there (`RootsArePast`), that leaves are passes and are counted (`CountedLeaves`),
and that a tool has a reputation counter exactly when it is listed
(`ServedAreCounters`). When `Apply` finds its reads unchanged, the asserts hold on
the ledger as it is. `HistoryHolds` says which trees the history is of, and
`OnlyRacesAreLost` is the other direction, pair of circuits by pair of circuits: a
transaction that applies changes no read of another, but for the races that are
named.

**NightpassAgentProofs.** It builds on the contract's invariant: every step of
the agent is a step of the contract or leaves it alone, so `IInv` is kept by
`ContractStep`. What is added: requests carry consecutive numbers, so the number
taken from the queue tells which transactions can be about (`InOrder`); one job
runs, it has the slot while it is armed, and nothing of it is submitted yet
(`OneJob`); no two sessions share a key (`SessionsApart`); what a job is about to
record follows what its visitor holds (`JobsTrue`); a transaction on its way is
of a key that was drawn and can only record a call its holder has counted or is
about to (`TxsTrue`); and `CounterTracksChain` call by call (`Tracked`), because
cardinalities do not survive a step on their own. `OwnSecret`, `CounterTracks` and
`AgentIsHonest` follow. `ImplementsService` is the refinement: a purchase that lands
is `Issue`, a redemption that lands is `Record`, the success of a job `Grant` or
`Count`, a restart `Forget`, everything else a stutter. The cardinality that the
refinement mapping takes is computed in a lemma of its own.

**ClientProofs.**

- *Algorand.* `AlgorandInv` speaks of what was charged and of what is submitted;
  between the two lie signing and settling, of which `AlgorandIInv` keeps that
  what is presented was signed within its buyer's cap (`PresentedWasSigned`) and
  that a request's own settlement submits its transfer (`SettlesItsOwn`).
- *Chain choice.* `ChoiceInv` says nothing of a tab that is still waiting;
  `RefreshBrings` says that what was chosen is shown or on its way. A tab that asked
  while an answer to an earlier refresh was under way has asked again, which is
  why it comes.
- *Command line.* `CliIInv` is the contract's `IInv` and the client's part: what
  was or may yet be bought has a nonce that was drawn for its tool, and the wallet
  holds, for each tool, the nonce drawn for it last (`BoughtInOrder`); one operation
  is under way, the one begun last (`OneOfEach`); what its transaction can do is
  what it announced (`OperationTrue`). Without the order of nonces, nothing would
  tell a pass that was replaced from one that was lost.
- *Demo.* The script is laid out in a line, `Position`. `PlacesBehind` says that
  what this run has submitted lies behind where it is, apart from the transaction
  it waits for; so the index it spends next is spent by nobody before it
  (`CallsOfScript`), whatever earlier runs left in flight.
- *Set-up scripts.* `FundingIInv` adds that an opt-in about to be sent is of an
  account no earlier one was reported for (`NoOptInIsRepeated`), and that an agent
  holds, while a top-up for it is being sent or waited for, no more than what it was
  given otherwise (`AgentHeldNothing`); here too balances are sums over
  transactions. `CsprIInv` adds that a balance read while a wallet had
  nothing on its way is still there when the transaction is put, until another
  one overtakes it. `ScriptsHold` puts the two together.

**GateProofs.** The facilitator's `FacilitatorIInv` is the checked invariants and
`ClaimsExpireAtDeadline`: the expiry stored with a claim is the deadline of the
payment that settled under it. Without it a sweep could drop a claim that still
guards a payment. It needs `PaymentAssumption`, that a payer signs one
authorization per nonce; a forged copy may share the nonce, and `AsAuthorized`
shows that no forgery settles. The arithmetic of seconds and ticks is in two
lemmas. For signing in, `BurntOncePerStore` counts attempts against stores, and
`SignInIInv` balances them: the attempts that burnt a challenge and the stores that
still hold it are together no more than the stores it was written to
(`BurntFromStores`, with `HeldWhereWritten`). `FoundInTime` and `TokensAreEarned` carry
what was looked up over the steps to the token, however late they are.

**OperatorProofs.**

- *Casper payments.* `OneServicePerPayment` says nothing of transfers, so it is not
  inductive: `PaymentIInv` adds that a settled request's own transfer executed
  (`ServedWasPaid`), that one transfer executes per authorization
  (`OneTransferPerAuth`, from the external contract's guard) and that an answer 200
  or 202 has left its row behind (`AnsweredIsRecorded`). Most steps of the server
  only move one request to another stage; `AdvanceStep` is the lemma for all of
  them. The theorems do not need the deadline or the reliability of the node.
- *The buyer.* An answer is backed by the row and the transfer it speaks of
  (`AnswersAreBacked`), a call has seen the answer to its own request (`CallsFollow`),
  and a step of the server or of the chain takes nothing of that back (`Kept`).
- *Allowance.* Redis counts at least what was granted through it and what
  refused requests are about to give back. That the latter is the history
  variable `refused` is a sum over requests; the invariant says that a running
  total over them exists (`RefusedAddUp`), and each step exhibits the next one. `BudgetIsKept` is about the
  calls of a run.
- *Keys.* A key is lost when what is written over was shown and not copied.
  `KeysIInv` says where a run can be: writing only over nothing, or with force over
  what is in a backup (`RunAgrees`), and that every key was drawn once and for one
  role (`KeyOfItsOwn`), so that a fresh one was never shown.

**ServerProofs.** `LedgerIInv` says of each list which stages its rows' appends can
be at (`MemoryOK`, `StoreOK`), that Redis holds a prefix of what it ever took, no
shorter than the cap or than all of it (`NewestKept`), and of a dashboard under way
what it can have read (`JobsOK`). `LimitIInv` counts, per address (`WindowsAreCounted`): while no window
is open, what passed less than a window's length ago is one window's (`Quiet`);
while one is, its count is what passed in it, and what passed shortly before it
is one window's (`Opened`). A stretch of a window's length meets two of them,
hence twice the limit. `HintsHold` is what a client that was told to wait can
count on.
`RegistryIInv`: that a slug's hash is its owner's last word is inductive, as one
transaction lands at a time (`LandedStands`). What the script prints is decided by
a transaction that executed earlier, so it needs `ExecutedIsOwned` (an executed transaction has its sender as
owner of its slug for good, and its hash in the history) and
`ScriptsAreThePublishers`.

**WebsiteProofs.**

- *Feed.* `NeverGoesBack` needs that an answer to the newest ticket is no older than
  what is shown (`NewestIsFresh`): only a ticket that is newest may be applied, and a
  newer one is taken before an answer to it exists.
- *Button.* `WalletIInv`: any name that can come to be shown has signed
  (`NamesHaveSigned`); without one of the named disorders one request goes on at a
  time (`OneThingAtATime`).
- *Agent page.* `TaskIInv`: what is paid and not booked is the call under way, for
  which the budget had room (`LoopIsSound`); each step follows from the one before
  it, and the last one has what the wallet paid (`StepsAreTheAccount`), which
  makes the page's addition an equation along the steps and needs no sum; rows are
  the steps that went well (`RowsAreTheSteps`).
- *Start of a wallet.* `StartIInv`: every wallet was opened with the seed on disk or
  with one from elsewhere (`SeedsAreTheFile`); runs are launched in order and one
  command runs at a time, none older than the local record (`OneCommand`); and a
  run records what it deployed itself (`SavesItsOwn`).
- *Page of the live agent.* `PageIInv` bounds every copy of a pass there is, in the
  session, in an answer under way, on the page and in the form, by the public
  record, which only grows; a request for what was handed over asks for calls on
  record, and an answer keeps what it says from the moment the server read the
  chain (`AuditTrue`). `ServiceTrue` and `RecordGrows` are what is used of the
  service; by `ImplementsService` the agent keeps them.

## What is only model-checked

The liveness properties: `EveryRequestAnswered`, `PageCatchesUp`, `QuotesHeal`,
`SelfHeals` and `NothingHangs`. They rest on fairness, and the proof system cannot
reason about `ENABLED`. Of the violations, only the runs speak.

## What is not modelled, and why

- Cryptography, proofs and Merkle paths, typed data and signatures: an external,
  sound notion is enough for every property here.
- Amount formatting, message texts, headers, logging, what pages draw.
- Wallet synchronisation, its persistence, coin selection and fees of Midnight;
  gas on Casper beyond what the scripts check.
- Catalog, discovery and configuration: static tables and environment. Of chain
  selection, whether a chain is ready, its links and the conversion of prices.
- The tool handlers: pure functions and outbound fetches behind a paid call.
- Read-only scripts (balances, preflight), browser drivers, the demo video.
- `casper-route.ts:140`: a process that ends between the execution of a transfer
  and its row leaves money moved and nothing recorded. The code promises nothing
  for that window and no property covers it; the steps are in the model.

## What is left

1. An abstract `PaidCall` (at most one service per payment, a service only for a
   payment) that `Facilitator`, `CasperPayment` and `AlgorandPayment` all implement,
   with the refinements proved.
2. `LedgerStore` composed with the rows that `CasperPayment` writes, and `SignIn` with
   `WalletPage`, instead of one step of each standing for the other.
3. The premises of the liveness properties as invariants of their own (who waits
   is waited for), so that what is left to fairness is as little as can be.
