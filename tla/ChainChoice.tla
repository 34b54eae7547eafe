----------------------------- MODULE ChainChoice -----------------------------
(***************************************************************************)
(* Which network a visitor has picked (lib/chain.ts, lib/chain-server.ts   *)
(* and components/chain-switcher.tsx).                                     *)
(*                                                                         *)
(* The choice is a cookie that all tabs of a browser share.  The server    *)
(* resolves it anew for every request; a tab holds what the requests that  *)
(* rendered it resolved: the root layout its network and chain, the page   *)
(* below it its own.  Choosing in one tab writes the cookie and asks the   *)
(* server to render that tab again; the others learn of it when they next  *)
(* ask for something.  A run of the agent resolves the chain once.         *)
(*                                                                         *)
(* How a payment is made on either chain is in AlgorandPayment and         *)
(* CasperPayment; here it is one step.                                     *)
(***************************************************************************)
EXTENDS Naturals, Sequences

CONSTANTS
  Tabs,          \* tabs of one browser
  DEFAULT_CHAIN, \* the chain of this deployment
  noCookie,      \* what a request without the cookie, or with another text, has
  noRender,      \* no answer to a refresh has arrived
  MaxChoices,    \* bound: choices made in one behaviour
  MaxAgentRuns   \* bound: runs of the agent in one behaviour

CHAIN_IDS   == {"algorand", "casper"}
NETWORK_IDS == CHAIN_IDS \cup {"midnight"}

Render == [network : NETWORK_IDS, chain : CHAIN_IDS, body : CHAIN_IDS]

ASSUME ChoiceAssumption ==
  /\ DEFAULT_CHAIN \in CHAIN_IDS
  /\ noCookie \notin NETWORK_IDS /\ noRender \notin Render
  /\ MaxChoices \in Nat /\ MaxAgentRuns \in Nat

VARIABLES
  chosen,     \* the cookie
  choices,    \* choices made so far
  lastBy,     \* tabs that made the latest choice: one, or none so far
  shown,      \* tab -> what it shows
  refreshes,  \* tab -> refreshes asked for and not yet served
  rendered,   \* tab -> the answer to a refresh that is on its way to it
  overtaken,  \* tabs in which a navigation took the place of a refresh
  agentRuns   \* runs so far, [on, paidOn]

choiceVars == <<chosen, choices, lastBy, shown, refreshes, rendered, overtaken,
                agentRuns>>

\* getNetworkId: what the site shows.
networkOf(value) == IF value \in NETWORK_IDS THEN value ELSE DEFAULT_CHAIN

\* getChainId: what settles.  Midnight settles nothing.
settlementChainFor(value) == IF value \in CHAIN_IDS THEN value ELSE DEFAULT_CHAIN

\* RootLayout and the page in it, for one request.
renderOf(value) == [network |-> networkOf(value),
                    chain   |-> settlementChainFor(value),
                    body    |-> settlementChainFor(value)]

\* A browser arrives with a choice of last time, or with none.
ChoiceInit ==
  /\ chosen \in NETWORK_IDS \cup {noCookie}
  /\ choices = 0 /\ lastBy = {}
  /\ shown = [t \in Tabs |-> renderOf(chosen)]
  /\ refreshes = [t \in Tabs |-> 0]
  /\ rendered = [t \in Tabs |-> noRender]
  /\ overtaken = {}
  /\ agentRuns = <<>>

-----------------------------------------------------------------------------
(***************************************************************************)
(* The tabs.                                                               *)
(***************************************************************************)
\* Every choice asks for a refresh, also while an earlier one is under way.
asked_WhenIdle(t) == IF rendered[t] = noRender THEN refreshes[t] + 1
                     ELSE refreshes[t]
asked(t)          == refreshes[t] + 1

\* choose: nothing happens when the tab shows this network already, whatever
\* the cookie says.
Choose(t, id) ==
  /\ choices < MaxChoices
  /\ id # shown[t].network
  /\ chosen' = id
  /\ choices' = choices + 1 /\ lastBy' = {t}
  /\ refreshes' = [refreshes EXCEPT ![t] = asked(t)]
  /\ overtaken' = overtaken \ {t}
  /\ UNCHANGED <<shown, rendered, agentRuns>>

\* router.refresh is served one at a time, each with the cookie of that moment.
ServeRefresh(t) ==
  /\ refreshes[t] > 0 /\ rendered[t] = noRender
  /\ rendered' = [rendered EXCEPT ![t] = renderOf(chosen)]
  /\ refreshes' = [refreshes EXCEPT ![t] = @ - 1]
  /\ UNCHANGED <<chosen, choices, lastBy, shown, overtaken, agentRuns>>

ApplyRefresh(t) ==
  /\ rendered[t] # noRender
  /\ shown' = [shown EXCEPT ![t] = rendered[t]]
  /\ rendered' = [rendered EXCEPT ![t] = noRender]
  /\ UNCHANGED <<chosen, choices, lastBy, refreshes, overtaken, agentRuns>>

\* A link within the site renders the page below the root layout, which stays.
\* A refresh under way goes on, or the router drops it for the navigation.
Navigate(t) ==
  /\ shown' = [shown EXCEPT ![t].body = settlementChainFor(chosen)]
  /\ \/ UNCHANGED <<refreshes, rendered, overtaken>>
     \/ /\ refreshes[t] > 0 \/ rendered[t] # noRender
        /\ refreshes' = [refreshes EXCEPT ![t] = 0]
        /\ rendered' = [rendered EXCEPT ![t] = noRender]
        /\ overtaken' = overtaken \cup {t}
  /\ UNCHANGED <<chosen, choices, lastBy, agentRuns>>

\* The tab is loaded anew, also when the answer to a refresh was lost.
LoadTab(t) ==
  /\ shown' = [shown EXCEPT ![t] = renderOf(chosen)]
  /\ refreshes' = [refreshes EXCEPT ![t] = 0]
  /\ rendered' = [rendered EXCEPT ![t] = noRender]
  /\ overtaken' = overtaken \ {t}
  /\ UNCHANGED <<chosen, choices, lastBy, agentRuns>>

-----------------------------------------------------------------------------
(***************************************************************************)
(* POST /api/agent/run: one or more paid calls.                            *)
(***************************************************************************)
StartAgentRun ==
  /\ Len(agentRuns) < MaxAgentRuns
  /\ agentRuns' = Append(agentRuns,
                         [on |-> settlementChainFor(chosen), paidOn |-> {}])
  /\ UNCHANGED <<chosen, choices, lastBy, shown, refreshes, rendered, overtaken>>

\* The chain a call of a run is made on.
callsOn(r) == agentRuns[r].on

\* What the seller asks for: on Casper within the server, on Algorand from the
\* paid endpoint, which is asked without the visitor's cookie.
quotedOn(on) == IF on = "algorand" THEN settlementChainFor(noCookie) ELSE on

\* A quote for another chain cannot be signed: the call fails and the run goes
\* on.
PaidCall(r) ==
  LET on == callsOn(r)
  IN  /\ quotedOn(on) = on
      /\ agentRuns' = [agentRuns EXCEPT ![r].paidOn = @ \cup {on}]
      /\ UNCHANGED <<chosen, choices, lastBy, shown, refreshes, rendered,
                     overtaken>>

ChoiceNext ==
  \/ \E t \in Tabs, id \in NETWORK_IDS : Choose(t, id)
  \/ \E t \in Tabs : ServeRefresh(t)
  \/ \E t \in Tabs : ApplyRefresh(t)
  \/ \E t \in Tabs : Navigate(t)
  \/ \E t \in Tabs : LoadTab(t)
  \/ StartAgentRun
  \/ \E r \in DOMAIN agentRuns : PaidCall(r)

ChoiceSpec == ChoiceInit /\ [][ChoiceNext]_choiceVars

-----------------------------------------------------------------------------
(***************************************************************************)
(* Properties.                                                             *)
(***************************************************************************)
ChoiceTypeOK ==
  /\ chosen \in NETWORK_IDS \cup {noCookie}
  /\ choices \in 0 .. MaxChoices
  /\ lastBy \subseteq Tabs
  /\ shown \in [Tabs -> Render]
  /\ refreshes \in [Tabs -> Nat]
  /\ rendered \in [Tabs -> Render \cup {noRender}]
  /\ overtaken \subseteq Tabs
  /\ agentRuns \in Seq([on : CHAIN_IDS, paidOn : SUBSET CHAIN_IDS])

\* "the browser never disagrees with the server about which chain is settling":
\* a tab does so only while its refresh is under way, when a navigation took the
\* refresh's place, or after a choice in another tab.
TabFollowsItsChoice ==
  \A t \in Tabs :
    t \in lastBy \ overtaken /\ refreshes[t] = 0 /\ rendered[t] = noRender
      => shown[t] = renderOf(chosen)

\* "which signer actually moves the money": a run pays on the chain that was
\* chosen when it began, whatever any tab chooses while it goes on.
RunStaysOnItsChain ==
  \A r \in DOMAIN agentRuns : agentRuns[r].paidOn \subseteq {agentRuns[r].on}

\* A choice takes hold in the tab that made it and in no run before it.
ChoiceInv == ChoiceTypeOK /\ TabFollowsItsChoice /\ RunStaysOnItsChain
=============================================================================
