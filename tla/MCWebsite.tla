------------------------------ MODULE MCWebsite ------------------------------
(***************************************************************************)
(* What starts and what is shown, side by side: pages of the website that  *)
(* keep state, which are the feed of settlements, the sign-in button, the  *)
(* live demo and the network switcher, and the start of a Midnight wallet. *)
(* They share no state: each behaviour is a behaviour of one of them, the  *)
(* others stay at one initial state.  Nothing of the code is modelled      *)
(* here.                                                                   *)
(***************************************************************************)
(* Two versions of the feed and three polls.  Two accounts of a wallet.
   Three live tools, of which two fit the budget, and two runs.  Three
   starts of a process that opens a Midnight wallet, with a committed record
   and a configured seed or without.  Two tabs, three choices and a run of
   the agent.                                                              *)
EXTENDS LiveFeed, WalletPage, AgentPage, WalletStart, ChainChoice, TLC

CONSTANTS a1, a2, tab1, tab2
CONSTANTS market, scraper, attestor

MCLiveTools == <<market, scraper, attestor>>
MCToolPrice == (market :> 1) @@ (scraper :> 2) @@ (attestor :> 1)

-----------------------------------------------------------------------------
VARIABLE part

websiteVars == <<part, feedVars, walletVars, taskVars, startVars, choiceVars>>

\* Nothing that fairness asks for is enabled in a part that takes no step; the
\* feed of such a part is closed.
WebsiteInit ==
  /\ part \in {"feed", "wallet", "demo", "start", "choice"}
  /\ IF part = "feed" THEN FeedInit
     ELSE /\ version = 0 /\ feedRows = 0
          /\ feedPolls = {} /\ feedAnswers = {}
          /\ feedOpen = FALSE
  /\ WalletInit
  /\ part # "wallet" => /\ cookie.account = noSession
                        /\ active = CHOOSE a \in WalletAccounts : TRUE
  /\ TaskInit
  /\ StartInit
  /\ part # "start" => publicRecord = None /\ night[Foreign] = "none"
  /\ ChoiceInit
  /\ part # "choice" => chosen = noCookie

WebsiteNext ==
  /\ UNCHANGED part
  /\ \/ /\ part = "feed" /\ FeedNext
        /\ UNCHANGED <<walletVars, taskVars, startVars, choiceVars>>
     \/ /\ part = "wallet" /\ WalletNext
        /\ UNCHANGED <<feedVars, taskVars, startVars, choiceVars>>
     \/ /\ part = "demo" /\ TaskNext
        /\ UNCHANGED <<feedVars, walletVars, startVars, choiceVars>>
     \/ /\ part = "start" /\ StartNext
        /\ UNCHANGED <<feedVars, walletVars, taskVars, choiceVars>>
     \/ /\ part = "choice" /\ ChoiceNext
        /\ UNCHANGED <<feedVars, walletVars, taskVars, startVars>>

WebsiteSpec ==
  /\ WebsiteInit /\ [][WebsiteNext]_websiteVars
  /\ FeedFairness /\ WalletFairness /\ TaskFairness /\ StartFairness

\* Nothing hangs: the feed catches up, the button becomes free, a run comes to
\* its end, and a wallet that can get up does.
NothingHangs == FeedCatchesUp /\ BusyEnds /\ RunEndsOnPage /\ StartsUp
=============================================================================
