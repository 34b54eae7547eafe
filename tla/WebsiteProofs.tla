--------------------------- MODULE WebsiteProofs ----------------------------
(***************************************************************************)
(* Theorems about the website in a browser: the live feed, for any number  *)
(* of polls; the wallet in the header, for any accounts; the agent page    *)
(* and its server's loop, for any tools, prices and budgets; the Midnight  *)
(* wallet of the scripts, for any number of runs; and the page of the live *)
(* agent, for any visitors, quota and number of polls.                     *)
(***************************************************************************)
EXTENDS LiveFeed, WalletPage, AgentPage, WalletStart, NightpassPage,
        FiniteSetTheorems, TLAPS

-----------------------------------------------------------------------------
(***************************************************************************)
(* LiveFeed.                                                               *)
(***************************************************************************)
\* The one answer that may still change the rows is as fresh as the rows.
NewestIsFresh == \A a \in feedAnswers : a.newest => a.version >= feedRows

FeedIInv == FeedTypeOK /\ NewestIsFresh

LEMMA FeedInitially == FeedInit => FeedIInv
BY FeedAssumption DEF FeedInit, FeedIInv, FeedTypeOK, NewestIsFresh

\* A tick leaves no other poll or answer with the newest ticket.
LEMMA FeedTickStep == FeedIInv /\ FeedTick => FeedIInv'
<1> SUFFICES ASSUME FeedIInv, FeedTick PROVE FeedIInv'
  OBVIOUS
<1>1. PICK late \in SUBSET feedPolls, back \in SUBSET feedAnswers :
        /\ feedPolls' = {FALSE : p \in late} \cup {TRUE}
        /\ feedAnswers' = {[a EXCEPT !.newest = FALSE] : a \in back}
  BY DEF FeedTick, superseded
<1>2. UNCHANGED <<version, feedRows, feedOpen>>
  BY DEF FeedTick
<1>3. \A a \in feedAnswers' :
        a \in [newest : BOOLEAN, version : 0 .. version] /\ ~a.newest
  <2>1. ASSUME NEW a \in [newest : BOOLEAN, version : 0 .. version]
        PROVE  /\ [a EXCEPT !.newest = FALSE]
                    \in [newest : BOOLEAN, version : 0 .. version]
               /\ [a EXCEPT !.newest = FALSE].newest = FALSE
    OBVIOUS
  <2>2. back \subseteq [newest : BOOLEAN, version : 0 .. version]
    BY DEF FeedIInv, FeedTypeOK
  <2> QED
    BY <1>1, <2>1, <2>2
<1>4. feedPolls' \subseteq BOOLEAN
  BY <1>1
<1>5. NewestIsFresh'
  BY <1>3 DEF NewestIsFresh
<1>6. feedAnswers' \subseteq [newest : BOOLEAN, version : 0 .. version']
  BY <1>2, <1>3
<1>7. /\ \A a, b \in feedAnswers' : a.newest /\ b.newest => a = b
      /\ TRUE \in feedPolls' => \A a \in feedAnswers' : ~a.newest
  BY <1>3
<1> QED
  BY <1>2, <1>4, <1>5, <1>6, <1>7 DEF FeedIInv, FeedTypeOK

\* An answer carries the version of the moment, which no page is ahead of.
LEMMA FeedAnswerStep ==
  ASSUME FeedIInv, NEW newest \in BOOLEAN, AnswerPoll(newest) PROVE FeedIInv'
<1> DEFINE new == [newest |-> newest, version |-> version]
<1>1. /\ feedPolls' = feedPolls \ {newest}
      /\ feedAnswers' = feedAnswers \cup {new}
      /\ UNCHANGED <<version, feedRows, feedOpen>>
  BY DEF AnswerPoll
<1>2. newest \in feedPolls
  BY DEF AnswerPoll
<1>3. new \in [newest : BOOLEAN, version : 0 .. version] /\ version >= feedRows
  BY FeedAssumption DEF FeedIInv, FeedTypeOK
<1>4. new.newest => TRUE \in feedPolls /\ TRUE \notin feedPolls'
  BY <1>1, <1>2
<1>5. new.newest => \A a \in feedAnswers : ~a.newest
  BY <1>4 DEF FeedIInv, FeedTypeOK
<1>6. new.newest = newest /\ new.version = version
  OBVIOUS
<1> HIDE DEF new
<1>7. \A a, b \in feedAnswers' : a.newest /\ b.newest => a = b
  BY <1>1, <1>5 DEF FeedIInv, FeedTypeOK
<1>8. TRUE \in feedPolls' => \A a \in feedAnswers' : ~a.newest
  BY <1>1, <1>4 DEF FeedIInv, FeedTypeOK
<1>9. NewestIsFresh'
  BY <1>1, <1>3, <1>6 DEF FeedIInv, NewestIsFresh
<1> QED
  BY <1>1, <1>3, <1>7, <1>8, <1>9 DEF FeedIInv, FeedTypeOK

\* Only the newest answer changes the rows, and then it was the last one.
LEMMA FeedApplyStep ==
  ASSUME FeedIInv, NEW a, ApplyAnswer(a) PROVE FeedIInv' /\ feedRows' >= feedRows
<1>1. /\ a \in feedAnswers
      /\ a \in [newest : BOOLEAN, version : 0 .. version]
      /\ feedAnswers' = feedAnswers \ {a}
      /\ UNCHANGED <<version, feedPolls, feedOpen>>
      /\ version \in Nat /\ feedRows \in 0 .. version
  BY FeedAssumption DEF ApplyAnswer, FeedIInv, FeedTypeOK
<1>2. \/ a.newest /\ feedRows' = a.version
      \/ feedRows' = feedRows
  BY DEF ApplyAnswer, mayApply
<1>3. a.newest => /\ a.version >= feedRows
                  /\ \A b \in feedAnswers' : ~b.newest
  BY <1>1 DEF FeedIInv, FeedTypeOK, NewestIsFresh
<1>4. feedRows' \in 0 .. version /\ feedRows' >= feedRows
  BY <1>1, <1>2, <1>3
<1>5. NewestIsFresh'
  BY <1>1, <1>2, <1>3 DEF FeedIInv, NewestIsFresh
<1> QED
  BY <1>1, <1>4, <1>5 DEF FeedIInv, FeedTypeOK

\* Nothing goes wrong by what gets lost.
LEMMA FewerPollsStep ==
  ASSUME FeedIInv, UNCHANGED <<version, feedRows>>, feedOpen' \in BOOLEAN,
         feedPolls' \subseteq feedPolls, feedAnswers' \subseteq feedAnswers
  PROVE  FeedIInv' /\ feedRows' >= feedRows
<1>1. version' = version /\ feedRows' = feedRows /\ feedRows \in Nat
  BY FeedAssumption DEF FeedIInv, FeedTypeOK
<1>2. /\ \A a, b \in feedAnswers' : a.newest /\ b.newest => a = b
      /\ TRUE \in feedPolls' => \A a \in feedAnswers' : ~a.newest
  BY DEF FeedIInv, FeedTypeOK
<1>3. /\ feedPolls' \subseteq BOOLEAN
      /\ feedAnswers' \subseteq [newest : BOOLEAN, version : 0 .. version']
  BY <1>1 DEF FeedIInv, FeedTypeOK
<1>4. NewestIsFresh'
  BY <1>1 DEF FeedIInv, NewestIsFresh
<1>5. feedRows' \in 0 .. version' /\ feedRows' >= feedRows
  BY <1>1 DEF FeedIInv, FeedTypeOK
<1>6. FeedTypeOK'
  BY <1>1, <1>2, <1>3, <1>5 DEF FeedIInv, FeedTypeOK
<1> QED
  BY <1>4, <1>5, <1>6 DEF FeedIInv

\* Every step keeps the invariant and does not take the rows back.
LEMMA FeedStep == FeedIInv /\ [FeedNext]_feedVars => FeedIInv' /\ feedRows' >= feedRows
<1> SUFFICES ASSUME FeedIInv, [FeedNext]_feedVars PROVE FeedIInv' /\ feedRows' >= feedRows
  OBVIOUS
<1> USE FeedAssumption
<1>0. feedRows \in Nat /\ version \in Nat
  BY DEF FeedIInv, FeedTypeOK
<1>1. CASE SettlementRecorded
  <2>1. version' = version + 1 /\ version' \in 0 .. MaxVersion
    BY <1>1 DEF SettlementRecorded, FeedIInv, FeedTypeOK
  <2>2. UNCHANGED <<feedRows, feedPolls, feedAnswers, feedOpen>>
    BY <1>1 DEF SettlementRecorded
  <2>3. [newest : BOOLEAN, version : 0 .. version]
          \subseteq [newest : BOOLEAN, version : 0 .. version']
    BY <1>0, <2>1
  <2>4. feedRows' \in 0 .. version' /\ feedRows' >= feedRows
    BY <1>0, <2>1, <2>2 DEF FeedIInv, FeedTypeOK
  <2>5. FeedTypeOK'
    BY <2>1, <2>2, <2>3, <2>4 DEF FeedIInv, FeedTypeOK
  <2> QED
    BY <2>2, <2>4, <2>5 DEF FeedIInv, NewestIsFresh
<1>2. CASE FeedTick
  <2>1. FeedIInv'
    BY <1>2, FeedTickStep
  <2>2. feedRows' = feedRows
    BY <1>2 DEF FeedTick
  <2> QED
    BY <1>0, <2>1, <2>2
<1>3. ASSUME NEW newest \in BOOLEAN, AnswerPoll(newest)
      PROVE  FeedIInv' /\ feedRows' >= feedRows
  <2>1. FeedIInv'
    BY <1>3, FeedAnswerStep
  <2>2. feedRows' = feedRows
    BY <1>3 DEF AnswerPoll
  <2> QED
    BY <1>0, <2>1, <2>2
<1>4. ASSUME NEW newest \in BOOLEAN, NEW v \in 0 .. MaxVersion,
             ApplyAnswer([newest |-> newest, version |-> v])
      PROVE  FeedIInv' /\ feedRows' >= feedRows
  BY <1>4, FeedApplyStep
<1>5. CASE PollFails
  <2>1. /\ feedPolls' \subseteq feedPolls /\ feedAnswers' \subseteq feedAnswers
        /\ UNCHANGED <<version, feedRows>> /\ feedOpen' \in BOOLEAN
    BY <1>5 DEF PollFails, FeedIInv, FeedTypeOK
  <2> QED
    BY <2>1, FewerPollsStep
<1>6. CASE Unmount
  <2>1. /\ UNCHANGED <<version, feedRows, feedPolls, feedAnswers>>
        /\ feedOpen' \in BOOLEAN
    BY <1>6 DEF Unmount
  <2> QED
    BY <2>1, FewerPollsStep
<1>7. CASE UNCHANGED feedVars
  <2>1. UNCHANGED <<version, feedRows, feedPolls, feedAnswers, feedOpen>>
    BY <1>7 DEF feedVars
  <2>2. feedOpen' \in BOOLEAN
    BY <2>1 DEF FeedIInv, FeedTypeOK
  <2> QED
    BY <2>1, <2>2, FewerPollsStep
<1> QED
  BY <1>1, <1>2, <1>3, <1>4, <1>5, <1>6, <1>7 DEF FeedNext

-----------------------------------------------------------------------------
\* One poll is the newest, and no answer, on its way or shown, is ahead of the
\* ledger: at any number of polls.
THEOREM FeedTypeCorrect == FeedSpec => []FeedTypeOK
<1>1. FeedIInv => FeedTypeOK
  BY DEF FeedIInv
<1> QED
  BY FeedInitially, FeedStep, <1>1, PTL DEF FeedSpec

\* The rows on the page never go back, in whatever order answers come.
THEOREM NeverGoesBack == FeedSpec => FeedNeverGoesBack
<1>1. FeedSpec => [][FeedNext]_feedVars /\ []FeedIInv
  BY FeedInitially, FeedStep, PTL DEF FeedSpec
<1>2. FeedIInv /\ [FeedNext]_feedVars => [feedRows' >= feedRows]_feedVars
  BY FeedStep
<1> QED
  BY <1>1, <1>2, PTL DEF FeedNeverGoesBack

-----------------------------------------------------------------------------
(***************************************************************************)
(* WalletPage.                                                             *)
(*                                                                         *)
(* The invariant adds that whatever name can come to be shown has signed,  *)
(* and that without one of the disorders the page's requests go one at a   *)
(* time.                                                                   *)
(***************************************************************************)
\* Every name that can come to be shown has signed.
NamesHaveSigned ==
  /\ \A s \in {session, cookie.account, firstGet.session} : s # noSession => s \in signed
  /\ connecting.at = "accepted" => connecting.account \in signed

\* Without a disorder one thing goes on at a time: the first answer, connecting,
\* signing out.
OneThingAtATime ==
  ~untidy =>
    /\ firstGet.at # "done" =>
         /\ session = noSession /\ revoked = {} /\ cookie.token = "first"
         /\ firstGet.session = cookie.account
         /\ connecting.at = "idle" /\ leaving = "no"
    /\ connecting.at # "idle" =>
         session = noSession /\ current = noSession /\ leaving = "no"
    /\ leaving # "no" => session # noSession

\* The inductive invariant.
WalletIInv == WalletInv /\ NamesHaveSigned /\ OneThingAtATime

LEMMA WalletInitially == WalletInit => WalletIInv
<1>. SUFFICES ASSUME WalletInit PROVE WalletIInv
  OBVIOUS
<1>. USE WalletAssumption DEF WalletInit, Session, notConnecting
<1>1. WalletTypeOK
  BY DEF WalletTypeOK
<1>2. ShownHasSigned /\ NamesHaveSigned
  BY DEF ShownHasSigned, NamesHaveSigned
<1>3. IdlePageAgrees /\ OneThingAtATime
  BY DEF IdlePageAgrees, OneThingAtATime
<1>. QED
  BY <1>1, <1>2, <1>3 DEF WalletIInv, WalletInv

LEMMA WalletStep == WalletIInv /\ [WalletNext]_walletVars => WalletIInv'
<1>. SUFFICES ASSUME WalletIInv, [WalletNext]_walletVars PROVE WalletIInv'
  OBVIOUS
<1>. USE WalletAssumption
     DEF WalletIInv, WalletInv, WalletTypeOK, ShownHasSigned, IdlePageAgrees,
         NamesHaveSigned, OneThingAtATime, Session, notConnecting, current, readSession
<1>1. CASE \E a \in WalletAccounts : SwitchAccount(a)
  BY <1>1 DEF SwitchAccount
<1>2. CASE AnswerSession
  BY <1>2 DEF AnswerSession
<1>3. CASE ShowSession
  BY <1>3 DEF ShowSession, afterFirstGet
<1>4. CASE SessionFails
  BY <1>4 DEF SessionFails
<1>5. CASE ClickConnect
  BY <1>5 DEF ClickConnect, goesTo
<1>6. CASE NameAccount
  BY <1>6 DEF NameAccount, goesTo
<1>7. CASE AnswerChallenge
  BY <1>7 DEF AnswerChallenge, goesTo
<1>8. CASE SignMessage
  BY <1>8 DEF SignMessage, goesTo
<1>9. CASE AcceptSignature
  BY <1>9 DEF AcceptSignature, goesTo
<1>10. CASE SignedIn
  BY <1>10 DEF SignedIn, shownAs, afterSignIn
<1>11. CASE ConnectFails
  BY <1>11 DEF ConnectFails, afterSignIn
<1>12. CASE AcceptedAnswerLost
  <2>0. cookie'.account \in {cookie.account, connecting.account}
    <3>1. \/ cookie' = cookie
          \/ cookie' = [account |-> connecting.account, token |-> "later"]
      BY <1>12 DEF AcceptedAnswerLost
    <3>2. CASE cookie' = cookie
      BY <3>2
    <3>3. CASE cookie' = [account |-> connecting.account, token |-> "later"]
      <4>. HIDE DEF WalletIInv
      <4>. QED BY <3>3
    <3>. QED BY <3>1, <3>2, <3>3
  <2>1. WalletTypeOK'
    <3>1. cookie' \in [account : Session, token : {"first", "later"}]
      <4>1. \/ cookie' = cookie
            \/ cookie' = [account |-> connecting.account, token |-> "later"]
        BY <1>12 DEF AcceptedAnswerLost
      <4>2. connecting.account \in Session
        OBVIOUS
      <4>. QED BY <4>1, <4>2
    <3>2. /\ revoked' \subseteq {"first", "later"} /\ connecting' = notConnecting
          /\ UNCHANGED <<active, session, firstGet, leaving, signed>> /\ untidy' = TRUE
      BY <1>12 DEF AcceptedAnswerLost, afterSignIn
    <3>. QED BY <3>1, <3>2
  <2>. USE <1>12 DEF AcceptedAnswerLost, afterSignIn
  <2>2. /\ ShownHasSigned /\ NamesHaveSigned
        /\ UNCHANGED <<session, firstGet, signed>>
        /\ connecting.at = "accepted" /\ connecting'.at = "idle"
    OBVIOUS
  <2>4. ShownHasSigned' /\ NamesHaveSigned'
    <3>. HIDE DEF WalletIInv, AcceptedAnswerLost
    <3>. QED BY <2>0, <2>2
  <2>3. IdlePageAgrees' /\ OneThingAtATime'
    OBVIOUS
  <2>. QED BY <2>1, <2>3, <2>4
<1>13. CASE Disconnect
  BY <1>13 DEF Disconnect
<1>14. CASE AnswerSignOut
  BY <1>14 DEF AnswerSignOut
<1>15. CASE SignedOut
  BY <1>15 DEF SignedOut, noToken, afterLeaving
<1>16. CASE SignOutFails
  BY <1>16 DEF SignOutFails, afterLeaving
<1>17. CASE UNCHANGED walletVars
  BY <1>17 DEF walletVars
<1>. QED
  BY <1>1, <1>2, <1>3, <1>4, <1>5, <1>6, <1>7, <1>8, <1>9, <1>10, <1>11, <1>12,
     <1>13, <1>14, <1>15, <1>16, <1>17 DEF WalletNext

\* Whoever the page shows has signed, and a page with nothing under way agrees
\* with its cookie, except after the disorders IdlePageAgrees names
\* (wallet-connect.tsx).
THEOREM WalletHolds == WalletSpec => []WalletInv
<1>1. WalletIInv => WalletInv
  BY DEF WalletIInv
<1>. QED
  BY <1>1, WalletInitially, WalletStep, PTL DEF WalletSpec

-----------------------------------------------------------------------------
(***************************************************************************)
(* AgentPage.                                                              *)
(*                                                                         *)
(* The invariant adds what the loop knows between its statements, that the *)
(* steps follow from one another, that rows are the steps that went well,  *)
(* and how far the page is with them.                                      *)
(***************************************************************************)
\* The loop: what is paid but not recorded is the call under way, which the
\* budget had room for; each step follows from the one before it, and only the
\* last can have failed.
LoopIsSound ==
  /\ run.at = "paid" =>
       /\ hasNext /\ next \in run.plan /\ <<tasks, next>> \in moved
       /\ charged = run.spent + ToolPrice[next] /\ charged <= run.budget
  /\ run.at \in {"none", "asked", "calling"} => charged = run.spent
  /\ run.at \in {"none", "asked"} => run = [noRun EXCEPT !.at = run.at]
  /\ run.spent + run.remaining = run.budget
  /\ run.at # "none" => tasks >= 1

StepsAreTheAccount ==
  /\ run.remaining = leftAfter(Len(run.steps))
  /\ \A k \in DOMAIN run.steps :
       /\ leftAfter(k - 1) = run.steps[k].left + ticks(run.steps[k])
       /\ ~run.steps[k].ok =>
            /\ k = Len(run.steps)
            /\ run.at \in {"answering", "answered", "error"}

RowsAreTheSteps ==
  /\ \A p \in moved : p[1] <= tasks
  /\ run.at = "asked" => \A p \in moved : p[1] < tasks
  /\ \A t \in ToSet(LiveTools) :
       <<tasks, t>> \in booked
         <=> \E k \in DOMAIN run.steps : run.steps[k].ok /\ run.steps[k].tool = t

PageFollows ==
  /\ page.announced > 0 \/ page.at \in {"replaying", "done"} => run.at = "answered"
  /\ page.at \in {"idle", "waiting"} => page.announced = 0
  /\ page.at = "done" =>
       page.settled = page.announced /\ page.announced = Len(run.steps)

\* The inductive invariant.
TaskIInv == TaskInv /\ LoopIsSound /\ StepsAreTheAccount /\ RowsAreTheSteps /\ PageFollows

\* The stages of a run and of the page, and the records of runs.
RunStages  == {"none", "asked", "calling", "paid", "answering", "answered", "error"}
PageStages == {"idle", "waiting", "replaying", "done", "left"}
RunRecords       == [at : RunStages, plan : SUBSET ToSet(LiveTools),
               i : 1 .. Len(LiveTools) + 1, budget : Nat, remaining : Nat,
               spent : Nat, steps : Seq(Step)]
Pages(n)   == [at : PageStages, announced : 0 .. n, settled : Nat, meter : Nat]

LEMMA NextIsATool ==
  ASSUME TaskTypeOK, hasNext
  PROVE  next \in ToSet(LiveTools) /\ ToolPrice[next] \in Nat /\ ToolPrice[next] > 0
<1>1. LiveTools \in Seq(ToSet(LiveTools)) /\ ToolPrice \in [ToSet(LiveTools) -> Nat \ {0}]
  BY TaskAssumption
<1>2. run.i \in 1 .. Len(LiveTools)
  BY DEF TaskTypeOK, hasNext
<1>3. next \in ToSet(LiveTools)
  BY <1>1, <1>2 DEF next
<1>. QED BY <1>1, <1>3

LEMMA TypeParts ==
  ASSUME TaskTypeOK
  PROVE  run \in RunRecords /\ page \in Pages(Len(run.steps))
BY DEF TaskTypeOK, RunRecords, Pages, RunStages, PageStages

LEMMA NoRunHasType == noRun \in RunRecords /\ noRun.steps = <<>>
<1>1. Len(LiveTools) \in Nat
  BY TaskAssumption
<1>. QED BY <1>1 DEF noRun, RunRecords, RunStages

LEMMA TaskInitially == TaskInit => TaskIInv
<1>. SUFFICES ASSUME TaskInit PROVE TaskIInv
  OBVIOUS
<1>1. run = noRun /\ run \in RunRecords /\ run.steps = <<>> /\ page = noPage
  BY NoRunHasType DEF TaskInit
<1>2. MaxTasks \in Nat /\ TaskTypeOK
  BY <1>1, TaskAssumption DEF TaskInit, TaskTypeOK, RunRecords, RunStages,
     noPage
<1>3. RunWithinBudget /\ LoopIsSound
  BY <1>1 DEF TaskInit, RunWithinBudget, LoopIsSound, noRun
<1>4. MeterIsTheAccount /\ PageFollows
  BY <1>1 DEF MeterIsTheAccount, PageFollows, noPage
<1>5. StepsAreTheAccount /\ RowsAreTheSteps
  BY <1>1 DEF TaskInit, StepsAreTheAccount, RowsAreTheSteps, leftAfter, noRun
<1>. QED BY <1>2, <1>3, <1>4, <1>5 DEF TaskIInv, TaskInv

\* Nothing is answered or shown of the run while the server has its turn.
LEMMA ServerTurn ==
  ASSUME TaskIInv, run.at # "answered"
  PROVE  page.announced = 0 /\ page.settled = 0 /\ page.at \notin {"replaying", "done"}
BY DEF TaskIInv, TaskInv, TaskTypeOK, PageFollows

LEMMA PlanStep ==
  ASSUME TaskIInv, NEW listed \in SUBSET ToSet(LiveTools),
         NEW called \in SUBSET ToSet(LiveTools), NEW budget \in Granted,
         Plan(listed, called, budget)
  PROVE  TaskIInv'
<1>. USE DEF TaskIInv, TaskInv
<1>1. run.at = "asked" /\ run' = [noRun EXCEPT !.at = "calling", !.plan = planTask(listed, called),
                          !.budget = budget, !.remaining = budget]
      /\ UNCHANGED <<tasks, moved, charged, booked, page>>
  BY DEF Plan
<1>2. run' \in RunRecords /\ run'.at = "calling" /\ run'.budget = budget /\ run'.remaining = budget
      /\ run'.spent = 0 /\ run'.steps = <<>>
  <2>1. budget \in Nat /\ planTask(listed, called) \in SUBSET ToSet(LiveTools)
    BY TaskAssumption DEF planTask
  <2>2. noRun \in RunRecords /\ noRun.steps = <<>> /\ noRun.spent = 0
    BY NoRunHasType DEF noRun
  <2>. QED BY <1>1, <2>1, <2>2 DEF RunRecords, RunStages
<1>3. page.announced = 0 /\ page.settled = 0 /\ page.at \notin {"replaying", "done"}
  BY <1>1, ServerTurn
<1>4. run.steps = <<>> /\ charged = 0 /\ run.spent = 0 /\ run.budget = 0
  BY <1>1 DEF LoopIsSound, noRun
<1>5. TaskTypeOK'
  BY <1>1, <1>2, <1>3, <1>4 DEF TaskTypeOK, RunRecords, RunStages
<1>6. RunWithinBudget' /\ LoopIsSound'
  BY <1>1, <1>2, <1>4, TaskAssumption DEF RunWithinBudget, LoopIsSound
<1>7. MeterIsTheAccount' /\ PageFollows'
  BY <1>1, <1>3 DEF MeterIsTheAccount, PageFollows
<1>8. StepsAreTheAccount'
  BY <1>2 DEF StepsAreTheAccount, leftAfter
<1>9. RowsAreTheSteps'
  BY <1>1, <1>2, <1>4 DEF RowsAreTheSteps
<1>. QED BY <1>5, <1>6, <1>7, <1>8, <1>9

\* The run changes its stage or its place, and nothing else does.
LEMMA StageStep ==
  ASSUME TaskIInv, NEW at \in RunStages, NEW i \in 1 .. Len(LiveTools) + 1,
         run' = [run EXCEPT !.at = at, !.i = i],
         UNCHANGED <<tasks, moved, charged, booked, page>>,
         run.at # "answered" \/ page.at = "waiting",
         \/ at = "error" /\ run.at \notin {"none", "error"}
         \/ at = "calling" /\ run.at = "calling"
         \/ at = "answered" /\ run.at \in {"answering", "calling"}
  PROVE  TaskIInv'
<1>. USE DEF TaskIInv, TaskInv
<1>1. run \in RunRecords
  BY TypeParts
<1>2. run' \in RunRecords /\ run'.at = at /\ run'.i = i /\ UNCHANGED <<run.plan, run.budget, run.remaining, run.spent, run.steps>>
  BY <1>1 DEF RunRecords
<1>3. page.announced = 0 /\ page.settled = 0 /\ page.at \notin {"replaying", "done"}
  <2>1. CASE run.at # "answered"
    BY <2>1, ServerTurn
  <2>2. CASE page.at = "waiting"
    BY <2>2 DEF TaskTypeOK, PageFollows
  <2>. QED BY <2>1, <2>2
<1>4. \A k : leftAfter(k)' = leftAfter(k)
  BY <1>2 DEF leftAfter
<1>5. TaskTypeOK'
  BY <1>1, <1>2, <1>3 DEF TaskTypeOK, RunRecords, RunStages
<1>6. LoopIsSound' /\ RunWithinBudget'
  <2>1. LoopIsSound'
    <3>. HIDE DEF TaskIInv
    <3>1. /\ charged' = charged /\ run.spent + run.remaining = run.budget
          /\ tasks' >= 1
          /\ run.at = "calling" => charged = run.spent
      BY DEF LoopIsSound, TaskIInv
    <3>2. run'.at \in {"error", "calling", "answered"}
      BY <1>2
    <3>. QED BY <1>2, <3>1, <3>2 DEF LoopIsSound
  <2>2. charged <= run.budget
    <3>1. CASE run.at \in {"none", "asked"}
      <4>1. run = [noRun EXCEPT !.at = run.at] /\ charged = run.spent
        BY <3>1 DEF LoopIsSound
      <4>2. run.spent = 0 /\ run.budget = 0
        <5>. HIDE DEF TaskIInv, TaskInv
        <5>. QED BY <4>1 DEF noRun
      <4>. QED BY <4>1, <4>2
    <3>2. CASE run.at \notin {"none", "asked"}
      BY <3>2 DEF RunWithinBudget
    <3>. QED BY <3>1, <3>2
  <2>3. run'.at = "answered" => charged = run.spent
    BY <1>2 DEF RunWithinBudget, LoopIsSound
  <2>4. \A t \in ToSet(LiveTools) :
              <<tasks, t>> \in booked
                <=> \E k \in DOMAIN run.steps : run.steps[k].ok /\ run.steps[k].tool = t
    BY DEF RowsAreTheSteps
  <2>. QED BY <1>2, <2>1, <2>2, <2>3, <2>4 DEF RunWithinBudget, LoopIsSound
<1>7. MeterIsTheAccount' /\ PageFollows'
  BY <1>3 DEF MeterIsTheAccount, PageFollows
<1>8. StepsAreTheAccount'
  BY <1>2, <1>4 DEF StepsAreTheAccount, ticks
<1>9. RowsAreTheSteps'
  BY <1>2 DEF RowsAreTheSteps
<1>. QED BY <1>5, <1>6, <1>7, <1>8, <1>9

LEMMA RefuseStep == ASSUME TaskIInv, RefuseRun PROVE TaskIInv'
<1>1. run' = [run EXCEPT !.at = "error", !.i = run.i]
  BY TypeParts DEF RefuseRun, TaskIInv, TaskInv, RunRecords
<1>. QED BY <1>1, StageStep, TypeParts DEF RefuseRun, TaskIInv, TaskInv,
    RunRecords, RunStages
LEMMA SkipStep == ASSUME TaskIInv, SkipTool PROVE TaskIInv'
<1>0. Len(LiveTools) \in Nat /\ run.i \in 1 .. Len(LiveTools) + 1
  BY TaskAssumption, TypeParts DEF TaskIInv, TaskInv, RunRecords
<1>1. run' = [run EXCEPT !.at = "calling", !.i = run.i + 1]
  <2>1. run \in RunRecords /\ run.at = "calling" /\ run' = [run EXCEPT !.i = run.i + 1]
    BY TypeParts DEF SkipTool, TaskIInv, TaskInv
  <2>. QED BY <2>1 DEF RunRecords
<1>2. run.i + 1 \in 1 .. Len(LiveTools) + 1
  BY <1>0 DEF SkipTool, hasNext
<1>. QED BY <1>1, <1>2, StageStep DEF SkipTool, RunStages
LEMMA ThrowStep == ASSUME TaskIInv, ToolThrows PROVE TaskIInv'
<1>1. run' = [run EXCEPT !.at = "error", !.i = run.i]
  BY TypeParts DEF ToolThrows, TaskIInv, TaskInv, RunRecords
<1>. QED BY <1>1, StageStep, TypeParts DEF ToolThrows, TaskIInv, TaskInv,
    RunRecords, RunStages
LEMMA AnswerStep == ASSUME TaskIInv, AnswerRun PROVE TaskIInv'
<1>1. run' = [run EXCEPT !.at = "answered", !.i = run.i]
  BY TypeParts DEF AnswerRun, TaskIInv, TaskInv, RunRecords
<1>. QED BY <1>1, StageStep, TypeParts DEF AnswerRun, TaskIInv, TaskInv,
    RunRecords, RunStages
LEMMA LostStep == ASSUME TaskIInv, RunLost PROVE TaskIInv'
<1>1. run' = [run EXCEPT !.at = "error", !.i = run.i]
  BY TypeParts DEF RunLost, TaskIInv, TaskInv, RunRecords
<1>. QED BY <1>1, StageStep, TypeParts DEF RunLost, TaskIInv, TaskInv,
    RunRecords, RunStages

LEMMA PayStep == ASSUME TaskIInv, PayForTool PROVE TaskIInv'
<1>. USE DEF TaskIInv, TaskInv
<1>1. run \in RunRecords /\ next \in ToSet(LiveTools) /\ ToolPrice[next] \in Nat
  BY TypeParts, NextIsATool DEF PayForTool, callsNext
<1>2. run' \in RunRecords /\ run'.at = "paid" /\ UNCHANGED <<run.plan, run.i, run.budget, run.remaining, run.spent, run.steps>>
  BY <1>1 DEF RunRecords, RunStages, PayForTool
<1>3. page.announced = 0 /\ page.settled = 0 /\ page.at \notin {"replaying", "done"}
  BY ServerTurn DEF PayForTool, callsNext
<1>4. /\ \A k : leftAfter(k)' = leftAfter(k)
      /\ UNCHANGED <<tasks, booked, page>> /\ next' = next /\ hasNext' /\ next \in run.plan
      /\ moved' = moved \cup {<<tasks, next>>} /\ charged' = charged + ToolPrice[next]
      /\ ToolPrice[next] <= run.remaining /\ run.at = "calling"
  BY <1>2 DEF leftAfter, next, hasNext, PayForTool, callsNext, affordsCall
<1>5. TaskTypeOK'
  <2>1. tasks >= 1
    BY <1>4 DEF LoopIsSound
  <2>. QED BY SMTT(30), <1>1, <1>2, <1>3, <1>4, <2>1 DEF TaskTypeOK,
      RunRecords, RunStages
<1>6. LoopIsSound' /\ RunWithinBudget'
  <2>1. charged = run.spent /\ run.spent + run.remaining = run.budget
    BY <1>4 DEF LoopIsSound
  <2>2. charged' = run'.spent + ToolPrice[next] /\ charged' <= run'.budget
    BY <1>1, <1>2, <1>4, <2>1 DEF RunRecords
  <2>. QED BY <1>1, <1>2, <1>4, <2>1, <2>2 DEF RunWithinBudget, LoopIsSound
<1>7. MeterIsTheAccount' /\ PageFollows'
  BY <1>3, <1>4 DEF MeterIsTheAccount, PageFollows
<1>8. StepsAreTheAccount'
  BY <1>2, <1>4 DEF StepsAreTheAccount, ticks
<1>9. RowsAreTheSteps'
  BY SMTT(30), <1>2, <1>4 DEF RowsAreTheSteps, TaskTypeOK
<1>. QED BY <1>5, <1>6, <1>7, <1>8, <1>9
\* A row is written, or the call is refused: the answer gets one more step.
LEMMA OneMoreStep ==
  ASSUME TaskIInv, NEW ok \in BOOLEAN, NEW left \in Nat,
         NEW s, s = [tool |-> next, ok |-> ok, left |-> left],
         run.at \in {"calling", "paid"}, hasNext,
         run' \in RunRecords, run'.steps = Append(run.steps, s),
         run'.budget = run.budget, run'.remaining = left,
         run.remaining = left + ticks(s),
         run'.at \in {"calling", "answering"}, run'.at = "answering" <=> ~ok,
         charged' = run'.spent, run'.spent + left = run.budget,
         UNCHANGED <<tasks, moved, charged, page>>,
         booked' = IF ok THEN booked \cup {<<tasks, next>>} ELSE booked,
         ok => <<tasks, next>> \in moved
  PROVE  TaskIInv'
<1>. USE DEF TaskIInv, TaskInv
<1>1. run \in RunRecords /\ next \in ToSet(LiveTools) /\ ToolPrice[next] \in Nat
  BY TypeParts, NextIsATool
<1>2. page.announced = 0 /\ page.settled = 0 /\ page.at \notin {"replaying", "done"}
  BY ServerTurn
<1>a. s \in Step /\ s.left = left /\ s.ok = ok /\ s.tool = next
  <2>. HIDE DEF TaskIInv
  <2>. QED BY <1>1 DEF Step
<1>b. run.steps \in Seq(Step) /\ Len(run.steps) \in Nat
  BY <1>1 DEF RunRecords
<1>c. PICK n \in Nat : n = Len(run.steps)
  BY <1>b
<1>3. /\ run.steps \in Seq(Step) /\ s \in Step /\ s.left = left /\ s.ok = ok /\ s.tool = next
      /\ Len(run'.steps) = n + 1 /\ n = Len(run.steps) /\ n \in Nat
      /\ DOMAIN run'.steps = 1 .. n + 1
      /\ DOMAIN run.steps = 1 .. n
      /\ run'.steps[n + 1] = s
      /\ \A k \in DOMAIN run.steps : run'.steps[k] = run.steps[k]
  <2>. HIDE DEF TaskIInv
  <2>. QED BY <1>a, <1>b, <1>c
<1>4. \A k \in 0 .. n : leftAfter(k)' = leftAfter(k)
  BY <1>3 DEF leftAfter
<1>5. TaskTypeOK'
  <2>1. booked' \subseteq moved /\ charged \in Nat
    BY DEF TaskTypeOK
  <2>2. page \in Pages(Len(run'.steps))
    BY <1>2, <1>3, TypeParts DEF Pages
  <2>3. /\ run' \in [at : {"none", "asked", "calling", "paid", "answering", "answered",
                    "error"},
              plan : SUBSET ToSet(LiveTools), i : 1 .. Len(LiveTools) + 1,
              budget : Nat, remaining : Nat, spent : Nat, steps : Seq(Step)]
        /\ page' \in [at : {"idle", "waiting", "replaying", "done", "left"},
               announced : 0 .. Len(run'.steps), settled : Nat, meter : Nat]
    BY <2>2 DEF RunRecords, RunStages, Pages, PageStages
  <2>. QED BY <2>1, <2>3, <1>2 DEF TaskTypeOK
<1>6. LoopIsSound'
  BY <1>1 DEF LoopIsSound, RunRecords
<1>7. MeterIsTheAccount' /\ PageFollows'
  BY <1>2 DEF MeterIsTheAccount, PageFollows
<1>8. StepsAreTheAccount'
  <2>1. run'.remaining = leftAfter(n + 1)'
    BY <1>3 DEF leftAfter
  <2>2. ASSUME NEW k \in DOMAIN run'.steps
        PROVE  /\ leftAfter(k - 1)' = run'.steps[k].left + ticks(run'.steps[k])
               /\ ~run'.steps[k].ok =>
                    /\ k = Len(run'.steps)
                    /\ run'.at \in {"answering", "answered", "error"}
    <3>1. CASE k = n + 1
      <4>1. k - 1 = n /\ run'.steps[k] = s
        BY <3>1, <1>3
      <4>2. leftAfter(n)' = run.remaining
        BY <1>3 DEF StepsAreTheAccount, leftAfter
      <4>3. leftAfter(k - 1)' = leftAfter(n)'
        BY <4>1 DEF leftAfter
      <4>. HIDE DEF TaskIInv
      <4>. QED BY <3>1, <4>1, <4>2, <4>3, <1>3
    <3>2. CASE k \in DOMAIN run.steps
      <4>1. run'.steps[k] = run.steps[k] /\ leftAfter(k - 1)' = leftAfter(k - 1)
        BY <3>2, <1>3, <1>4
      <4>2. run.steps[k].ok
        BY <3>2 DEF StepsAreTheAccount
      <4>. QED BY <3>2, <4>1, <4>2 DEF StepsAreTheAccount
    <3>. QED BY <3>1, <3>2, <1>3
  <2>3. \A x : ticks(x)' = ticks(x)
    BY DEF ticks
  <2>. QED BY <1>3, <2>1, <2>2, <2>3 DEF StepsAreTheAccount
<1>9. RowsAreTheSteps'
  <2>1. ASSUME NEW t \in ToSet(LiveTools)
        PROVE  <<tasks, t>> \in booked' <=> \E k \in DOMAIN run'.steps : run'.steps[k].ok /\ run'.steps[k].tool = t
    <3>1. <<tasks, t>> \in booked' <=> <<tasks, t>> \in booked \/ (ok /\ t = next)
      OBVIOUS
    <3>2. (\E k \in DOMAIN run'.steps : run'.steps[k].ok /\ run'.steps[k].tool = t)
            <=> (\E k \in DOMAIN run.steps : run.steps[k].ok /\ run.steps[k].tool = t) \/ (ok /\ t = next)
      <4>. HIDE DEF TaskIInv
      <4>. QED BY <1>3
    <3>. QED BY <3>1, <3>2 DEF RowsAreTheSteps
  <2>. QED BY <2>1 DEF RowsAreTheSteps
<1>10. RunWithinBudget'
  <2>1. charged <= run.budget
    BY <1>1 DEF LoopIsSound, RunRecords
  <2>. QED BY <1>9, <2>1 DEF RunWithinBudget, RowsAreTheSteps
<1>. QED BY <1>5, <1>6, <1>7, <1>8, <1>9, <1>10

LEMMA RefusedStep == ASSUME TaskIInv, CallRefused PROVE TaskIInv'
<1>. DEFINE s == [tool |-> next, ok |-> FALSE, left |-> run.remaining]
<1>1. run \in RunRecords /\ next \in ToSet(LiveTools) /\ hasNext /\ run.at = "calling"
  BY TypeParts, NextIsATool DEF CallRefused, callsNext, TaskIInv, TaskInv
<1>2. s \in Step /\ ticks(s) = 0 /\ run.remaining \in Nat
  BY <1>1 DEF RunRecords, Step, ticks
<1>3. /\ run' = [run EXCEPT !.at = "answering", !.steps = Append(run.steps, s)]
      /\ UNCHANGED <<tasks, moved, charged, booked, page>>
  BY DEF CallRefused, takes
<1>. HIDE DEF s
<1>4. run' \in RunRecords /\ run'.steps = Append(run.steps, s) /\ run'.at = "answering"
      /\ UNCHANGED <<run.budget, run.remaining, run.spent>>
  <2>1. run.steps \in Seq(Step) /\ Append(run.steps, s) \in Seq(Step)
    BY <1>1, <1>2 DEF RunRecords
  <2>. QED BY <1>1, <1>3, <2>1 DEF RunRecords, RunStages
<1>5. charged = run.spent /\ run.spent + run.remaining = run.budget
  BY <1>1 DEF LoopIsSound, TaskIInv
<1>6. run.remaining = run.remaining + ticks(s)
  BY <1>2
<1>. QED BY <1>1, <1>2, <1>3, <1>4, <1>5, <1>6, OneMoreStep DEF s

LEMMA RecordStep == ASSUME TaskIInv, RecordCall PROVE TaskIInv'
<1>. DEFINE left == run.remaining - ToolPrice[next]
            s == [tool |-> next, ok |-> TRUE, left |-> left]
<1>0. /\ run.at = "paid" /\ hasNext /\ <<tasks, next>> \in moved
      /\ charged = run.spent + ToolPrice[next] /\ charged <= run.budget
      /\ run.spent + run.remaining = run.budget
  BY DEF RecordCall, TaskIInv, LoopIsSound
<1>1. run \in RunRecords /\ next \in ToSet(LiveTools) /\ ToolPrice[next] \in Nat
  BY <1>0, TypeParts, NextIsATool DEF TaskIInv, TaskInv
<1>2. left \in Nat
  BY <1>0, <1>1 DEF RunRecords
<1>3. s \in Step /\ ticks(s) = ToolPrice[next]
  <2>. HIDE DEF left
  <2>. QED BY <1>1, <1>2 DEF Step, ticks
<1>4. /\ run' = [run EXCEPT !.at = "calling", !.i = run.i + 1, !.steps = Append(run.steps, s),
                           !.remaining = left, !.spent = run.spent + ToolPrice[next]]
      /\ booked' = booked \cup {<<tasks, next>>}
      /\ UNCHANGED <<tasks, moved, charged, page>>
  BY <1>1 DEF RecordCall, takes, remainingAfter, RunRecords
<1>5. run.remaining = left + ticks(s) /\ run.spent + ToolPrice[next] \in Nat
      /\ run.spent + ToolPrice[next] + left = run.budget
  BY <1>0, <1>1, <1>3 DEF RunRecords
<1>. HIDE DEF s, left
<1>6. run' \in RunRecords /\ run'.steps = Append(run.steps, s) /\ run'.at = "calling"
      /\ run'.budget = run.budget /\ run'.remaining = left /\ run'.spent = run.spent + ToolPrice[next]
  <2>1. run.steps \in Seq(Step) /\ Append(run.steps, s) \in Seq(Step)
    BY <1>1, <1>3 DEF RunRecords
  <2>2. run.i + 1 \in 1 .. Len(LiveTools) + 1
    BY SMTT(30), <1>0, <1>1, TaskAssumption DEF RunRecords, hasNext
  <2>. QED BY <1>1, <1>2, <1>4, <1>5, <2>1, <2>2 DEF RunRecords, RunStages
<1>7. s = [tool |-> next, ok |-> TRUE, left |-> left]
  BY DEF s
<1>. QED BY <1>0, <1>1, <1>2, <1>4, <1>5, <1>6, <1>7, OneMoreStep

\* The page goes on: what it may do to the account it shows.
LEMMA PageStep ==
  ASSUME TaskIInv, page' \in Pages(Len(run.steps)),
         UNCHANGED <<tasks, run, moved, charged, booked>>,
         page'.settled \in {page'.announced - 1, page'.announced},
         \/ page'.announced > 0 \/ page'.at \in {"replaying", "done"} => run.at = "answered",
         page'.at \in {"replaying", "done"} => page'.meter = leftAfter(page'.settled),
         page'.at \in {"idle", "waiting"} => page'.announced = 0,
         page'.at = "done" => page'.settled = page'.announced /\ page'.announced = Len(run.steps)
  PROVE  TaskIInv'
<1>. USE DEF TaskIInv, TaskInv
<1>1. /\ \A k : leftAfter(k)' = leftAfter(k)
      /\ \A x : ticks(x)' = ticks(x)
      /\ \A at : [noRun EXCEPT !.at = at]' = [noRun EXCEPT !.at = at]
      /\ next' = next /\ hasNext' = hasNext
  BY DEF leftAfter, ticks, next, hasNext
<1>2. TaskTypeOK'
  BY DEF TaskTypeOK, Pages, PageStages
<1>3. RunWithinBudget' /\ RowsAreTheSteps'
  BY DEF RunWithinBudget, RowsAreTheSteps
<1>4. LoopIsSound' /\ StepsAreTheAccount'
  BY <1>1 DEF LoopIsSound, StepsAreTheAccount
<1>5. PageFollows'
  BY DEF PageFollows
<1>6. MeterIsTheAccount'
  <2>1. ASSUME page'.at \in {"replaying", "done"}, NEW k \in 1 .. page'.settled, run.steps[k].ok
        PROVE  <<tasks, run.steps[k].tool>> \in booked
    <3>1. k \in DOMAIN run.steps /\ run.steps[k] \in Step
      <4>1. run \in RunRecords
        BY TypeParts
      <4>2. page'.settled <= Len(run.steps) /\ page'.settled \in Nat /\ run.steps \in Seq(Step)
        BY <4>1 DEF Pages, RunRecords
      <4>. HIDE DEF TaskIInv
      <4>. QED BY <4>2
    <3>2. run.steps[k].tool \in ToSet(LiveTools)
      BY <3>1 DEF Step
    <3>. QED BY <2>1, <3>1, <3>2 DEF RowsAreTheSteps
  <2>. QED BY <1>1, <2>1 DEF MeterIsTheAccount, StepsAreTheAccount
<1>. QED BY <1>2, <1>3, <1>4, <1>5, <1>6

LEMMA ClickStep == ASSUME TaskIInv, ClickRun PROVE TaskIInv'
<1>. USE DEF TaskIInv, TaskInv
<1>1. /\ tasks' = tasks + 1 /\ tasks < MaxTasks /\ charged' = 0
      /\ run' = [noRun EXCEPT !.at = "asked"]
      /\ page' = [noPage EXCEPT !.at = "waiting"]
      /\ UNCHANGED <<moved, booked>>
  BY DEF ClickRun
<1>2. /\ run' \in RunRecords /\ run'.at = "asked" /\ run'.steps = <<>> /\ run'.spent = 0
      /\ run'.budget = 0 /\ run'.remaining = 0
  <2>1. noRun \in RunRecords /\ noRun.steps = <<>> /\ noRun.spent = 0 /\ noRun.budget = 0
        /\ noRun.remaining = 0
    BY NoRunHasType DEF noRun
  <2>. QED BY <1>1, <2>1 DEF RunRecords, RunStages
<1>3. /\ page' \in Pages(0) /\ page'.at = "waiting" /\ page'.announced = 0
      /\ page'.settled = 0
  BY <1>1 DEF noPage, Pages, PageStages
<1>4. TaskTypeOK'
  <2>1. page' \in Pages(Len(run'.steps))
    BY <1>2, <1>3
  <2>2. tasks' \in 0 .. MaxTasks /\ charged' \in Nat
    BY SMTT(30), <1>1, TaskAssumption DEF TaskTypeOK
  <2>3. moved' \subseteq (1 .. MaxTasks) \X ToSet(LiveTools) /\ booked' \subseteq moved'
    BY <1>1 DEF TaskTypeOK
  <2>. QED BY <1>2, <1>3, <2>1, <2>2, <2>3 DEF TaskTypeOK, RunRecords,
      RunStages, Pages, PageStages
<1>5. LoopIsSound'
  <2>1. [noRun EXCEPT !.at = run.at]' = [noRun EXCEPT !.at = "asked"]
    BY <1>2
  <2>2. tasks' >= 1 /\ charged' = run'.spent /\ run'.spent + run'.remaining = run'.budget
    BY <1>1, <1>2 DEF TaskTypeOK
  <2>. QED BY <1>1, <1>2, <2>1, <2>2 DEF LoopIsSound
<1>6. RunWithinBudget' /\ MeterIsTheAccount' /\ PageFollows'
  BY <1>2, <1>3 DEF RunWithinBudget, MeterIsTheAccount, PageFollows
<1>7. StepsAreTheAccount'
  BY <1>2 DEF StepsAreTheAccount, leftAfter
<1>8. RowsAreTheSteps'
  <2>1. tasks \in Nat /\ (\A p \in moved : p[1] <= tasks) /\ booked \subseteq moved
    BY DEF RowsAreTheSteps, TaskTypeOK
  <2>2. \A p \in moved : p[1] \in Nat
    BY DEF TaskTypeOK
  <2>3. (\A p \in moved : p[1] < tasks + 1) /\ (\A t : <<tasks + 1, t>> \notin booked)
    <3>. HIDE DEF TaskIInv
    <3>1. \A p \in moved : p[1] < tasks + 1
      BY <2>1, <2>2
    <3>2. ASSUME NEW t, <<tasks + 1, t>> \in booked PROVE FALSE
      <4>1. <<tasks + 1, t>>[1] <= tasks
        BY <2>1, <3>2
      <4>. QED BY <4>1, <2>1
    <3>. QED BY <3>1, <3>2
  <2>4. \A p \in moved' : p[1] <= tasks'
    BY <1>1, <2>1, <2>2, <2>3
  <2>. HIDE DEF TaskIInv
  <2>. QED BY <1>1, <1>2, <2>3, <2>4 DEF RowsAreTheSteps
<1>. QED BY <1>4, <1>5, <1>6, <1>7, <1>8

LEMMA SeenStep == ASSUME TaskIInv, ShowError \/ ReadRun \/ LeavePage PROVE TaskIInv'
<1>1. PICK at \in {"idle", "replaying", "left"} :
        /\ page' = [page EXCEPT !.at = at, !.meter = IF at = "replaying" THEN run.budget ELSE page.meter]
        /\ at = "replaying" => page.at = "waiting" /\ run.at = "answered"
        /\ at = "idle" => page.at = "waiting" /\ run.at = "error"
  <2>1. page \in Pages(Len(run.steps))
    BY TypeParts DEF TaskIInv, TaskInv
  <2>2. CASE ShowError
    BY <2>1, <2>2 DEF ShowError, afterError, Pages
  <2>3. CASE ReadRun
    BY <2>1, <2>3 DEF ReadRun, Pages
  <2>4. CASE LeavePage
    BY <2>1, <2>4 DEF LeavePage, Pages
  <2>. QED BY <2>2, <2>3, <2>4
<1>2. run \in RunRecords /\ page \in Pages(Len(run.steps))
  BY TypeParts DEF TaskIInv, TaskInv
<1>3. /\ page' \in Pages(Len(run.steps)) /\ page'.at = at
      /\ page'.meter = (IF at = "replaying" THEN run.budget ELSE page.meter)
      /\ page'.announced = page.announced /\ page'.settled = page.settled
  BY <1>1, <1>2 DEF RunRecords, Pages, PageStages
<1>4. /\ page.settled \in {page.announced - 1, page.announced} /\ page.settled \in Nat
      /\ page.announced > 0 => run.at = "answered"
  BY <1>2 DEF TaskIInv, TaskInv, TaskTypeOK, PageFollows, Pages
<1>5. at \in {"idle", "replaying"} => page.announced = 0 /\ page.settled = 0
  BY <1>1, <1>4 DEF TaskIInv, PageFollows
<1>6. leftAfter(0) = run.budget
  BY DEF leftAfter
<1>7. UNCHANGED <<tasks, run, moved, charged, booked>>
  BY DEF ShowError, ReadRun, LeavePage
<1>. QED BY <1>1, <1>3, <1>4, <1>5, <1>6, <1>7, PageStep

LEMMA ReplayStep == ASSUME TaskIInv, Announce \/ Land \/ ShowTotals PROVE TaskIInv'
<1>1. run \in RunRecords /\ page \in Pages(Len(run.steps)) /\ Len(run.steps) \in Nat
  BY TypeParts DEF TaskIInv, TaskInv, RunRecords
<1>2. /\ page.at = "replaying" /\ run.at = "answered" /\ page.meter = leftAfter(page.settled)
      /\ page.settled \in {page.announced - 1, page.announced}
      /\ page.announced \in 0 .. Len(run.steps) /\ page.settled \in Nat
  BY <1>1 DEF TaskIInv, TaskInv, TaskTypeOK, PageFollows, MeterIsTheAccount,
     Announce, Land,
       ShowTotals, replays, Pages
<1>3. UNCHANGED <<tasks, run, moved, charged, booked>>
  BY DEF Announce, Land, ShowTotals
<1>4. CASE Announce
  <2>1. /\ page' = [page EXCEPT !.announced = page.announced + 1]
        /\ page.settled = page.announced /\ page.announced < Len(run.steps)
    BY <1>4 DEF Announce
  <2>2. /\ page' \in Pages(Len(run.steps)) /\ page'.at = "replaying"
        /\ page'.meter = page.meter /\ page'.settled = page.settled
        /\ page'.announced = page.announced + 1
    BY <1>1, <1>2, <2>1 DEF Pages
  <2>. QED BY <1>1, <1>2, <1>3, <2>1, <2>2, PageStep
<1>5. CASE Land
  <2>1. /\ page' = [page EXCEPT !.settled = page.settled + 1, !.meter = page.meter - ticks(onShow)]
        /\ page.settled = page.announced - 1 /\ page.announced \in DOMAIN run.steps
        /\ onShow = run.steps[page.announced]
    BY <1>1, <1>2, <1>5 DEF Land, RunRecords, onShow
  <2>2. leftAfter(page.announced - 1) = leftAfter(page.announced) + ticks(onShow)
    BY <1>2, <2>1 DEF TaskIInv, StepsAreTheAccount, leftAfter
  <2>3. run.steps[page.announced] \in Step /\ leftAfter(page.announced) \in Nat
        /\ ticks(onShow) \in Nat
    <3>1. onShow \in Step /\ leftAfter(page.announced) = onShow.left
      BY <1>1, <1>2, <2>1 DEF RunRecords, leftAfter
    <3>2. ToolPrice \in [ToSet(LiveTools) -> Nat \ {0}]
      BY TaskAssumption
    <3>. QED BY <2>1, <3>1, <3>2 DEF Step, ticks
  <2>4. /\ page.meter - ticks(onShow) = leftAfter(page.announced)
        /\ page.settled + 1 = page.announced
    BY <1>2, <2>1, <2>2, <2>3
  <2>5. PICK m \in Nat : m = leftAfter(page.announced) /\ m = page.meter - ticks(onShow)
    BY <2>3, <2>4
  <2>6. page' = [page EXCEPT !.settled = page.announced, !.meter = m]
    BY <2>1, <2>4, <2>5
  <2>7. /\ page' \in Pages(Len(run.steps)) /\ page'.at = "replaying"
        /\ page'.meter = m /\ page'.settled = page.announced
        /\ page'.announced = page.announced
    <3>1. PICK a \in Nat : a = page.announced
      BY <1>1, <1>2
    <3>2. page' = [page EXCEPT !.settled = a, !.meter = m]
      BY <2>6, <3>1
    <3>3. page' \in Pages(Len(run.steps))
      BY <1>1, <3>2 DEF Pages
    <3>4. /\ page'.at = page.at /\ page'.meter = m /\ page'.settled = a
          /\ page'.announced = page.announced
      BY <1>1, <3>2 DEF Pages
    <3>. QED BY <1>2, <3>1, <3>3, <3>4
  <2>8. page'.meter = leftAfter(page'.settled)
    BY <2>5, <2>7 DEF leftAfter
  <2>. QED BY <1>2, <1>3, <2>7, <2>8, PageStep
<1>6. CASE ShowTotals
  <2>1. /\ page' = [page EXCEPT !.at = "done"] /\ page.settled = page.announced
        /\ failed \/ page.announced = Len(run.steps)
    BY <1>6 DEF ShowTotals
  <2>2. page.announced = Len(run.steps)
    BY <1>1, <1>2, <2>1 DEF failed, onShow, TaskIInv, StepsAreTheAccount,
       RunRecords
  <2>3. /\ page' \in Pages(Len(run.steps)) /\ page'.at = "done"
        /\ page'.meter = page.meter /\ page'.settled = page.settled
        /\ page'.announced = page.announced
    BY <1>1, <1>2, <2>1 DEF Pages, PageStages
  <2>. QED BY <1>2, <1>3, <2>1, <2>2, <2>3, PageStep
<1>. QED BY <1>4, <1>5, <1>6

LEMMA TaskStep == TaskIInv /\ [TaskNext]_taskVars => TaskIInv'
<1>. SUFFICES ASSUME TaskIInv, [TaskNext]_taskVars PROVE TaskIInv'
  OBVIOUS
<1>1. CASE serverGoesOn
  BY <1>1, PlanStep, RefuseStep, SkipStep, PayStep, RefusedStep, RecordStep,
     ThrowStep,
     AnswerStep, LostStep DEF serverGoesOn
<1>2. CASE pageGoesOn
  BY <1>2, SeenStep, ReplayStep DEF pageGoesOn
<1>3. CASE ClickRun
  BY <1>3, ClickStep
<1>4. CASE LeavePage
  BY <1>4, SeenStep
<1>5. CASE UNCHANGED taskVars
  <2>1. UNCHANGED <<tasks, run, moved, charged, booked, page>>
    BY <1>5 DEF taskVars
  <2>2. /\ page \in Pages(Len(run.steps)) /\ page.settled \in {page.announced - 1, page.announced}
        /\ page.at \in {"replaying", "done"} => page.meter = leftAfter(page.settled)
    BY TypeParts DEF TaskIInv, TaskInv, TaskTypeOK, MeterIsTheAccount
  <2>. QED BY <2>1, <2>2, PageStep DEF TaskIInv, PageFollows
<1>. QED BY <1>1, <1>2, <1>3, <1>4, <1>5 DEF TaskNext

\* The loop and the page at any size: what a run charged is what its steps say
\* and within its budget, every paid call is recorded or was lost, and the page
\* shows no step before it happened nor a total that is not the server's
\* (loop.ts, agent/run/route.ts, page.tsx).
THEOREM TaskHolds == TaskSpec => []TaskInv
<1>1. TaskIInv => TaskInv
  BY DEF TaskIInv
<1>. QED BY <1>1, TaskInitially, TaskStep, PTL DEF TaskSpec

-----------------------------------------------------------------------------
(***************************************************************************)
(* WalletStart.                                                            *)
(*                                                                         *)
(* The invariant adds that every wallet is opened with the seed on disk or *)
(* with one from elsewhere, that one command runs at a time, and that a    *)
(* run saves what it deployed itself.                                      *)
(***************************************************************************)
\* Every wallet was opened with the seed on disk or with one from elsewhere.
SeedsAreTheFile ==
  \A r \in Runs :
    /\ seed[r] \in {None, Foreign, seedFile}
    /\ stage[r] \notin {"off", "opening", "ended"} => seed[r] # None

\* Runs are launched in order, one command at a time.
OneCommand ==
  /\ \A r \in Runs : r > launched => stage[r] = "off" /\ seed[r] = None
  /\ \A c, d \in commands : alive(c) /\ alive(d) => c = d
  /\ localRecord <= launched
  /\ \A c \in commands : alive(c) => localRecord <= c

\* A run that records its contract has deployed it.
SavesItsOwn ==
  /\ \A r \in Runs : stage[r] \in {"deployed", "saved"} =>
       kind[r] = "deploy" /\ r \in onChain
  /\ \A r \in Runs : stage[r] = "saved" => localRecord = r

\* The inductive invariant.
StartIInv == StartInv /\ SeedsAreTheFile /\ OneCommand /\ SavesItsOwn

LEMMA StartInitially == StartInit => StartIInv
<1>. SUFFICES ASSUME StartInit PROVE StartIInv
  OBVIOUS
<1>. USE RunsAssumption DEF StartInit, Runs, Sources, Foreign, None, agents, commands,
         alive
<1>1. contracts \subseteq [run : Sources, seed : Sources] /\ Foreign \in onChain
      /\ \A c \in contracts : c.seed \notin Runs
  BY DEF onChain
<1>2. StartTypeOK
  BY <1>1 DEF StartTypeOK, Kinds, Stages
<1>3. DeployerSeedIsKept
  BY <1>1 DEF DeployerSeedIsKept
<1>4. RecordsAreDeployments /\ UpCanPay
  BY <1>1 DEF RecordsAreDeployments, UpCanPay
<1>5. SeedsAreTheFile /\ OneCommand /\ SavesItsOwn
  BY DEF SeedsAreTheFile, OneCommand, SavesItsOwn
<1>. QED
  BY <1>2, <1>3, <1>4, <1>5 DEF StartIInv, StartInv

\* A run goes on, or the chain does: nothing is opened, recorded or deployed.
Past == {"syncing", "unfunded", "synced", "awaitingDust", "up", "ready"}

LEMMA QuietStep ==
  ASSUME StartIInv,
         UNCHANGED <<launched, kind, seed, address, fileVars, contracts>>,
         stage' \in [Runs -> Stages],
         \A r \in Runs : stage'[r] # stage[r] =>
           /\ stage[r] \notin {"off", "opening", "ended"} /\ stage'[r] \in Past
           /\ stage'[r] \in {"up", "ready"} => canPay(seed[r]),
         night' \in [Sources -> {"none", "plain", "pending", "designated"}],
         \A s \in Runs : night'[s] # "none" => s = seedFile,
         dust \subseteq dust', dust' \subseteq Sources
  PROVE  StartIInv'
<1>1. /\ StartTypeOK /\ DeployerSeedIsKept /\ RecordsAreDeployments /\ UpCanPay
      /\ SeedsAreTheFile /\ OneCommand /\ SavesItsOwn
  BY DEF StartIInv, StartInv
<1>2. UNCHANGED <<launched, kind, seed, address, seedFile, localRecord, publicRecord,
                  contracts, onChain, agents, commands>>
  BY DEF fileVars, onChain, agents, commands
<1>3. \A r \in Runs : /\ alive(r)' => alive(r)
                      /\ stage[r] = "off" => stage'[r] = "off"
                      /\ stage'[r] = "saved" => stage[r] = "saved"
                      /\ stage'[r] = "deployed" => stage[r] = "deployed"
                      /\ stage[r] \in {"off", "opening", "ended"}
                           => stage'[r] \in {"off", "opening", "ended"}
  BY DEF alive, Past
<1>4. StartTypeOK'
  BY <1>1, <1>2, <1>3 DEF StartTypeOK
<1>5. DeployerSeedIsKept' /\ RecordsAreDeployments'
  BY <1>1, <1>2 DEF DeployerSeedIsKept, RecordsAreDeployments
<1>6. UpCanPay'
  BY <1>1, <1>2, <1>3 DEF UpCanPay, canPay
<1>7. SeedsAreTheFile'
  BY <1>1, <1>2, <1>3 DEF SeedsAreTheFile
<1>8. OneCommand'
  BY <1>1, <1>2, <1>3 DEF OneCommand, commands
<1>9. SavesItsOwn'
  BY <1>1, <1>2, <1>3 DEF SavesItsOwn
<1>. QED
  BY <1>4, <1>5, <1>6, <1>7, <1>8, <1>9 DEF StartIInv, StartInv

\* A run moves on: from where it can be, to where nothing has to be recorded.
LEMMA MovesOn ==
  ASSUME StartIInv, NEW r \in Runs, NEW from, NEW to \in Past, moves(r, from, to),
         from \notin {"off", "opening", "ended"},
         to \in {"up", "ready"} => canPay(seed[r]),
         UNCHANGED <<launched, kind, seed, address, fileVars, dust, contracts>>,
         night' \in [Sources -> {"none", "plain", "pending", "designated"}],
         \A s \in Runs : night'[s] # "none" => night[s] # "none"
  PROVE  StartIInv'
<1>1. StartTypeOK /\ DeployerSeedIsKept
  BY DEF StartIInv, StartInv
<1>2. stage' = [stage EXCEPT ![r] = to] /\ stage[r] = from /\ to \in Stages
      /\ stage' \in [Runs -> Stages]
  BY <1>1 DEF moves, Past, Stages, StartTypeOK
<1>3. \A q \in Runs : stage'[q] # stage[q] => q = r /\ stage'[q] = to
  BY <1>1, <1>2 DEF StartTypeOK
<1>4. \A s \in Runs : night'[s] # "none" => s = seedFile
  BY <1>1 DEF DeployerSeedIsKept
<1>5. dust \subseteq dust' /\ dust' \subseteq Sources
  BY <1>1 DEF StartTypeOK
<1>. QED
  BY <1>2, <1>3, <1>4, <1>5, QuietStep

LEMMA RunStep ==
  ASSUME StartIInv, NEW r \in Runs,
         Sync(r) \/ Funded(r) \/ RegisterForDust(r) \/ WaitForDust(r) \/ Join(r)
  PROVE  StartIInv'
<1>1. StartTypeOK /\ UpCanPay /\ SeedsAreTheFile
  BY DEF StartIInv, StartInv
<1>2. night \in [Sources -> {"none", "plain", "pending", "designated"}]
  BY <1>1 DEF StartTypeOK
<1>3. ASSUME Sync(r) PROVE StartIInv'
  <2>. DEFINE to == IF r \in commands /\ night[seed[r]] = "none" THEN "unfunded" ELSE "synced"
  <2>1. to \in Past /\ to \notin {"up", "ready"}
    BY DEF Past
  <2>2. moves(r, "syncing", to)
        /\ UNCHANGED <<launched, kind, seed, address, fileVars, night, dust, contracts>>
    BY <1>3 DEF Sync, chainVars
  <2>. HIDE DEF to
  <2>. QED BY <1>2, <2>1, <2>2, MovesOn
<1>4. ASSUME Funded(r) PROVE StartIInv'
  <2>1. moves(r, "unfunded", "synced") /\ "synced" \in Past
        /\ UNCHANGED <<launched, kind, seed, address, fileVars, night, dust, contracts>>
    BY <1>4 DEF Funded, chainVars, Past
  <2>. QED BY <1>2, <2>1, MovesOn
<1>5. ASSUME RegisterForDust(r) PROVE StartIInv'
  <2>. DEFINE s  == seed[r]
              to == IF canPay(s) THEN "up" ELSE "awaitingDust"
  <2>1. to \in Past /\ (to \in {"up", "ready"} => canPay(s))
    BY DEF Past
  <2>2. moves(r, "synced", to)
        /\ UNCHANGED <<launched, kind, seed, address, fileVars, dust, contracts>>
        /\ night' = IF canPay(s) THEN night ELSE designate(s)
    BY <1>5, Zenon DEF RegisterForDust
  <2>3. /\ night' \in [Sources -> {"none", "plain", "pending", "designated"}]
        /\ \A q \in Runs : night'[q] # "none" => night[q] # "none"
    <3>1. Runs \subseteq Sources
      BY DEF Sources
    <3>. HIDE DEF to, s
    <3>2. \/ night' = night
          \/ night[s] = "plain" /\ night' = [night EXCEPT ![s] = "pending"]
      BY <2>2 DEF designate
    <3>. QED BY <1>2, <3>1, <3>2
  <2>. HIDE DEF to
  <2>. QED BY <2>1, <2>2, <2>3, MovesOn
<1>6. ASSUME WaitForDust(r) PROVE StartIInv'
  <2>1. moves(r, "awaitingDust", "up") /\ "up" \in Past /\ canPay(seed[r])
        /\ UNCHANGED <<launched, kind, seed, address, fileVars, night, dust, contracts>>
    BY <1>6 DEF WaitForDust, chainVars, Past
  <2>. QED BY <1>2, <2>1, MovesOn
<1>7. ASSUME Join(r) PROVE StartIInv'
  <2>1. moves(r, "up", "ready") /\ "ready" \in Past
        /\ UNCHANGED <<launched, kind, seed, address, fileVars, night, dust, contracts>>
    BY <1>7 DEF Join, chainVars, Past
  <2>2. canPay(seed[r])
    BY <1>1, <2>1 DEF UpCanPay, moves
  <2>. QED BY <1>2, <2>1, <2>2, MovesOn
<1>. QED
  BY <1>3, <1>4, <1>5, <1>6, <1>7

LEMMA ChainStep ==
  ASSUME StartIInv, NEW s \in Sources, Faucet(s) \/ Designated(s) \/ Generate(s)
  PROVE  StartIInv'
<1>1. StartTypeOK /\ DeployerSeedIsKept /\ SeedsAreTheFile
  BY DEF StartIInv, StartInv
<1>2. /\ UNCHANGED <<launched, kind, stage, seed, address, fileVars, contracts>>
      /\ dust' \in {dust, dust \cup {s}}
  BY DEF Faucet, Designated, Generate
<1>3. night' = night \/ \E to \in {"plain", "designated"} : night' = [night EXCEPT ![s] = to]
  BY DEF Faucet, Designated, Generate
<1>4. s \in Runs /\ night'[s] # "none" => s = seedFile
  <2>1. ASSUME Faucet(s), s \in Runs PROVE s = seedFile
    <3>1. Foreign \notin Runs /\ None \notin Runs
      BY RunsAssumption DEF Runs, Foreign, None
    <3>2. s \in {Foreign, seedFile} \/ \E r \in Runs : seed[r] = s
      BY <2>1 DEF Faucet
    <3>. QED BY <1>1, <2>1, <3>1, <3>2 DEF DeployerSeedIsKept
  <2>2. ASSUME Designated(s), s \in Runs PROVE s = seedFile
    <3>1. night[s] # "none"
      BY <2>2 DEF Designated
    <3>. QED BY <1>1, <2>2, <3>1 DEF DeployerSeedIsKept
  <2>3. ASSUME Generate(s), s \in Runs PROVE s = seedFile
    <3>1. night[s] # "none"
      BY <2>3 DEF Generate
    <3>. QED BY <1>1, <2>3, <3>1 DEF DeployerSeedIsKept
  <2>. QED BY <2>1, <2>2, <2>3
<1>5. /\ night' \in [Sources -> {"none", "plain", "pending", "designated"}]
      /\ \A q \in Runs : night'[q] # "none" => q = seedFile
  <2>1. Runs \subseteq Sources
    BY DEF Sources
  <2>2. night \in [Sources -> {"none", "plain", "pending", "designated"}]
        /\ \A q \in Runs : night[q] # "none" => q = seedFile
    BY <1>1 DEF StartTypeOK, DeployerSeedIsKept
  <2>. QED BY <1>3, <1>4, <2>1, <2>2
<1>6. /\ dust \subseteq dust' /\ dust' \subseteq Sources
      /\ stage' = stage /\ stage' \in [Runs -> Stages]
  BY <1>1, <1>2 DEF StartTypeOK
<1>. QED
  BY <1>2, <1>5, <1>6, QuietStep

LEMMA LaunchStep ==
  ASSUME StartIInv, NEW k \in Kinds, NEW configured \in seedsToConfigure,
         NEW pasted \in contractsToConfigure, Launch(k, configured, pasted)
  PROVE  StartIInv'
<1>0. PICK r \in Nat : r = launched + 1
  BY RunsAssumption DEF StartIInv, StartInv, StartTypeOK, Foreign
<1>. DEFINE deployment == IF k # "deploy" /\ pasted # None THEN pasted ELSE recorded(k)
<1>1. /\ StartTypeOK /\ DeployerSeedIsKept /\ RecordsAreDeployments /\ UpCanPay
      /\ SeedsAreTheFile /\ OneCommand /\ SavesItsOwn
  BY DEF StartIInv, StartInv
<1>2. /\ launched < MaxRuns /\ launched' = r /\ stage[r] = "off"
      /\ UNCHANGED <<seedFile, localRecord, publicRecord, night, dust, contracts>>
      /\ k # "agent" => \A c \in commands : ~alive(c)
  BY <1>0 DEF Launch, fileVars, chainVars, moves
<1>3. /\ r \in Runs /\ launched \in Nat /\ seed[r] = None /\ localRecord <= launched
      /\ None \notin Sources /\ None # Foreign /\ r \in Nat /\ r > launched
      /\ Foreign \notin Runs /\ localRecord \in Nat /\ r <= MaxRuns
      /\ \A q \in Runs : q \in Nat
  BY <1>0, <1>1, <1>2, RunsAssumption
     DEF StartTypeOK, OneCommand, Runs, Sources, Foreign, None
<1>4. onChain \subseteq Sources
  BY <1>1 DEF StartTypeOK, onChain
<1>5. deployment \in onChain \cup {None}
  BY <1>1 DEF recorded, contractsToConfigure, RecordsAreDeployments, Kinds
<1>6. /\ configured \in {None, Foreign, seedFile}
      /\ seedFile \in Runs \cup {None}
  BY <1>1 DEF seedsToConfigure, StartTypeOK
<1>7. \/ /\ stage' = [stage EXCEPT ![r] = "ended"]
         /\ UNCHANGED <<kind, seed, address>>
      \/ /\ stage' = [stage EXCEPT ![r] = "opening"]
         /\ kind' = [kind EXCEPT ![r] = k]
         /\ seed' = [seed EXCEPT ![r] = configured]
         /\ address' = [address EXCEPT ![r] = deployment]
         /\ k # "deploy" => deployment # None
  BY <1>0 DEF Launch, moves, refuses
<1>. HIDE DEF deployment
<1>8. UNCHANGED onChain
  BY <1>2 DEF onChain
<1>9. /\ \A q \in Runs : q # r =>
           /\ stage'[q] = stage[q] /\ kind'[q] = kind[q] /\ seed'[q] = seed[q]
           /\ address'[q] = address[q]
      /\ stage'[r] \in {"opening", "ended"}
      /\ seed'[r] \in {None, Foreign, seedFile}
      /\ address'[r] \in onChain \cup {None} \cup {address[r]}
      /\ stage'[r] = "opening" => kind'[r] = k
      /\ stage'[r] = "opening" /\ kind'[r] # "deploy" => address'[r] # None
  BY <1>1, <1>3, <1>5, <1>6, <1>7 DEF StartTypeOK
<1>10. StartTypeOK'
  <2>1. /\ stage' \in [Runs -> Stages] /\ kind' \in [Runs -> Kinds \cup {"none"}]
        /\ seed' \in [Runs -> Sources \cup {None}]
        /\ address' \in [Runs -> Sources \cup {None}]
    BY <1>1, <1>3, <1>4, <1>5, <1>6, <1>7 DEF StartTypeOK, Stages, Sources
  <2>2. launched' \in Foreign .. MaxRuns
    BY <1>2, <1>3 DEF Runs, Foreign
  <2>3. \A q \in Runs : alive(q)' /\ kind'[q] # "deploy" => address'[q] # None
    BY <1>1, <1>9 DEF StartTypeOK, alive
  <2>. QED BY <1>1, <1>2, <2>1, <2>2, <2>3 DEF StartTypeOK
<1>11. DeployerSeedIsKept'
  BY <1>1, <1>2, <1>3, <1>9 DEF DeployerSeedIsKept
<1>12. RecordsAreDeployments'
  BY <1>1, <1>2, <1>8, <1>9 DEF RecordsAreDeployments
<1>13. UpCanPay'
  BY <1>1, <1>2, <1>9 DEF UpCanPay, canPay
<1>14. SeedsAreTheFile'
  BY <1>1, <1>2, <1>9 DEF SeedsAreTheFile
<1>15. OneCommand'
  <2>1. \A q \in Runs : q > launched' => stage'[q] = "off" /\ seed'[q] = None
    BY <1>1, <1>2, <1>3, <1>9 DEF OneCommand
  <2>2. \A q \in Runs : q # r => (alive(q)' <=> alive(q)) /\ (q \in commands' <=> q \in commands)
    BY <1>9 DEF alive, commands, agents
  <2>3. r \in commands' /\ alive(r)' => k # "agent"
    <3>1. alive(r)' => stage'[r] = "opening"
      BY <1>9 DEF alive
    <3>. QED BY <1>3, <1>9, <3>1 DEF commands, agents
  <2>4. \A c \in commands' : c \in Runs
    BY DEF commands
  <2>5. \A c, d \in commands' : alive(c)' /\ alive(d)' => c = d
    BY <1>1, <1>2, <2>2, <2>3, <2>4 DEF OneCommand
  <2>6. ASSUME NEW c \in commands', alive(c)' PROVE localRecord' <= c
    <3>1. CASE c = r
      BY <3>1, <1>2, <1>3
    <3>2. CASE c # r
      BY <3>2, <1>1, <1>2, <2>2, <2>4, <2>6 DEF OneCommand
    <3>. QED BY <3>1, <3>2
  <2>7. localRecord' <= launched'
    BY <1>2, <1>3
  <2>. QED BY <2>1, <2>5, <2>6, <2>7 DEF OneCommand
<1>16. SavesItsOwn'
  BY <1>1, <1>2, <1>8, <1>9 DEF SavesItsOwn
<1>. QED
  BY <1>10, <1>11, <1>12, <1>13, <1>14, <1>15, <1>16 DEF StartIInv, StartInv

LEMMA OpenWalletStep ==
  ASSUME StartIInv, NEW r \in Runs, OpenWallet(r)
  PROVE  StartIInv'
<1>1. /\ StartTypeOK /\ DeployerSeedIsKept /\ RecordsAreDeployments /\ UpCanPay
      /\ SeedsAreTheFile /\ OneCommand /\ SavesItsOwn
  BY DEF StartIInv, StartInv
<1>2. /\ stage[r] = "opening" /\ stage' = [stage EXCEPT ![r] = "syncing"]
      /\ UNCHANGED <<launched, kind, address, localRecord, publicRecord, night, dust,
                     contracts, onChain, agents, commands>>
  BY DEF OpenWallet, moves, chainVars, onChain, agents, commands
<1>3. /\ seedFile \in Runs \cup {None} /\ None \notin Runs /\ Foreign \notin Runs
      /\ None # Foreign /\ r \in Sources /\ seed[r] \in {None, Foreign, seedFile}
  BY <1>1, RunsAssumption
     DEF StartTypeOK, SeedsAreTheFile, Runs, Sources, Foreign, None
<1>4. \E s \in {Foreign, seedFile'} :
        seed' = [seed EXCEPT ![r] = s] /\ s # None /\ s \in Sources
  BY <1>3 DEF OpenWallet, savedSeed, Sources
<1>5. seedFile' \in Runs \cup {None} /\ (seedFile # None => seedFile' = seedFile)
  BY <1>3 DEF OpenWallet, savedSeed
<1>6. /\ seed'[r] \in {Foreign, seedFile'} /\ seed'[r] # None
      /\ \A q \in Runs : q # r => seed'[q] = seed[q] /\ stage'[q] = stage[q]
      /\ stage'[r] = "syncing"
  BY <1>1, <1>2, <1>4 DEF StartTypeOK
<1>7. \A q \in Runs : alive(q)' = alive(q)
  BY <1>2, <1>6 DEF alive
<1>8. StartTypeOK'
  <2>1. stage' \in [Runs -> Stages] /\ seed' \in [Runs -> Sources \cup {None}]
    BY <1>1, <1>2, <1>4 DEF StartTypeOK, Stages
  <2>. QED BY <1>1, <1>2, <1>5, <1>7, <2>1 DEF StartTypeOK
<1>9. DeployerSeedIsKept'
  BY <1>1, <1>2, <1>3, <1>5, <1>6 DEF DeployerSeedIsKept
<1>10. RecordsAreDeployments'
  BY <1>1, <1>2 DEF RecordsAreDeployments
<1>11. UpCanPay'
  BY <1>1, <1>2, <1>6 DEF UpCanPay, canPay
<1>12. SeedsAreTheFile'
  BY <1>1, <1>3, <1>5, <1>6 DEF SeedsAreTheFile
<1>13. OneCommand'
  <2>1. ~(r > launched)
    BY <1>1, <1>2 DEF OneCommand
  <2>. QED BY <1>1, <1>2, <1>6, <1>7, <2>1 DEF OneCommand, commands
<1>14. SavesItsOwn'
  BY <1>1, <1>2, <1>6 DEF SavesItsOwn
<1>. QED
  BY <1>8, <1>9, <1>10, <1>11, <1>12, <1>13, <1>14 DEF StartIInv, StartInv

LEMMA DeployStep ==
  ASSUME StartIInv, NEW r \in Runs, Deploy(r)
  PROVE  StartIInv'
<1>. DEFINE new == [run |-> r, seed |-> seed[r]]
<1>1. /\ StartTypeOK /\ DeployerSeedIsKept /\ RecordsAreDeployments /\ UpCanPay
      /\ SeedsAreTheFile /\ OneCommand /\ SavesItsOwn
  BY DEF StartIInv, StartInv
<1>2. /\ stage[r] = "up" /\ kind[r] = "deploy"
      /\ stage' = [stage EXCEPT ![r] = "deployed"]
      /\ contracts' = contracts \cup {new}
      /\ UNCHANGED <<launched, kind, seed, address, seedFile, localRecord, publicRecord,
                     night, dust, agents, commands>>
  BY DEF Deploy, moves, fileVars, agents, commands
<1>3. seed[r] # None /\ seed[r] \in Sources /\ (seed[r] \in Runs => seed[r] = seedFile)
      /\ r \in Sources
  BY <1>1, <1>2 DEF SeedsAreTheFile, StartTypeOK, DeployerSeedIsKept, Sources
<1>4. new \in [run : Sources, seed : Sources] /\ new.seed = seed[r] /\ new.run = r
  BY <1>3
<1>. HIDE DEF new
<1>5. onChain' = onChain \cup {r}
  BY <1>2, <1>4 DEF onChain
<1>6. /\ \A q \in Runs : q # r => stage'[q] = stage[q]
      /\ stage'[r] = "deployed" /\ \A q \in Runs : alive(q)' = alive(q)
  BY <1>1, <1>2 DEF StartTypeOK, alive
<1>7. StartTypeOK'
  <2>1. stage' \in [Runs -> Stages] /\ contracts' \subseteq [run : Sources, seed : Sources]
    BY <1>1, <1>2, <1>4 DEF StartTypeOK, Stages
  <2>. QED BY <1>1, <1>2, <1>6, <2>1 DEF StartTypeOK
<1>8. DeployerSeedIsKept'
  BY <1>1, <1>2, <1>3, <1>4 DEF DeployerSeedIsKept
<1>9. RecordsAreDeployments'
  BY <1>1, <1>2, <1>5 DEF RecordsAreDeployments
<1>10. UpCanPay'
  BY <1>1, <1>2, <1>6 DEF UpCanPay, canPay
<1>11. SeedsAreTheFile'
  BY <1>1, <1>2, <1>6 DEF SeedsAreTheFile
<1>12. OneCommand'
  <2>1. ~(r > launched)
    BY <1>1, <1>2 DEF OneCommand
  <2>. QED BY <1>1, <1>2, <1>6, <2>1 DEF OneCommand, commands
<1>13. SavesItsOwn'
  BY <1>1, <1>2, <1>5, <1>6 DEF SavesItsOwn
<1>. QED
  BY <1>7, <1>8, <1>9, <1>10, <1>11, <1>12, <1>13 DEF StartIInv, StartInv

LEMMA SaveDeploymentStep ==
  ASSUME StartIInv, NEW r \in Runs, SaveDeployment(r)
  PROVE  StartIInv'
<1>1. /\ StartTypeOK /\ DeployerSeedIsKept /\ RecordsAreDeployments /\ UpCanPay
      /\ SeedsAreTheFile /\ OneCommand /\ SavesItsOwn
  BY DEF StartIInv, StartInv
<1>2. /\ \/ /\ stage[r] = "deployed" /\ stage' = [stage EXCEPT ![r] = "saved"]
            /\ localRecord' = r /\ publicRecord' = publicRecord
         \/ /\ stage[r] = "saved" /\ stage' = [stage EXCEPT ![r] = "ready"]
            /\ publicRecord' = r /\ localRecord' = localRecord
      /\ UNCHANGED <<launched, kind, seed, address, seedFile, night, dust, contracts,
                     onChain, agents, commands>>
  BY DEF SaveDeployment, moves, chainVars, afterDeploy, onChain, agents, commands
<1>3. /\ r \in commands /\ alive(r) /\ r \in onChain /\ r \in Nat
      /\ localRecord <= r /\ (stage[r] = "saved" => localRecord = r)
  BY <1>1, <1>2 DEF SavesItsOwn, OneCommand, commands, agents, alive, Runs
<1>4. /\ r <= launched /\ launched \in Nat /\ r \in Sources
      /\ {localRecord, publicRecord} \subseteq Nat
  BY <1>1, <1>2 DEF OneCommand, StartTypeOK, Runs, Sources, Foreign, None
<1>5. /\ \A q \in Runs : q # r => stage'[q] = stage[q]
      /\ \A q \in Runs : alive(q)' = alive(q)
      /\ \A q \in Runs : stage'[q] \notin {"off", "opening", "ended"}
                           <=> stage[q] \notin {"off", "opening", "ended"}
  BY <1>1, <1>2 DEF StartTypeOK, alive
<1>6. /\ {localRecord', publicRecord'} \subseteq {localRecord, publicRecord, r}
      /\ localRecord' \in {localRecord, r} /\ localRecord <= localRecord'
      /\ localRecord' <= r /\ localRecord' \in Nat
  BY <1>2, <1>3, <1>4
<1>7. StartTypeOK'
  <2>1. stage' \in [Runs -> Stages]
    BY <1>1, <1>2 DEF StartTypeOK, Stages
  <2>2. localRecord' \in Runs \cup {None} /\ publicRecord' \in Sources \cup {None}
    BY <1>1, <1>2, <1>4 DEF StartTypeOK
  <2>. QED BY <1>1, <1>2, <1>5, <2>1, <2>2 DEF StartTypeOK
<1>8. DeployerSeedIsKept'
  BY <1>1, <1>2 DEF DeployerSeedIsKept
<1>9. RecordsAreDeployments'
  <2>1. {localRecord', publicRecord'} \ {None} \subseteq onChain'
    BY <1>1, <1>2, <1>3, <1>6 DEF RecordsAreDeployments
  <2>2. publicRecord' \in Runs => publicRecord' <= localRecord'
    BY <1>1, <1>2, <1>3, <1>4 DEF RecordsAreDeployments
  <2>. QED BY <1>1, <1>2, <2>1, <2>2 DEF RecordsAreDeployments
<1>10. UpCanPay'
  BY <1>1, <1>2, <1>5 DEF UpCanPay, canPay
<1>11. SeedsAreTheFile'
  BY <1>1, <1>2, <1>5 DEF SeedsAreTheFile
<1>12. OneCommand'
  <2>1. \A c \in commands : alive(c) => c = r
    BY <1>1, <1>3 DEF OneCommand
  <2>2. localRecord' <= launched
    BY <1>4, <1>6, <1>3
  <2>3. \A q \in Runs : q > launched => stage'[q] = "off" /\ seed'[q] = None
    BY <1>1, <1>2, <1>4, <1>5, <1>3 DEF OneCommand
  <2>4. \A c \in commands : c \in Runs
    BY DEF commands
  <2>. QED BY <1>2, <1>5, <1>6, <2>1, <2>2, <2>3, <2>4 DEF OneCommand
<1>13. SavesItsOwn'
  <2>1. \A q \in Runs : stage'[q] \in {"deployed", "saved"} =>
          stage[q] \in {"deployed", "saved"}
    BY <1>1, <1>2 DEF StartTypeOK
  <2>2. \A q \in Runs : stage'[q] = "saved" => localRecord' = q
    <3>1. \A q \in Runs : stage[q] = "saved" => q \in commands /\ alive(q)
      BY <1>1 DEF SavesItsOwn, commands, agents, alive
    <3>2. \A q \in Runs : stage[q] = "saved" => q = r
      BY <1>1, <1>3, <3>1 DEF OneCommand
    <3>. QED BY <1>1, <1>2, <1>5, <3>2 DEF StartTypeOK, SavesItsOwn
  <2>. QED BY <1>1, <1>2, <2>1, <2>2 DEF SavesItsOwn
<1>. QED
  BY <1>7, <1>8, <1>9, <1>10, <1>11, <1>12, <1>13 DEF StartIInv, StartInv

LEMMA EndStep ==
  ASSUME StartIInv, NEW r \in Runs, End(r)
  PROVE  StartIInv'
<1>1. /\ StartTypeOK /\ DeployerSeedIsKept /\ RecordsAreDeployments /\ UpCanPay
      /\ SeedsAreTheFile /\ OneCommand /\ SavesItsOwn
  BY DEF StartIInv, StartInv
<1>2. /\ alive(r) /\ stage' = [stage EXCEPT ![r] = "ended"]
      /\ kind' = [kind EXCEPT ![r] = "none"]
      /\ seed' = [seed EXCEPT ![r] = None] /\ address' = [address EXCEPT ![r] = None]
      /\ UNCHANGED <<launched, seedFile, localRecord, publicRecord, night, dust, contracts,
                     onChain>>
  BY DEF End, fileVars, chainVars, onChain
<1>3. /\ \A q \in Runs : q # r =>
           /\ stage'[q] = stage[q] /\ kind'[q] = kind[q] /\ seed'[q] = seed[q]
           /\ address'[q] = address[q] /\ alive(q)' = alive(q)
      /\ stage'[r] = "ended" /\ seed'[r] = None /\ address'[r] = None /\ ~alive(r)'
      /\ None \notin Runs
  BY <1>1, <1>2 DEF StartTypeOK, alive, None, Runs
<1>4. StartTypeOK'
  <2>1. /\ stage' \in [Runs -> Stages] /\ kind' \in [Runs -> Kinds \cup {"none"}]
        /\ seed' \in [Runs -> Sources \cup {None}]
        /\ address' \in [Runs -> Sources \cup {None}]
    BY <1>1, <1>2 DEF StartTypeOK, Stages
  <2>. QED BY <1>1, <1>2, <1>3, <2>1 DEF StartTypeOK
<1>5. DeployerSeedIsKept'
  BY <1>1, <1>2, <1>3 DEF DeployerSeedIsKept
<1>6. RecordsAreDeployments'
  BY <1>1, <1>2, <1>3 DEF RecordsAreDeployments
<1>7. UpCanPay'
  BY <1>1, <1>2, <1>3 DEF UpCanPay, canPay
<1>8. SeedsAreTheFile'
  BY <1>1, <1>2, <1>3 DEF SeedsAreTheFile
<1>9. OneCommand'
  <2>1. \A c \in commands' : alive(c)' => c \in Runs /\ c # r /\ c \in commands /\ alive(c)
    BY <1>3 DEF commands, agents
  <2>2. ~(r > launched)
    BY <1>1, <1>2 DEF OneCommand, alive
  <2>. QED BY <1>1, <1>2, <1>3, <2>1, <2>2 DEF OneCommand
<1>10. SavesItsOwn'
  BY <1>1, <1>2, <1>3 DEF SavesItsOwn
<1>. QED
  BY <1>4, <1>5, <1>6, <1>7, <1>8, <1>9, <1>10 DEF StartIInv, StartInv

LEMMA StartStep == StartIInv /\ [StartNext]_startVars => StartIInv'
<1>. SUFFICES ASSUME StartIInv, [StartNext]_startVars PROVE StartIInv'
  OBVIOUS
<1>1. CASE StartNext
  BY <1>1, LaunchStep, OpenWalletStep, RunStep, DeployStep, SaveDeploymentStep, EndStep,
     ChainStep
     DEF StartNext, walletStep
<1>2. CASE UNCHANGED startVars
  BY <1>2 DEF startVars, StartIInv, StartInv, StartTypeOK, DeployerSeedIsKept,
     RecordsAreDeployments, UpCanPay, SeedsAreTheFile, OneCommand, SavesItsOwn,
     alive, agents, commands, onChain, canPay
<1>. QED
  BY <1>1, <1>2

\* Files, funds and chain agree wherever a run ended, for any number of runs,
\* with the deployment that is committed or without, and however each process
\* is configured: a seed that was drawn stays on disk, what is recorded or used
\* is deployed, the website knows of no deployment made here that the command
\* line does not, and a wallet that is up can pay (midnight/cli/src/main.ts,
\* state.ts and wallet.ts, apps/web/src/lib/nightpass-agent.ts).
THEOREM StartHolds == StartSpec => []StartInv
<1>1. StartIInv => StartInv
  BY DEF StartIInv
<1>. QED
  BY <1>1, StartInitially, StartStep, PTL DEF StartSpec

-----------------------------------------------------------------------------
(***************************************************************************)
(* NightpassPage.                                                          *)
(*                                                                         *)
(* The public record only grows, so it is enough that each copy of a pass  *)
(* was within it when it was made.                                         *)
(***************************************************************************)
\* A pass as somebody tells of it: bought, and no more calls than were spent.
Recorded(p) == p.key \in DOMAIN onRecord /\ p.calls <= onRecord[p.key]

\* What was asked for is on record.
Covered(ask) == /\ ask.slug = Tool /\ ask.key \in DOMAIN onRecord
                /\ ask.calls <= onRecord[ask.key]

\* An answer shows what it has to, and nothing that is not on record.
Confirms(r) == /\ r.handed => 0 .. r.calls - 1 \subseteq r.present
               /\ \A i \in r.present : i < spent(r.of)

\* The form has the pass it took over, a request for what was handed over asks
\* for calls on record, and an answer keeps its promise from the moment the
\* server read the ledger.
AuditTrue ==
  /\ \A p \in adopted : inputs.key = p.key /\ Recorded(p)
  /\ \A r \in asking : r.handed => Covered(r.ask)
  /\ \A r \in found \cup verify : Confirms(r)

\* The inductive invariant. Beside the promises it bounds every copy of a pass
\* there is, in the session, in an answer on its way, on the page and in the
\* form, by the public record.
PageIInv ==
  /\ PageTypeOK
  /\ held \in [Visitors -> SUBSET HeldPass]
  /\ DOMAIN onRecord \subseteq Keys /\ onRecord \in [DOMAIN onRecord -> 0 .. Quota]
  /\ gets \in Nat /\ IsFiniteSet(answers)
  /\ phase = "closed" => gets = 0 /\ answers = {}
  /\ \A v \in Visitors : \A p \in held[v] : Recorded(p)
  /\ \A a \in answers \cup reply : \A p \in a.pass : Recorded(p)
  /\ \A p \in shown : Recorded(p)
  /\ AuditTrue

\* What the service keeps, whichever step it takes.
ServiceTrue ==
  /\ held \in [Visitors -> SUBSET HeldPass]
  /\ DOMAIN onRecord \subseteq Keys /\ onRecord \in [DOMAIN onRecord -> 0 .. Quota]
  /\ \A v \in Visitors : \A p \in held[v] : Recorded(p)

\* The record only grows.
RecordGrows == \A k \in DOMAIN onRecord :
           k \in DOMAIN onRecord' /\ onRecord[k] <= onRecord'[k] /\ onRecord'[k] \in 0 .. Quota

\* So what somebody told of a pass stays covered.
LEMMA StillRecorded ==
  ASSUME ServiceTrue, RecordGrows, NEW p \in HeldPass, Recorded(p)
  PROVE  Recorded(p)'
<1>1. p.calls \in Nat /\ onRecord[p.key] \in Nat /\ onRecord'[p.key] \in Nat
  BY DEF HeldPass, Recorded, ServiceTrue, RecordGrows
<1>. QED BY <1>1 DEF Recorded, RecordGrows

\* Whatever the service does, it counts no more calls than it recorded, and the
\* record only grows.
LEMMA ServiceStep ==
  ASSUME ServiceTrue, ServiceNext \/ UNCHANGED serviceVars
  PROVE  ServiceTrue' /\ RecordGrows
<1>0. /\ held \in [Visitors -> SUBSET HeldPass]
      /\ DOMAIN onRecord \subseteq Keys /\ onRecord \in [DOMAIN onRecord -> 0 .. Quota]
      /\ \A v \in Visitors : \A p \in held[v] : Recorded(p)
  BY DEF ServiceTrue
<1>q. Quota \in Nat \ {0}
  BY ServiceAssumption
<1>1. CASE UNCHANGED serviceVars
  BY <1>0, <1>1, <1>q DEF serviceVars, ServiceTrue, RecordGrows, Recorded
<1>2. ASSUME NEW k \in Keys, Issue(k) PROVE ServiceTrue' /\ RecordGrows
  <2>1. /\ DOMAIN onRecord' = DOMAIN onRecord \cup {k}
        /\ onRecord' \in [DOMAIN onRecord' -> 0 .. Quota]
        /\ \A x \in DOMAIN onRecord : onRecord'[x] = onRecord[x]
        /\ held' = held
    BY <1>0, <1>2, <1>q DEF Issue
  <2>. QED BY <2>1, <1>0, <1>q DEF ServiceTrue, RecordGrows, Recorded
<1>3. ASSUME NEW k \in Keys, Record(k) PROVE ServiceTrue' /\ RecordGrows
  <2>1. /\ DOMAIN onRecord' = DOMAIN onRecord /\ k \in DOMAIN onRecord
        /\ onRecord'[k] = onRecord[k] + 1 /\ onRecord[k] \in Nat /\ onRecord[k] < Quota
        /\ onRecord' \in [DOMAIN onRecord' -> 0 .. Quota]
        /\ \A x \in DOMAIN onRecord : x # k => onRecord'[x] = onRecord[x]
        /\ held' = held
    BY <1>0, <1>3, <1>q DEF Record
  <2>2. RecordGrows
    BY <2>1, <1>0, <1>q DEF RecordGrows
  <2>3. ASSUME NEW v \in Visitors, NEW p \in held[v] PROVE Recorded(p)'
    <3>1. p \in HeldPass
      BY <1>0
    <3>. QED BY <3>1, <2>2, <1>0, StillRecorded DEF ServiceTrue
  <2>. QED BY <2>1, <2>2, <2>3, <1>0 DEF ServiceTrue
<1>4. ASSUME NEW v \in Visitors, NEW k \in Keys, Grant(v, k) PROVE ServiceTrue' /\ RecordGrows
  <2>1. /\ onRecord' = onRecord /\ k \in DOMAIN onRecord /\ onRecord[k] = 0
        /\ held' = [held EXCEPT ![v] = {[key |-> k, calls |-> 0]}]
    BY <1>4 DEF Grant
  <2>2. held' \in [Visitors -> SUBSET HeldPass]
    BY <2>1, <1>0, <1>q DEF HeldPass
  <2>3. ASSUME NEW u \in Visitors, NEW p \in held'[u] PROVE Recorded(p)'
    <3>1. CASE u = v
      BY <3>1, <2>1, <2>3, <1>0 DEF Recorded
    <3>2. CASE u # v
      BY <3>2, <2>1, <2>3, <1>0 DEF Recorded
    <3>. QED BY <3>1, <3>2
  <2>. QED BY <2>1, <2>2, <2>3, <1>0, <1>q DEF ServiceTrue, RecordGrows
<1>5. ASSUME NEW v \in Visitors, Count(v) PROVE ServiceTrue' /\ RecordGrows
  <2>1. PICK p \in held[v] : /\ p.calls < onRecord[p.key]
                             /\ held' = [held EXCEPT ![v] = {[p EXCEPT !.calls = @ + 1]}]
    BY <1>5 DEF Count
  <2>2. /\ onRecord' = onRecord /\ p \in HeldPass /\ p.key \in DOMAIN onRecord
        /\ onRecord[p.key] \in 0 .. Quota
    BY <1>0, <1>5, <2>1 DEF Count, Recorded
  <2>3. p.calls + 1 \in 0 .. Quota /\ p.calls + 1 <= onRecord[p.key]
    BY <2>1, <2>2, <1>q DEF HeldPass
  <2>. DEFINE q == [p EXCEPT !.calls = @ + 1]
  <2>4. q \in HeldPass /\ q.key = p.key /\ q.calls = p.calls + 1
    BY <2>2, <2>3 DEF HeldPass
  <2>. HIDE DEF q
  <2>5. held' \in [Visitors -> SUBSET HeldPass] /\ held'[v] = {q}
        /\ \A u \in Visitors : u # v => held'[u] = held[u]
    BY <2>1, <2>4, <1>0 DEF q
  <2>6. ASSUME NEW u \in Visitors, NEW p2 \in held'[u] PROVE Recorded(p2)'
    <3>1. CASE u = v
      BY <3>1, <2>2, <2>3, <2>4, <2>5, <2>6 DEF Recorded
    <3>2. CASE u # v
      BY <3>2, <2>2, <2>5, <2>6, <1>0 DEF Recorded
    <3>. QED BY <3>1, <3>2
  <2>. QED BY <2>2, <2>5, <2>6, <1>0, <1>q DEF ServiceTrue, RecordGrows
<1>6. CASE Forget
  <2>1. onRecord' = onRecord /\ held' = [v \in Visitors |-> {}]
    BY <1>6 DEF Forget
  <2>. QED BY <2>1, <1>0, <1>q DEF ServiceTrue, RecordGrows
<1>. QED BY <1>1, <1>2, <1>3, <1>4, <1>5, <1>6 DEF ServiceNext

\* A page that is not open tells nothing.
LEMMA LivePageInitially == PageInit => PageIInv
<1>. SUFFICES ASSUME PageInit PROVE PageIInv
  OBVIOUS
<1>. USE DEF PageInit, ServiceInit
<1>1. PageTypeOK
  <2>1. Cardinality({}) = 0 /\ gets + Cardinality(answers) = 0
    BY FS_EmptySet
  <2>2. inputs \in Inputs
    BY ServiceAssumption, PageAssumption DEF Inputs
  <2>. QED BY <2>1, <2>2, PageAssumption DEF PageTypeOK, Phases
<1>2. AuditTrue
  BY DEF AuditTrue
<1>3. IsFiniteSet(answers) /\ gets \in Nat
  BY FS_EmptySet
<1>. QED BY <1>1, <1>2, <1>3 DEF PageIInv

\* Every step of the page leaves the service alone or is one of its steps.
LEMMA PageIsService == PageNext => ServiceNext \/ UNCHANGED serviceVars
<1>1. RestartServer => ServiceNext
  BY DEF RestartServer, ServiceNext
<1>2. Elsewhere => ServiceNext
  BY DEF Elsewhere, ServiceNext
<1>3. PostSucceeds => ServiceNext \/ UNCHANGED serviceVars
  BY PageAssumption DEF PostSucceeds, ServiceNext, serviceVars
<1>. QED BY <1>1, <1>2, <1>3 DEF PageNext, serviceVars, BootEnds, Open, Poll,
    AnswerGet, Refresh,
     GetFails, Press, PostAnswered, PostFails, Adopt, NewSecret, SelectCalls, ChooseSlug,
     DeriveAndCheck, ReadChain, Checked, CheckFails

\* What was told before a step is covered by the record after it, and so is
\* what the session tells now.
LEMMA StillTrue ==
  ASSUME PageIInv, PageNext
  PROVE  /\ ServiceTrue' /\ RecordGrows
         /\ \A p \in HeldPass : Recorded(p) => Recorded(p)'
         /\ snapshot \in Snapshot /\ \A p \in snapshot.pass : Recorded(p)'
         /\ boot' \in Phases => snapshot' \in Snapshot /\ \A p \in snapshot'.pass : Recorded(p)'
<1>1. ServiceTrue
  BY DEF PageIInv, ServiceTrue
<1>2. ServiceTrue' /\ RecordGrows
  BY <1>1, PageIsService, ServiceStep
<1>3. \A p \in HeldPass : Recorded(p) => Recorded(p)'
  BY <1>1, <1>2, StillRecorded
<1>4. held[Me] \subseteq HeldPass /\ held'[Me] \subseteq HeldPass /\ boot \in Phases
      /\ (\A p \in held[Me] : Recorded(p)) /\ (\A p \in held'[Me] : Recorded(p)')
  BY <1>1, <1>2, PageAssumption DEF ServiceTrue, PageIInv, PageTypeOK
<1>5. snapshot = [phase |-> boot, pass |-> held[Me]]
      /\ snapshot' = [phase |-> boot', pass |-> held'[Me]]
  BY DEF snapshot
<1>. QED BY <1>2, <1>3, <1>4, <1>5 DEF Snapshot

\* What is asked for stays on record, and an answer keeps its promise.
LEMMA AnswersStayTrue ==
  ASSUME PageIInv, PageNext
  PROVE  /\ \A ask \in Inputs : Covered(ask) => Covered(ask)'
         /\ \A r \in Results : Confirms(r) => Confirms(r)'
<1>1. /\ RecordGrows /\ onRecord \in [DOMAIN onRecord -> 0 .. Quota]
      /\ onRecord' \in [DOMAIN onRecord' -> 0 .. Quota] /\ Quota \in Nat
  BY StillTrue, ServiceAssumption DEF ServiceTrue, PageIInv
<1>2. ASSUME NEW ask \in Inputs, Covered(ask) PROVE Covered(ask)'
  <2>1. /\ ask.slug = Tool /\ ask.key \in DOMAIN onRecord /\ ask.calls \in Nat
        /\ ask.calls <= onRecord[ask.key] /\ onRecord[ask.key] \in Nat
    BY <1>1, <1>2 DEF Covered, Inputs
  <2>2. ask.key \in DOMAIN onRecord' /\ onRecord[ask.key] <= onRecord'[ask.key]
        /\ onRecord'[ask.key] \in Nat
    BY <1>1, <2>1 DEF RecordGrows
  <2>. QED BY <2>1, <2>2 DEF Covered
<1>3. ASSUME NEW r \in Results, Confirms(r) PROVE Confirms(r)'
  <2>1. r.present \subseteq 0 .. Quota
    BY DEF Results
  <2>2. ASSUME NEW i \in r.present PROVE i < spent(r.of)'
    <3>1. i \in Nat /\ i < spent(r.of)
      BY <1>1, <1>3, <2>1 DEF Confirms
    <3>2. r.of \in DOMAIN onRecord /\ spent(r.of) = onRecord[r.of]
          /\ onRecord[r.of] \in Nat
      BY <1>1, <3>1 DEF spent
    <3>3. r.of \in DOMAIN onRecord' /\ onRecord[r.of] <= onRecord'[r.of]
          /\ onRecord'[r.of] \in Nat
      BY <1>1, <3>2 DEF RecordGrows
    <3>. QED BY <3>1, <3>2, <3>3 DEF spent
  <2>. QED BY <1>3, <2>2 DEF Confirms
<1>. QED BY <1>2, <1>3

\* One answer less is on its way.
LEMMA OneAnswerLess ==
  ASSUME NEW S, NEW x, IsFiniteSet(S)
  PROVE  /\ IsFiniteSet(S \ {x}) /\ Cardinality(S \ {x}) \in Nat
         /\ Cardinality(S \ {x}) <= Cardinality(S)
<1>1. IsFiniteSet(S \ {x}) /\ Cardinality(S) \in Nat /\ Cardinality(S \ {x}) \in Nat
  BY FS_RemoveElement, FS_CardinalityType
<1>. QED BY <1>1, FS_Subset

\* Each step of the page tells what was told before or what the session says.
LEMMA LivePageStep == PageIInv /\ [PageNext]_pageVars => PageIInv'
<1>. SUFFICES ASSUME PageIInv, [PageNext]_pageVars PROVE PageIInv'
  OBVIOUS
<1>0. CASE UNCHANGED pageVars
  BY <1>0 DEF pageVars, PageIInv, PageTypeOK, Recorded, AuditTrue, Covered, Confirms, spent
<1>. SUFFICES ASSUME PageNext PROVE PageIInv'
  BY <1>0
<1>t. /\ boot \in Phases /\ gets + Cardinality(answers) <= MaxGets /\ answers \subseteq Snapshot
      /\ phase \in Phases \cup {"closed", "checking"} /\ shown \subseteq HeldPass
      /\ post \in Actions \cup {"idle"} /\ reply \subseteq Snapshot /\ adopted \subseteq HeldPass
      /\ inputs \in Inputs /\ asking \subseteq Requests /\ found \cup verify \subseteq Results
      /\ gets \in Nat /\ IsFiniteSet(answers) /\ Cardinality(answers) \in Nat
      /\ MaxGets \in Nat \ {0} /\ (phase = "closed" => gets = 0 /\ answers = {})
  BY FS_CardinalityType, PageAssumption DEF PageIInv, PageTypeOK
<1>s. /\ held' \in [Visitors -> SUBSET HeldPass]
      /\ DOMAIN onRecord' \subseteq Keys /\ onRecord' \in [DOMAIN onRecord' -> 0 .. Quota]
      /\ \A v \in Visitors : \A p \in held'[v] : Recorded(p)'
  BY StillTrue DEF ServiceTrue
<1>a. \A a \in answers \cup reply : a.phase \in Phases /\ a.pass \subseteq HeldPass
                                    /\ \A p \in a.pass : Recorded(p)'
  <2>. TAKE a \in answers \cup reply
  <2>1. a \in Snapshot /\ \A p \in a.pass : Recorded(p)
    BY <1>t DEF PageIInv
  <2>2. a.phase \in Phases /\ a.pass \subseteq HeldPass
    BY <2>1 DEF Snapshot
  <2>. QED BY <2>1, <2>2, StillTrue
<1>p. \A p \in shown : Recorded(p)'
  BY <1>t, StillTrue DEF PageIInv
<1>n. snapshot \in Snapshot /\ \A p \in snapshot.pass : Recorded(p)'
  BY StillTrue
\* It is enough that what is told afterwards was true before or is the session's.
<1>q. ASSUME boot' \in Phases, gets' \in Nat, IsFiniteSet(answers'),
             gets' + Cardinality(answers') <= MaxGets, answers' \subseteq answers \cup {snapshot},
             phase' \in Phases \cup {"closed", "checking"},
             post' \in Actions \cup {"idle"}, reply' \subseteq reply \cup {snapshot'},
             shown' = shown \/ \E a \in answers \cup reply : shown' = a.pass,
             phase' = "closed" => gets' = 0 /\ answers' = {},
             adopted' \subseteq HeldPass, inputs' \in Inputs, asking' \subseteq Requests,
             found' \cup verify' \subseteq Results, AuditTrue'
      PROVE  PageIInv'
  <2>1. snapshot' \in Snapshot /\ \A p \in snapshot'.pass : Recorded(p)'
    BY <1>q, StillTrue
  <2>2. shown' \subseteq HeldPass /\ \A p \in shown' : Recorded(p)'
    BY <1>q, <1>t, <1>a, <1>p
  <2>4. answers' \subseteq Snapshot /\ reply' \subseteq Snapshot
    BY <1>q, <1>t, <1>n, <2>1
  <2>5. \A a \in answers' \cup reply' : \A p \in a.pass : Recorded(p)'
    BY <1>q, <1>a, <1>n, <2>1
  <2>6. PageTypeOK'
    BY <1>q, <2>2, <2>4 DEF PageTypeOK
  <2>. QED BY <1>q, <1>s, <2>2, <2>5, <2>6 DEF PageIInv
\* What the verifier keeps if it makes no step of its own, part by part.
<1>c. /\ \A p \in adopted : inputs.key = p.key /\ Recorded(p)'
      /\ \A r \in asking : r.ask \in Inputs /\ (r.handed => Covered(r.ask)')
      /\ \A r \in found \cup verify : Confirms(r)'
  <2>1. \A r \in asking : r.ask \in Inputs
    BY <1>t DEF Requests
  <2>. QED BY <1>t, <2>1, StillTrue, AnswersStayTrue DEF PageIInv, AuditTrue
<1>v. UNCHANGED auditVars => /\ AuditTrue' /\ adopted' \subseteq HeldPass /\ inputs' \in Inputs
                             /\ asking' \subseteq Requests /\ found' \cup verify' \subseteq Results
  BY <1>c, <1>t DEF AuditTrue, auditVars
<1>1. ASSUME NEW p \in Phases, BootEnds(p) PROVE PageIInv'
  BY <1>1, <1>t, <1>q, <1>v DEF BootEnds, runVars, postVars
<1>2. CASE RestartServer
  BY <1>2, <1>t, <1>q, <1>v DEF RestartServer, runVars, postVars,
     Phases
<1>3. CASE Elsewhere
  BY <1>3, <1>t, <1>q, <1>v DEF Elsewhere, runVars, postVars
<1>4. CASE Open
  <2>1. answers' = {} /\ gets' = 1 /\ Cardinality({}) = 0
    BY <1>4, <1>t, FS_EmptySet DEF Open
  <2>2. gets' + Cardinality(answers') <= MaxGets
    BY <2>1, <1>t
  <2>. QED BY <1>4, <1>t, <1>q, <1>v, <2>1, <2>2 DEF Open, postVars
<1>5. CASE Poll
  <2>1. gets' \in Nat /\ gets' + Cardinality(answers) <= MaxGets /\ phase # "closed"
    BY <1>5, <1>t DEF Poll, polls, warming
  <2>. QED BY <1>5, <1>t, <1>q, <1>v, <2>1 DEF Poll, postVars
<1>6. CASE AnswerGet
  <2>1. IsFiniteSet(answers') /\ Cardinality(answers') <= Cardinality(answers) + 1
        /\ Cardinality(answers') \in Nat
    <3>1. answers' = answers \cup {snapshot}
      BY <1>6 DEF AnswerGet
    <3>2. IsFiniteSet(answers \cup {snapshot})
          /\ (Cardinality(answers \cup {snapshot}) = Cardinality(answers)
              \/ Cardinality(answers \cup {snapshot}) = Cardinality(answers) + 1)
      BY <1>t, FS_AddElement
    <3>. QED BY <3>1, <3>2, <1>t
  <2>2. gets' \in Nat /\ gets' + Cardinality(answers') <= MaxGets
    BY <1>6, <1>t, <2>1 DEF AnswerGet
  <2>. QED BY <1>6, <1>t, <1>q, <1>v, <2>1, <2>2 DEF AnswerGet, postVars
<1>7. ASSUME NEW a \in Snapshot, Refresh(a) PROVE PageIInv'
  <2>1. IsFiniteSet(answers') /\ Cardinality(answers') <= Cardinality(answers)
        /\ Cardinality(answers') \in Nat /\ a \in answers
    BY <1>7, <1>t, OneAnswerLess DEF Refresh
  <2>2. gets' = gets /\ gets + Cardinality(answers') <= MaxGets /\ phase' \in Phases
        /\ answers' \subseteq answers /\ shown' = a.pass
    BY <1>7, <1>t, <1>a, <2>1 DEF Refresh
  <2>3. UNCHANGED <<boot, post, reply, auditVars>>
    BY <1>7 DEF Refresh, postVars
  <2>4. phase' # "closed"
    BY <2>2 DEF Phases
  <2>. QED BY <1>t, <1>q, <1>v, <2>1, <2>2, <2>3, <2>4
<1>8. CASE GetFails
  <2>1. IsFiniteSet(answers') /\ Cardinality(answers') <= Cardinality(answers)
        /\ Cardinality(answers') \in Nat /\ answers' \subseteq answers
    <3>1. answers' = answers \/ \E a \in answers : answers' = answers \ {a}
      BY <1>8 DEF GetFails
    <3>2. CASE answers' = answers
      BY <3>2, <1>t
    <3>3. ASSUME NEW a \in answers, answers' = answers \ {a} 
          PROVE  /\ IsFiniteSet(answers') /\ Cardinality(answers') <= Cardinality(answers)
                 /\ Cardinality(answers') \in Nat /\ answers' \subseteq answers
      BY <3>3, <1>t, OneAnswerLess
    <3>. QED BY <3>1, <3>2, <3>3
  <2>2. gets' \in Nat /\ gets' <= gets
    BY <1>8, <1>t DEF GetFails
  <2>3. gets' + Cardinality(answers') <= MaxGets
    BY <1>t, <2>1, <2>2
  <2>. QED BY <1>8, <1>t, <1>q, <1>v, <2>1, <2>2, <2>3 DEF GetFails, postVars
<1>9. ASSUME NEW action \in Actions, Press(action) PROVE PageIInv'
  BY <1>9, <1>t, <1>q, <1>v DEF Press
<1>10. CASE PostSucceeds
  BY <1>10, <1>t, <1>q, <1>v DEF PostSucceeds
<1>11. CASE PostAnswered
  <2>1. \E a \in reply : phase' = a.phase /\ shown' = a.pass
    BY <1>11 DEF PostAnswered, afterPost
  <2>2. phase' \in Phases /\ \E a \in answers \cup reply : shown' = a.pass
    BY <2>1, <1>a
  <2>3. /\ UNCHANGED <<boot, gets, answers, auditVars>>
        /\ post' = "idle" /\ reply' = {} /\ phase' # "closed"
    BY <1>11, <2>2 DEF PostAnswered, Phases
  <2>. QED BY <1>t, <1>q, <1>v, <2>2, <2>3
<1>12. CASE PostFails
  BY <1>12, <1>t, <1>q, <1>v DEF PostFails
<1>13. CASE Adopt
  <2>1. PICK p \in shown : /\ p.calls > 0 /\ adopted' = {p}
                           /\ inputs' = [key |-> p.key, slug |-> Tool, calls |-> p.calls]
    BY <1>13 DEF Adopt
  <2>2. inputs' \in Inputs /\ adopted' \subseteq HeldPass
    BY <2>1, <1>t, ServiceAssumption, PageAssumption DEF HeldPass, Inputs
  <2>3. verify' = {} /\ asking' = asking /\ found' = found
    BY <1>13 DEF Adopt
  <2>4. AuditTrue'
    BY <2>1, <2>3, <1>c, <1>p DEF AuditTrue
  <2>. QED BY <1>13, <1>t, <1>q, <2>2, <2>3, <2>4 DEF Adopt, runVars, postVars
<1>14. CASE NewSecret
  <2>1. inputs' \in Inputs /\ adopted' = {} /\ verify' = {} /\ asking' = asking /\ found' = found
    BY <1>14, <1>t DEF NewSecret, Inputs
  <2>2. AuditTrue'
    BY <2>1, <1>c DEF AuditTrue
  <2>. QED BY <1>14, <1>t, <1>q, <2>1, <2>2 DEF NewSecret, runVars, postVars
\* The other fields of the form.
<1>f. ASSUME inputs' \in Inputs, inputs'.key = inputs.key,
             UNCHANGED <<boot, runVars, adopted, asking, found, verify>>
      PROVE  PageIInv'
  <2>1. AuditTrue'
    BY <1>f, <1>c DEF AuditTrue
  <2>. QED BY <1>f, <1>t, <1>q, <2>1 DEF runVars, postVars
<1>15. ASSUME NEW n \in 1 .. Quota, SelectCalls(n) PROVE PageIInv'
  BY <1>15, <1>t, <1>f DEF SelectCalls, Inputs
<1>16. ASSUME NEW x \in Slugs, ChooseSlug(x) PROVE PageIInv'
  BY <1>16, <1>t, <1>f DEF ChooseSlug, Inputs
<1>17. CASE DeriveAndCheck
  <2>1. /\ asking' = {[ask |-> inputs, handed |-> asHanded]} /\ verify' = {}
        /\ UNCHANGED <<onRecord, inputs, adopted, found>>
    BY <1>17 DEF DeriveAndCheck
  <2>2. [ask |-> inputs, handed |-> asHanded] \in Requests
    BY <1>t DEF Requests, asHanded
  <2>3. asHanded => Covered(inputs)
    <3>1. SUFFICES ASSUME NEW p \in adopted, inputs.slug = Tool, inputs.calls <= p.calls
                   PROVE  Covered(inputs)
      BY DEF asHanded
    <3>2. inputs.key = p.key /\ p.key \in DOMAIN onRecord /\ p.calls <= onRecord[p.key]
          /\ onRecord[p.key] \in Nat
      BY ServiceAssumption DEF PageIInv, AuditTrue, Recorded
    <3>3. inputs.calls \in Nat /\ p.calls \in Nat
      BY <1>t, ServiceAssumption DEF HeldPass, Inputs
    <3>. QED BY <3>1, <3>2, <3>3 DEF Covered
  <2>4. PICK r \in Requests : asking' = {r} /\ (r.handed => Covered(r.ask)')
    BY <2>1, <2>2, <2>3 DEF Covered
  <2>5. AuditTrue'
    BY <2>1, <2>4, <1>c DEF AuditTrue
  <2>. QED BY <1>17, <1>t, <1>q, <2>1, <2>4, <2>5 DEF DeriveAndCheck, runVars, postVars
<1>18. CASE ReadChain
  <2>1. PICK r \in asking :
          found' = {[of |-> derived(r.ask), calls |-> r.ask.calls,
                     present |-> rows(r.ask), handed |-> r.handed]}
    BY <1>18 DEF ReadChain
  <2>. DEFINE b == [of |-> derived(r.ask), calls |-> r.ask.calls,
                    present |-> rows(r.ask), handed |-> r.handed]
  <2>2. /\ asking' = {} /\ UNCHANGED <<onRecord, inputs, adopted, verify>>
        /\ r.ask \in Inputs /\ r.handed \in BOOLEAN
    BY <1>18, <1>t DEF ReadChain, Requests
  <2>3. r.ask.calls \in 1 .. Quota /\ derived(r.ask) \in Keys \cup {Throwaway}
        /\ Quota \in Nat
    BY <2>2, ServiceAssumption DEF Inputs, derived
  <2>4. b \in Results
    BY <2>2, <2>3 DEF Results, rows
  <2>5. r.handed => derived(r.ask) = r.ask.key /\ spent(r.ask.key) = onRecord[r.ask.key]
                    /\ r.ask.calls <= spent(r.ask.key) /\ spent(r.ask.key) \in Nat
    BY ServiceAssumption DEF PageIInv, AuditTrue, Covered, derived, spent
  <2>6. r.handed => 0 .. r.ask.calls - 1 \subseteq rows(r.ask)
    BY <2>3, <2>5 DEF rows
  <2>7. \A i \in rows(r.ask) : i < spent(derived(r.ask))
    BY DEF rows
  <2>8. Confirms(b)
    BY <2>6, <2>7, <2>5 DEF Confirms
  <2>9. PICK a \in Results : found' = {a} /\ Confirms(a)'
    <3>. HIDE DEF b
    <3>1. PICK a : a = b
      OBVIOUS
    <3>2. found' = {a} /\ a \in Results /\ Confirms(a)
      BY <3>1, <2>1, <2>4, <2>8 DEF b
    <3>. QED BY <3>2, AnswersStayTrue
  <2>10. AuditTrue'
    BY <2>2, <2>9, <1>c DEF AuditTrue
  <2>. QED BY <1>18, <1>t, <1>q, <2>2, <2>9, <2>10 DEF ReadChain, runVars, postVars
<1>19. CASE Checked
  <2>1. verify' = found /\ found' = {} /\ UNCHANGED <<inputs, adopted, asking>>
    BY <1>19 DEF Checked
  <2>2. AuditTrue'
    BY <2>1, <1>c DEF AuditTrue
  <2>. QED BY <1>19, <1>t, <1>q, <2>1, <2>2 DEF Checked, runVars, postVars
<1>20. CASE CheckFails
  <2>1. asking' = {} /\ found' = {} /\ UNCHANGED <<inputs, adopted, verify>>
    BY <1>20 DEF CheckFails
  <2>2. AuditTrue'
    BY <2>1, <1>c DEF AuditTrue
  <2>. QED BY <1>20, <1>t, <1>q, <2>1, <2>2 DEF CheckFails, runVars, postVars
<1>. QED BY <1>1, <1>2, <1>3, <1>4, <1>5, <1>6, <1>7, <1>8, <1>9, <1>10, <1>11,
    <1>12,
            <1>13, <1>14, <1>15, <1>16, <1>17, <1>18, <1>19, <1>20 DEF PageNext

\* The two promises follow from the one invariant.
LEMMA PageHolds == PageSpec => [](PageInv /\ AuditConfirmsVisitor)
<1>1. PageIInv => PageInv /\ AuditConfirmsVisitor
  BY DEF PageIInv, PageInv, ShownCallsAreOnRecord, Recorded, AuditConfirmsVisitor,
     AuditTrue, Confirms
<1>. QED BY <1>1, LivePageInitially, LivePageStep, PTL DEF PageSpec

\* What the page shows as spent is on the public record, whatever order the
\* answers of polls and posts come in and whether or not the server restarts in
\* between, for any visitors, quota and number of polls
\* (nightpass-run.tsx).
THEOREM ShownIsOnRecord == PageSpec => []PageInv
BY PageHolds, PTL

\* A request for calls that the page had handed over when it was made is
\* answered with each of them, however late the answer and whatever has been
\* edited, adopted or spent since, and no answer shows a call that is not on
\* record (nightpass-verifier.tsx, verify/route.ts).
THEOREM AuditAgreesWithPage == PageSpec => []AuditConfirmsVisitor
BY PageHolds, PTL
=============================================================================
