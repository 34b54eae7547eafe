------------------------------- MODULE LiveFeed -------------------------------
(***************************************************************************)
(* The list of recent settlements that a page keeps up to date             *)
(* (components/live-feed.tsx) by polling GET /api/settlements.             *)
(*                                                                         *)
(* A version stands for the rows of the ledger at a time.  Polls can       *)
(* outlive the interval and be answered in any order or never; each tick   *)
(* takes the newest ticket and aborts its predecessor, and an abort can    *)
(* come too late for an answer that is already on its way.                 *)
(***************************************************************************)
EXTENDS Naturals, FiniteSets

CONSTANTS
  MaxVersion,  \* bound: times the ledger changes
  MaxPolls     \* bound: polls and answers on their way at once

ASSUME FeedAssumption == MaxVersion \in Nat /\ MaxPolls \in Nat \ {0}

VARIABLES
  version,      \* of the ledger
  feedRows,     \* the version on the page
  feedPolls,    \* polls on their way to the server: TRUE for the one with the
                \* newest ticket, FALSE for superseded ones
  feedAnswers,  \* answers on their way back: set of [newest, version]
  feedOpen      \* whether the page is open

feedVars == <<version, feedRows, feedPolls, feedAnswers, feedOpen>>

\* The page is painted with a snapshot of the ledger.
FeedInit ==
  /\ version = 0 /\ feedRows = 0
  /\ feedPolls = {} /\ feedAnswers = {}
  /\ feedOpen = TRUE

SettlementRecorded ==
  /\ version < MaxVersion
  /\ version' = version + 1
  /\ UNCHANGED <<feedRows, feedPolls, feedAnswers, feedOpen>>

superseded(as) == {[a EXCEPT !.newest = FALSE] : a \in as}

\* Aborting what came before removes it, or is too late.
FeedTick ==
  /\ feedOpen
  /\ \E late \in SUBSET feedPolls, back \in SUBSET feedAnswers :
       /\ Cardinality(late) + Cardinality(back) < MaxPolls
       /\ feedPolls' = {FALSE : p \in late} \cup {TRUE}
       /\ feedAnswers' = superseded(back)
  /\ UNCHANGED <<version, feedRows, feedOpen>>

\* The server reads the ledger and answers.
AnswerPoll(newest) ==
  /\ newest \in feedPolls
  /\ feedPolls' = feedPolls \ {newest}
  /\ feedAnswers' = feedAnswers \cup {[newest |-> newest, version |-> version]}
  /\ UNCHANGED <<version, feedRows, feedOpen>>

\* Only the newest ticket may apply, and nothing after the page is left.
mayApply_Any(a)   == feedOpen
mayApply(a) == feedOpen /\ a.newest

ApplyAnswer(a) ==
  /\ a \in feedAnswers
  /\ feedRows' = IF mayApply(a) THEN a.version ELSE feedRows
  /\ feedAnswers' = feedAnswers \ {a}
  /\ UNCHANGED <<version, feedPolls, feedOpen>>

\* A poll that fails, or is refused by the rate limiter, keeps the rows.
PollFails ==
  /\ \/ \E p \in feedPolls : feedPolls' = feedPolls \ {p} /\ UNCHANGED feedAnswers
     \/ \E a \in feedAnswers :
          feedAnswers' = feedAnswers \ {a} /\ UNCHANGED feedPolls
  /\ UNCHANGED <<version, feedRows, feedOpen>>

\* The timer is cleared and the poll under way aborted.
Unmount ==
  /\ feedOpen
  /\ feedOpen' = FALSE
  /\ UNCHANGED <<version, feedRows, feedPolls, feedAnswers>>

answersNewest == \E a \in feedAnswers : a.newest /\ ApplyAnswer(a)

FeedNext ==
  \/ SettlementRecorded
  \/ FeedTick
  \/ \E newest \in BOOLEAN : AnswerPoll(newest)
  \/ \E newest \in BOOLEAN, v \in 0 .. MaxVersion :
       ApplyAnswer([newest |-> newest, version |-> v])
  \/ PollFails
  \/ Unmount

\* The timer runs, and of infinitely many polls some are answered within the
\* interval.  A connection that is always slower than the timer has every
\* poll aborted by the next, and then nothing is promised.
FeedFairness ==
  /\ WF_feedVars(FeedTick)
  /\ SF_feedVars(AnswerPoll(TRUE))
  /\ SF_feedVars(answersNewest)

FeedSpec == FeedInit /\ [][FeedNext]_feedVars /\ FeedFairness

-----------------------------------------------------------------------------
\* Every field has its type; one poll, under way or answered, is the newest.
FeedTypeOK ==
  /\ version \in 0 .. MaxVersion /\ feedRows \in 0 .. version
  /\ feedPolls \subseteq BOOLEAN
  /\ feedAnswers \subseteq [newest : BOOLEAN, version : 0 .. version]
  /\ feedOpen \in BOOLEAN
  /\ \A a, b \in feedAnswers : a.newest /\ b.newest => a = b
  /\ TRUE \in feedPolls => \A a \in feedAnswers : ~a.newest

\* "a stale response can never overwrite a fresher ledger": the rows on the
\* page never go back, in whatever order the answers come.
FeedNeverGoesBack == [][feedRows' >= feedRows]_feedVars

\* "keep the last good ledger" and go on: whatever polls failed, a page that
\* stays open comes to show the ledger as it is.
FeedCatchesUp == []<>(~feedOpen \/ feedRows = version)
=============================================================================
