------------------------------ MODULE AgentPage ------------------------------
(***************************************************************************)
(* The live demo on the website: a visitor presses a button                *)
(* (app/agent/page.tsx), the server plans a task and pays for one tool     *)
(* after another (app/api/agent/run/route.ts over executePaidCall in       *)
(* lib/x402/loop.ts), and the page replays the trace it is answered.       *)
(*                                                                         *)
(* The answer comes once, at the end: what a run has paid for is on the    *)
(* books before the visitor sees any of it, and a run that breaks off is   *)
(* shown as an error.  The daily allowance is in DemoSpend, how a payment  *)
(* is made in Facilitator, CasperPayment and AlgorandPayment.              *)
(***************************************************************************)
EXTENDS Integers, SequencesExt

CONSTANTS
  LiveTools,    \* the tools a plan can use, in the order of planTask
  ToolPrice,    \* tool -> its price
  Granted,      \* budgets resolveSpendBudget can grant
  MaxTasks      \* bound: runs asked for

ASSUME TaskAssumption ==
  /\ LiveTools \in Seq(ToSet(LiveTools)) /\ IsInjective(LiveTools)
  /\ ToolPrice \in [ToSet(LiveTools) -> Nat \ {0}]
  /\ Granted \subseteq Nat /\ MaxTasks \in Nat

VARIABLES
  tasks,   \* runs asked for so far
  run,     \* server: the run under way or answered
  moved,   \* <<task, tool>> paid for
  charged, \* what the agent's wallet has paid in the run (no variable of the code)
  booked,  \* <<task, tool>> with a row in the ledger
  page     \* what the visitor sees

taskVars == <<tasks, run, moved, charged, booked, page>>

\* A step of the answer; left is what the server had left after it (the code
\* sends only what is left after the last one).
Step == [tool : ToSet(LiveTools), ok : BOOLEAN, left : Nat]

\* i is the loop's place in LiveTools, announced the steps the page shows.
noRun  == [at |-> "none", plan |-> {}, i |-> 1, budget |-> 0, remaining |-> 0,
           spent |-> 0, steps |-> <<>>]
noPage == [at |-> "idle", announced |-> 0, settled |-> 0, meter |-> 0]

TaskInit ==
  /\ tasks = 0 /\ run = noRun
  /\ moved = {} /\ booked = {} /\ charged = 0
  /\ page = noPage

-----------------------------------------------------------------------------
(***************************************************************************)
(* The server.                                                             *)
(***************************************************************************)
\* planTask: the listed tools that the task's words call for, or all of them.
planTask(listed, called) ==
  IF listed \cap called = {} THEN listed ELSE listed \cap called

Plan(listed, called, budget) ==
  /\ run.at = "asked"
  /\ run' = [noRun EXCEPT !.at = "calling", !.plan = planTask(listed, called),
                          !.budget = budget, !.remaining = budget]
  /\ UNCHANGED <<tasks, moved, charged, booked, page>>

\* No session, too many requests, or the day's allowance is spent.
RefuseRun ==
  /\ run.at = "asked"
  /\ run' = [run EXCEPT !.at = "error"]
  /\ UNCHANGED <<tasks, moved, charged, booked, page>>

hasNext   == run.i <= Len(LiveTools)
next      == LiveTools[run.i]
callsNext == run.at = "calling" /\ hasNext /\ next \in run.plan

\* A tool that is not in the plan.
SkipTool ==
  /\ run.at = "calling" /\ hasNext /\ next \notin run.plan
  /\ run' = [run EXCEPT !.i = @ + 1]
  /\ UNCHANGED <<tasks, moved, charged, booked, page>>

\* The budget of the run gates each call.
affordsCall(tool) == ToolPrice[tool] <= run.remaining

takes(ok, left) == Append(run.steps, [tool |-> next, ok |-> ok, left |-> left])

\* executePaidCall up to settlement.
PayForTool ==
  /\ callsNext /\ affordsCall(next)
  /\ moved' = moved \cup {<<tasks, next>>}
  /\ charged' = charged + ToolPrice[next]
  /\ run' = [run EXCEPT !.at = "paid"]
  /\ UNCHANGED <<tasks, booked, page>>

\* "The agent stops the moment it can't pay (or a call fails)": over the
\* budget, or the payment is not verified or not settled.
CallRefused ==
  /\ callsNext
  /\ run' = [run EXCEPT !.at = "answering",
                        !.steps = takes(FALSE, run.remaining)]
  /\ UNCHANGED <<tasks, moved, charged, booked, page>>

remainingAfter_Asked(tool) == run.budget - ToolPrice[tool]
remainingAfter(tool)       == run.remaining - ToolPrice[tool]

\* The tool runs, then the row is written.
RecordCall ==
  /\ run.at = "paid"
  /\ booked' = booked \cup {<<tasks, next>>}
  /\ run' = [run EXCEPT !.at = "calling", !.i = @ + 1,
                        !.steps = takes(TRUE, remainingAfter(next)),
                        !.remaining = remainingAfter(next),
                        !.spent = @ + ToolPrice[next]]
  /\ UNCHANGED <<tasks, moved, charged, page>>

\* The tool throws after it was paid for: the route fails with no answer of
\* its own, and this call has no row.
ToolThrows ==
  /\ run.at = "paid"
  /\ run' = [run EXCEPT !.at = "error"]
  /\ UNCHANGED <<tasks, moved, charged, booked, page>>

AnswerRun ==
  /\ run.at = "answering" \/ (run.at = "calling" /\ ~hasNext)
  /\ run' = [run EXCEPT !.at = "answered"]
  /\ UNCHANGED <<tasks, moved, charged, booked, page>>

\* The process ends, or the answer does not get through; a connection that
\* drops while the server goes on is noticed here when it is done.
RunLost ==
  /\ run.at \in {"asked", "calling", "paid", "answering", "answered"}
  /\ page.at = "waiting"
  /\ run' = [run EXCEPT !.at = "error"]
  /\ UNCHANGED <<tasks, moved, charged, booked, page>>

-----------------------------------------------------------------------------
(***************************************************************************)
(* The page.                                                               *)
(***************************************************************************)
\* The button is disabled while a run is shown running.
ClickRun ==
  /\ page.at \in {"idle", "done"} /\ tasks < MaxTasks
  /\ tasks' = tasks + 1
  /\ run' = [noRun EXCEPT !.at = "asked"]
  /\ charged' = 0
  /\ page' = [noPage EXCEPT !.at = "waiting"]
  /\ UNCHANGED <<moved, booked>>

afterError == "idle"

ShowError ==
  /\ page.at = "waiting" /\ run.at = "error"
  /\ page' = [page EXCEPT !.at = afterError]
  /\ UNCHANGED <<tasks, run, moved, charged, booked>>

\* "Render the budget it reports back, not the value we asked for."
ReadRun ==
  /\ page.at = "waiting" /\ run.at = "answered"
  /\ page' = [page EXCEPT !.at = "replaying", !.meter = run.budget]
  /\ UNCHANGED <<tasks, run, moved, charged, booked>>

\* A step is announced and its wire steps are streamed.
replays == page.at = "replaying"
onShow  == run.steps[page.announced]
failed  == page.announced > 0 /\ ~onShow.ok

Announce ==
  /\ replays /\ page.settled = page.announced /\ ~failed
  /\ page.announced < Len(run.steps)
  /\ page' = [page EXCEPT !.announced = @ + 1]
  /\ UNCHANGED <<tasks, run, moved, charged, booked>>

\* The receipt lands and the meter ticks down, for a call that succeeded.
ticks(step) == IF step.ok THEN ToolPrice[step.tool] ELSE 0

Land ==
  /\ replays /\ page.settled < page.announced
  /\ page' = [page EXCEPT !.settled = @ + 1, !.meter = @ - ticks(onShow)]
  /\ UNCHANGED <<tasks, run, moved, charged, booked>>

ShowTotals ==
  /\ replays /\ page.settled = page.announced
  /\ failed \/ page.announced = Len(run.steps)
  /\ page' = [page EXCEPT !.at = "done"]
  /\ UNCHANGED <<tasks, run, moved, charged, booked>>

\* The visitor leaves, in the middle of the replay or while waiting.
LeavePage ==
  /\ page.at # "left"
  /\ page' = [page EXCEPT !.at = "left"]
  /\ UNCHANGED <<tasks, run, moved, charged, booked>>

serverGoesOn ==
  \/ \E listed, called \in SUBSET ToSet(LiveTools), budget \in Granted :
       Plan(listed, called, budget)
  \/ RefuseRun
  \/ SkipTool
  \/ PayForTool
  \/ CallRefused
  \/ RecordCall
  \/ ToolThrows
  \/ AnswerRun
  \/ RunLost
pageGoesOn == ShowError \/ ReadRun \/ Announce \/ Land \/ ShowTotals

TaskNext ==
  \/ serverGoesOn
  \/ pageGoesOn
  \/ ClickRun
  \/ LeavePage

TaskFairness == WF_taskVars(serverGoesOn) /\ WF_taskVars(pageGoesOn)

TaskSpec == TaskInit /\ [][TaskNext]_taskVars /\ TaskFairness

-----------------------------------------------------------------------------
\* Every field has its type; a page replays what was answered, one step behind
\* at most.
TaskTypeOK ==
  /\ tasks \in 0 .. MaxTasks /\ charged \in Nat
  /\ moved \subseteq (1 .. MaxTasks) \X ToSet(LiveTools) /\ booked \subseteq moved
  /\ run \in [at : {"none", "asked", "calling", "paid", "answering", "answered",
                    "error"},
              plan : SUBSET ToSet(LiveTools), i : 1 .. Len(LiveTools) + 1,
              budget : Nat, remaining : Nat, spent : Nat, steps : Seq(Step)]
  /\ page \in [at : {"idle", "waiting", "replaying", "done", "left"},
               announced : 0 .. Len(run.steps), settled : Nat, meter : Nat]
  /\ page.settled \in {page.announced - 1, page.announced}

\* What a run pays is within the budget it was granted, also when it breaks
\* off; what it reports as spent is what its rows add up to, what it reports
\* as left is the rest of the budget, and once it answers nothing was paid
\* that it does not report, with a row for each step that succeeded.
RunWithinBudget ==
  run.at \notin {"none", "asked"} =>
    /\ charged <= run.budget
    /\ run.spent + run.remaining = run.budget
    /\ run.at \in {"answering", "answered"} =>
         /\ charged = run.spent
         /\ \A t \in ToSet(LiveTools) :
              <<tasks, t>> \in booked
                <=> \E k \in DOMAIN run.steps : run.steps[k].ok /\ run.steps[k].tool = t

\* What the server had left after the first k steps of its answer.
leftAfter(k) == IF k = 0 THEN run.budget ELSE run.steps[k].left

\* The page's meter is the server's account, at every moment of the replay:
\* what the server had left when it was as far, with a row for each step that
\* has landed, and at the end what the server reports as left.
MeterIsTheAccount ==
  /\ page.at \in {"replaying", "done"} =>
       /\ page.meter = leftAfter(page.settled)
       /\ \A k \in 1 .. page.settled :
            run.steps[k].ok => <<tasks, run.steps[k].tool>> \in booked
  /\ page.at = "done" => page.meter = run.remaining

\* Every run that is waited for comes to an end on the page: the button works
\* again, or the visitor left.
RunEndsOnPage ==
  page.at \in {"waiting", "replaying"} ~> page.at \in {"idle", "done", "left"}

\* Run and page keep one account of the budget.
TaskInv == TaskTypeOK /\ RunWithinBudget /\ MeterIsTheAccount
=============================================================================
