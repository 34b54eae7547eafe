------------------------------ MODULE DemoSpend ------------------------------
(***************************************************************************)
(* Spending from the server's funded wallet on behalf of anonymous         *)
(* visitors: the daily allowance (apps/web/src/lib/security/spend.ts), the *)
(* agent run that reserves against it (app/api/agent/run/route.ts) and the *)
(* MCP call_tool (app/api/mcp/route.ts).                                   *)
(*                                                                         *)
(* Amounts are integers, one chain and one day are modelled.  A process is *)
(* one lifetime of a server instance; the in-process counter starts at     *)
(* zero with it.  Redis keeps one counter for all of them, and each        *)
(* command on it can fail with or without having been applied.             *)
(***************************************************************************)
EXTENDS Integers, Sequences, Functions

CONSTANTS
  Processes,       \* lifetimes of server instances
  Plans,           \* plans of a run: sequences of tool prices
  Budgets,         \* values resolveSpendBudget returns
  Cap,             \* the day's allowance
  RedisIsReliable, \* TRUE: every command on Redis is answered
  MaxCalls         \* bound: requests made in one behaviour

ASSUME SpendAssumption ==
  /\ Cap \in Nat /\ MaxCalls \in Nat /\ RedisIsReliable \in BOOLEAN
  /\ Budgets \subseteq Nat
  /\ Plans \subseteq Seq(Nat \ {0})

VARIABLES
  redis,    \* the allowance used, as Redis counts it
  local,    \* process -> the allowance used, as the process counts it
  spends,   \* request number -> state of the request
  ended,    \* processes that have ended
  \* No variables of the code:
  granted,  \* what was granted through Redis
  grantedBy, \* process -> what was granted through its own counter
  refused   \* what Redis counts for refused requests that did not give it back

grants    == <<granted, grantedBy, refused>>
spendVars == <<redis, local, spends, ended, grants>>

CallIds == DOMAIN spends

\* asking: about to reserve.  over: Redis refused, about to give back.
\* paying: walking the plan.  done: answered.
SpendStages == {"asking", "over", "paying", "done"}

SpendInit ==
  /\ redis = 0
  /\ local = [p \in Processes |-> 0]
  /\ spends = <<>>
  /\ ended = {}
  /\ granted = 0 /\ grantedBy = [p \in Processes |-> 0] /\ refused = 0

received(p, plan, budget, stage) ==
  [process |-> p, plan |-> plan, budget |-> budget, stage |-> stage,
   reserved |-> "nothing", remaining |-> budget, next |-> 1, moved |-> 0]

arrives(call) ==
  /\ call.process \notin ended
  /\ Len(spends) < MaxCalls
  /\ spends' = Append(spends, call)
  /\ UNCHANGED <<redis, local, ended, grants>>

-----------------------------------------------------------------------------
(***************************************************************************)
(* Requests.                                                               *)
(***************************************************************************)
\* POST /api/agent/run without a session: reserve first, at the maximum.
AskForRun(p, plan, budget) ==
  arrives(received(p, plan, budget, "asking"))

\* POST /api/mcp, call_tool: one tool, clamped by the cap of a run, and no
\* reservation.
CallTool(p, price, budget) ==
  arrives(received(p, <<price>>, budget, "paying"))

-----------------------------------------------------------------------------
(***************************************************************************)
(* reserveSpend.                                                           *)
(***************************************************************************)
overCap(total, asked) == total > Cap

givenBack(total, asked) == asked

enter(i, stage, reserved) ==
  /\ spends[i].process \notin ended
  /\ UNCHANGED ended
  /\ spends' = [spends EXCEPT ![i].stage = stage, ![i].reserved = reserved]

\* The increment is atomic and returns the new total; the test is on that
\* total alone.
ReserveInRedis(i) ==
  LET asked == spends[i].budget
  IN  /\ spends[i].stage = "asking"
      /\ redis' = redis + asked
      /\ IF overCap(redis + asked, asked)
         THEN /\ enter(i, "over", "nothing")
              /\ refused' = refused + asked /\ UNCHANGED granted
         ELSE /\ enter(i, "paying", "redis")
              /\ granted' = granted + asked /\ UNCHANGED refused
      /\ UNCHANGED <<local, grantedBy>>

\* The request is refused whether or not the give-back went through.
GiveBack(i) ==
  /\ spends[i].stage = "over"
  /\ \/ redis' = redis - givenBack(redis, spends[i].budget)
     \/ ~RedisIsReliable /\ UNCHANGED redis
  /\ enter(i, "done", "nothing")
  /\ refused' = refused - spends[i].budget
  /\ UNCHANGED <<local, granted, grantedBy>>

\* No connection, or the increment threw, applied or not: the in-process
\* counter decides.
ReserveLocally(i) ==
  LET asked == spends[i].budget
      used  == local[spends[i].process]
  IN  /\ ~RedisIsReliable
      /\ spends[i].stage = "asking"
      /\ redis' \in {redis, redis + asked}
      /\ IF overCap(used + asked, asked)
         THEN /\ enter(i, "done", "nothing")
              /\ UNCHANGED <<local, grantedBy>>
         ELSE /\ enter(i, "paying", "local")
              /\ local' = [local EXCEPT ![spends[i].process] = @ + asked]
              /\ grantedBy' = [grantedBy EXCEPT ![spends[i].process] = @ + asked]
      /\ UNCHANGED <<granted, refused>>

-----------------------------------------------------------------------------
(***************************************************************************)
(* The paid loop.                                                          *)
(***************************************************************************)
price(c)  == c.plan[c.next]
hasNext(c) == c.next \in DOMAIN c.plan

\* The budget gate of a paid call.
affordable(c) == price(c) <= c.remaining

\* A call succeeded: the price moved, and what remains is charged.
PayCall(i) ==
  LET c == spends[i]
  IN  /\ c.process \notin ended
      /\ c.stage = "paying" /\ hasNext(c) /\ affordable(c)
      /\ spends' = [spends EXCEPT ![i].moved = @ + price(c),
                                  ![i].remaining = @ - price(c),
                                  ![i].next = @ + 1]
      /\ UNCHANGED <<redis, local, ended, grants>>

\* What a run does after a failed call: it stops the moment a call fails.
afterFailure_GoOn(c) == "paying"
afterFailure(c)      == "done"

\* A call was reported as failed: over budget, refused, or paid on chain
\* without a confirmation in time.  Only successes are charged to remaining.
FailCall(i) ==
  LET c == spends[i]
  IN  /\ c.process \notin ended
      /\ c.stage = "paying" /\ hasNext(c)
      /\ \E m \in {0} \cup IF affordable(c) THEN {price(c)} ELSE {} :
           spends' = [spends EXCEPT ![i].moved = @ + m, ![i].next = @ + 1,
                                    ![i].stage = afterFailure(c)]
      /\ UNCHANGED <<redis, local, ended, grants>>

Finish(i) ==
  /\ spends[i].stage = "paying" /\ ~hasNext(spends[i])
  /\ enter(i, "done", spends[i].reserved)
  /\ UNCHANGED <<redis, local, grants>>

\* The process ends; its requests end where they are.
Die(p) ==
  /\ \E i \in CallIds : spends[i].process = p /\ spends[i].stage # "done"
  /\ p \notin ended
  /\ ended' = ended \cup {p}
  /\ UNCHANGED <<redis, local, spends, grants>>

SpendNext ==
  \/ \E p \in Processes, plan \in Plans, budget \in Budgets :
       AskForRun(p, plan, budget)
  \/ \E p \in Processes, plan \in Plans, budget \in Budgets :
       \E cost \in Range(plan) : CallTool(p, cost, budget)
  \/ \E i \in CallIds : ReserveInRedis(i)
  \/ \E i \in CallIds : GiveBack(i)
  \/ \E i \in CallIds : ReserveLocally(i)
  \/ \E i \in CallIds : PayCall(i)
  \/ \E i \in CallIds : FailCall(i)
  \/ \E i \in CallIds : Finish(i)
  \/ \E p \in Processes : Die(p)

SpendSpec == SpendInit /\ [][SpendNext]_spendVars

-----------------------------------------------------------------------------
(***************************************************************************)
(* Properties.                                                             *)
(***************************************************************************)
\* Every field has its type; no counter goes below zero.
SpendTypeOK ==
  /\ {redis, granted, refused} \subseteq Nat
  /\ {local, grantedBy} \subseteq [Processes -> Nat]
  /\ ended \subseteq Processes
  /\ spends \in Seq([process : Processes, plan : Seq(Nat \ {0}), budget : Nat,
                     stage : SpendStages, reserved : {"nothing", "redis", "local"},
                     remaining : Nat, next : Nat \ {0}, moved : Nat])

\* A request never moves more than its budget, also when a payment it was told
\* had failed went through.
RunStaysInBudget == \A i \in CallIds : spends[i].moved <= spends[i].budget

\* "the cap holds across instances and restarts", and without Redis "degrades
\* to per-process, which is weaker but still bounded": whatever is granted
\* through one counter stays within the cap, however requests interleave and
\* whichever commands are lost.
GrantsWithinCap ==
  /\ granted <= Cap
  /\ \A p \in Processes : grantedBy[p] <= Cap

\* Giving back never returns what somebody was granted: Redis counts at least
\* everything granted through it and everything refused and not given back.
AllowanceNotReturnedTwice == redis >= granted + refused

\* Runs, counters and the day's cap agree, whichever commands are lost.
SpendInv ==
  SpendTypeOK /\ RunStaysInBudget /\ GrantsWithinCap /\ AllowanceNotReturnedTwice
=============================================================================
