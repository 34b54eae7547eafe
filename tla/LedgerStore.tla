------------------------------ MODULE LedgerStore ------------------------------
(***************************************************************************)
(* The settlement ledger (lib/store/ledger.ts) over the shared Redis       *)
(* connection (lib/store/redis.ts), with the calls that write it           *)
(* (recordPaidCall) and the dashboard that reads it.                       *)
(*                                                                         *)
(* Several server processes append to two lists in Redis, one for real and *)
(* one for mock settlements, each pushed and then trimmed to its cap, and  *)
(* mirror what they append in their own memory, from which they serve when *)
(* Redis does not answer.  A command that throws may have been applied.    *)
(***************************************************************************)
EXTENDS Integers, SequencesExt

CONSTANTS
  Instances,     \* server processes
  RealRows,      \* settlements on chain
  MockRows,      \* settlements of the offline demo
  SettledRows,   \* those with status settled
  CapReal, CapMock

ASSUME LedgerAssumption ==
  /\ Instances # {}
  /\ RealRows \cap MockRows = {}
  /\ SettledRows \subseteq RealRows \cup MockRows
  /\ {CapReal, CapMock} \subseteq Nat \ {0}

Rows  == RealRows \cup MockRows
Lanes == {"real", "mock"}
CAPS  == [lane \in Lanes |-> IF lane = "real" THEN CapReal ELSE CapMock]

laneOf_One(s) == "real"
laneOf(s)     == IF s \in RealRows THEN "real" ELSE "mock"

VARIABLES
  memory,     \* instance -> lane -> rows appended here, newest first
  redis,      \* lane -> list in Redis, newest first
  reachable,  \* whether Redis can be connected to
  client,     \* instance -> "none" or "live"
  append,     \* row -> where appendSettlement is with it
  writer,     \* row -> instance that appends it
  reading,    \* where the request for the dashboard is, and in which instance
  pushed      \* lane -> every row Redis took since the last clear (history)

ledgerVars == <<memory, redis, reachable, client, append, writer, reading,
                pushed>>
storeVars  == <<redis, pushed>>
jobVars    == <<append, writer, reading>>

idle == [at |-> "idle", by |-> CHOOSE i \in Instances : TRUE]

LedgerInit ==
  /\ memory = [i \in Instances |-> [lane \in Lanes |-> <<>>]]
  /\ redis = [lane \in Lanes |-> <<>>]
  /\ reachable = TRUE
  /\ client = [i \in Instances |-> "none"]
  /\ append = [s \in Rows |-> "new"]
  /\ writer = [s \in Rows |-> CHOOSE i \in Instances : TRUE]
  /\ reading = idle
  /\ pushed = [lane \in Lanes |-> <<>>]

capped(rows, n) == SubSeq(rows, 1, IF Len(rows) < n THEN Len(rows) ELSE n)

-----------------------------------------------------------------------------
(***************************************************************************)
(* getRedis: one attempt per process is shared by all who wait for it.     *)
(***************************************************************************)
waiting(i) ==
  \/ reading = [at |-> "connect", by |-> i]
  \/ \E s \in Rows : writer[s] = i /\ append[s] = "connect"

\* The callers of process i go on: with the client, or with null.
resumed(i, ok) ==
  /\ append' = [s \in Rows |->
       IF writer[s] = i /\ append[s] = "connect"
       THEN IF ok THEN "push" ELSE "done" ELSE append[s]]
  /\ reading' = IF reading = [at |-> "connect", by |-> i]
                 THEN [reading EXCEPT !.at = IF ok THEN "read" ELSE "fallback"]
                 ELSE reading

afterConnect_Cached(ok) == IF ok THEN "live" ELSE "failed"
afterConnect(ok)        == IF ok THEN "live" ELSE "none"

\* An attempt ends, which began when the first of them asked.
Connect(i) ==
  \E ok \in BOOLEAN :
    /\ waiting(i) /\ client[i] = "none"
    /\ reachable => ok
    /\ client' = [client EXCEPT ![i] = afterConnect(ok)]
    /\ resumed(i, ok)
    /\ UNCHANGED <<memory, storeVars, reachable, writer>>

\* A cached result is used without connecting.
UseClient(i) ==
  /\ waiting(i) /\ client[i] # "none"
  /\ resumed(i, client[i] = "live")
  /\ UNCHANGED <<memory, storeVars, reachable, client, writer>>

-----------------------------------------------------------------------------
(***************************************************************************)
(* appendSettlement.                                                       *)
(***************************************************************************)
\* A call is recorded: into memory at once, capped, before anything is
\* awaited.
RecordSettlement(i, s) ==
  LET lane == laneOf(s)
  IN  /\ append[s] = "new"
      /\ append' = [append EXCEPT ![s] = "connect"]
      /\ writer' = [writer EXCEPT ![s] = i]
      /\ memory' = [memory EXCEPT ![i][lane] = capped(<<s>> \o @, CAPS[lane])]
      /\ UNCHANGED <<storeVars, reachable, client, reading>>

pushTo(lane, s) ==
  /\ redis' = [redis EXCEPT ![lane] = <<s>> \o @]
  /\ pushed' = [pushed EXCEPT ![lane] = <<s>> \o @]

\* lPush; when it throws, the trim is skipped and the warning is all.
Push(s) ==
  /\ append[s] = "push"
  /\ \/ pushTo(laneOf(s), s) /\ append' = [append EXCEPT ![s] = "trim"]
     \/ pushTo(laneOf(s), s) /\ append' = [append EXCEPT ![s] = "done"]
     \/ UNCHANGED storeVars  /\ append' = [append EXCEPT ![s] = "done"]
  /\ UNCHANGED <<memory, reachable, client, writer, reading>>

kept(lane) == CAPS[lane]

\* lTrim, applied or not.
Trim(s) ==
  LET lane == laneOf(s)
  IN  /\ append[s] = "trim"
      /\ append' = [append EXCEPT ![s] = "done"]
      /\ \/ redis' = [redis EXCEPT ![lane] = capped(@, kept(lane))]
         \/ UNCHANGED redis
      /\ UNCHANGED <<memory, reachable, client, writer, reading, pushed>>

-----------------------------------------------------------------------------
(***************************************************************************)
(* The dashboard: readRealSettlements, with the fallback of readLane.      *)
(***************************************************************************)
OpenDashboard(i) ==
  /\ reading.at = "idle"
  /\ reading' = [at |-> "connect", by |-> i]
  /\ UNCHANGED <<memory, storeVars, reachable, client, append, writer>>

\* The rows that are shown, each at its place in the list.
settled(rows) == [n \in {n \in DOMAIN rows : rows[n] \in SettledRows} |-> rows[n]]

\* An empty list is taken for no answer.
readLane(i, lane) == IF redis[lane] # <<>> THEN redis[lane] ELSE memory[i][lane]

\* What a dashboard at process i may be given now: the command can throw, and
\* the client can be null.
readRealSettlements(i) ==
  {settled(readLane(i, "real")), settled(memory[i]["real"])}

ReadDashboard ==
  /\ reading.at \in {"read", "fallback"}
  /\ reading' = idle
  /\ UNCHANGED <<memory, storeVars, reachable, client, append, writer>>

-----------------------------------------------------------------------------
(***************************************************************************)
(* Operations, crashes and the network.                                    *)
(***************************************************************************)
\* clearLedger on one process: its memory, and the lists when it is connected.
Clear(i) ==
  /\ memory' = [memory EXCEPT ![i] = [lane \in Lanes |-> <<>>]]
  /\ IF client[i] = "live"
     THEN /\ redis' = [lane \in Lanes |-> <<>>]
          /\ pushed' = [lane \in Lanes |-> <<>>]
     ELSE UNCHANGED storeVars
  /\ UNCHANGED <<reachable, client, jobVars>>

\* A deploy: memory, connection and what was under way are gone.
RestartInstance(i) ==
  /\ memory' = [memory EXCEPT ![i] = [lane \in Lanes |-> <<>>]]
  /\ client' = [client EXCEPT ![i] = "none"]
  /\ append' = [s \in Rows |->
       IF writer[s] = i /\ append[s] # "new" THEN "done" ELSE append[s]]
  /\ reading' = IF reading.by = i THEN idle ELSE reading
  /\ UNCHANGED <<storeVars, reachable, writer>>

Outage ==
  /\ reachable' = ~ reachable
  /\ UNCHANGED <<memory, storeVars, client, jobVars>>

connectionStep(i) == Connect(i) \/ UseClient(i)

LedgerNext ==
  \/ \E i \in Instances : connectionStep(i)
  \/ \E i \in Instances, s \in Rows : RecordSettlement(i, s)
  \/ \E s \in Rows : Push(s)
  \/ \E s \in Rows : Trim(s)
  \/ \E i \in Instances : OpenDashboard(i)
  \/ ReadDashboard
  \/ \E i \in Instances : Clear(i)
  \/ \E i \in Instances : RestartInstance(i)
  \/ Outage

\* Connection attempts and reads end, one way or the other.
LedgerFairness ==
  /\ \A i \in Instances : WF_ledgerVars(connectionStep(i))
  /\ WF_ledgerVars(ReadDashboard)

LedgerSpec == LedgerInit /\ [][LedgerNext]_ledgerVars /\ LedgerFairness

-----------------------------------------------------------------------------
(***************************************************************************)
(* Properties.                                                             *)
(***************************************************************************)
\* Every field has its type; a process keeps no more rows than a lane's cap.
LedgerTypeOK ==
  /\ \A i \in Instances, lane \in Lanes :
       /\ memory[i][lane] \in Seq(Rows)
       /\ Len(memory[i][lane]) <= CAPS[lane]
  /\ \A lane \in Lanes : redis[lane] \in Seq(Rows)
  /\ reachable \in BOOLEAN
  /\ client \in [Instances -> {"none", "live"}]
  /\ append \in [Rows -> {"new", "connect", "push", "trim", "done"}]
  /\ writer \in [Rows -> Instances]
  /\ reading \in [at : {"idle", "connect", "read", "fallback"}, by : Instances]

\* "a flood of free mock calls can never evict real on-chain records": however
\* pushes and trims of several processes interleave, throw, or are cut off, a
\* lane holds the newest rows it was given, in order, as many as its cap at
\* least, and no others.
LanesKeepNewest ==
  \A lane \in Lanes :
    /\ IsPrefix(redis[lane], pushed[lane])
    /\ Len(redis[lane]) >= CAPS[lane] \/ redis[lane] = pushed[lane]
    /\ ToSet(redis[lane]) \subseteq {s \in Rows : (s \in RealRows) = (lane = "real")}

\* The dashboard shows settlements that happened on chain, each of them once:
\* rows that were recorded, settled, real, wherever they were read from.
DashboardIsHonest ==
  \A i \in Instances : \A rows \in readRealSettlements(i) :
    /\ IsInjective(rows)
    /\ Range(rows) \subseteq {s \in RealRows \cap SettledRows : append[s] # "new"}

\* "so the app self-heals once Redis is reachable again": from some point on
\* no dashboard is served from a process's memory for want of a connection,
\* whatever attempts failed before.
SelfHeals == <>[]reachable => <>[](reading.at # "fallback")

\* Lanes and views hold what was recorded, in order, once, each in its lane.
LedgerInv == LedgerTypeOK /\ LanesKeepNewest /\ DashboardIsHonest
=============================================================================
