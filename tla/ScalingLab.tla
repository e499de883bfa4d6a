----------------------------- MODULE ScalingLab ------------------------------
(***************************************************************************)
(* labs/scaling-lab/app/main.py: one worker process, that is one event     *)
(* loop, a pool of threads and a pool of database connections.  A step of  *)
(* the loop needs the loop; what threads and the database do does not.     *)
(* The middleware suspends in call_next, so entering it, the handler and   *)
(* leaving it are steps of their own.                                      *)
(***************************************************************************)
EXTENDS Integers, FiniteSets

CONSTANTS
  Request,    \* connections, each with one request at a time
  DB_POOL_SIZE, THREADS,
  MEMORY      \* calls of /leak until the kernel kills the process

VARIABLES
  at,         \* where each request is
  kind,       \* and which endpoint it is for
  in_flight, pool_in_use,   \* the gauges
  leaked

labVars == <<at, kind, in_flight, pool_in_use, leaked>>

Kind == {"health", "metrics", "block", "sleep", "thread", "query", "leak"}
Outside == {"idle", "socket"}
Those(s) == {r \in Request : at[r] = s}

Init ==
  /\ at = [r \in Request |-> "idle"] /\ kind = [r \in Request |-> "health"]
  /\ in_flight = 0 /\ pool_in_use = 0 /\ leaked = 0

Goto(r, s) == at' = [at EXCEPT ![r] = s]
Move(r, from, to) == at[r] = from /\ Goto(r, to) /\ UNCHANGED <<kind, in_flight, pool_in_use, leaked>>

\* time.sleep, or a loop of hashes, inside an async def
HoldsLoopInQuery(r) == at[r] \in {"blocking", "querying"}  \* mutant: a synchronous driver
HoldsLoop(r) == at[r] = "blocking"
LoopFree == ~\E r \in Request : HoldsLoop(r)

Connect(r, k) ==
  /\ at[r] = "idle"
  /\ kind' = [kind EXCEPT ![r] = k]
  /\ Goto(r, "socket")
  /\ UNCHANGED <<in_flight, pool_in_use, leaked>>

\* record_metrics up to call_next; /metrics does not count itself.
Enter(r) ==
  /\ LoopFree /\ at[r] = "socket"
  /\ in_flight' = IF kind[r] = "metrics" THEN in_flight ELSE in_flight + 1
  /\ Goto(r, "entered")
  /\ UNCHANGED <<kind, pool_in_use, leaked>>

Starts(r, k) == LoopFree /\ at[r] = "entered" /\ kind[r] = k

Health(r) == Starts(r, "health") /\ Move(r, "entered", "leaving")
Metrics(r) ==
  /\ Starts(r, "metrics")
  /\ pool_in_use' = Cardinality(Those("querying"))
  /\ Goto(r, "leaving")
  /\ UNCHANGED <<kind, in_flight, leaked>>
Leak(r) ==
  /\ Starts(r, "leak") /\ leaked < MEMORY
  /\ leaked' = leaked + 1
  /\ Goto(r, "leaving")
  /\ UNCHANGED <<kind, in_flight, pool_in_use>>

Block(r) == Starts(r, "block") /\ Move(r, "entered", "blocking")
Unblock(r) == Move(r, "blocking", "leaving")

Sleep(r) == Starts(r, "sleep") /\ Move(r, "entered", "sleeping")
Wake(r) == LoopFree /\ Move(r, "sleeping", "leaving")

Submit(r) == Starts(r, "thread") /\ Move(r, "entered", "submitted")
RunThread(r) == Cardinality(Those("threaded")) < THREADS /\ Move(r, "submitted", "threaded")
ThreadDone(r) == Move(r, "threaded", "leaving")

\* db_fetch of /items, /search and /bulk
Query(r) == Starts(r, "query") /\ Move(r, "entered", "acquiring")
Acquire(r) ==
  /\ LoopFree /\ Cardinality(Those("querying")) < DB_POOL_SIZE
  /\ Move(r, "acquiring", "querying")
Fetched(r) == LoopFree /\ Move(r, "querying", "leaving")

\* The database fails, or the client goes away: the exception passes through
\* "async with", which returns the connection, and the middleware's finally.
Raise(r) ==
  /\ LoopFree
  /\ Move(r, "sleeping", "raising") \/ Move(r, "acquiring", "raising") \/ Move(r, "querying", "raising")

\* The rest of record_metrics; the kind of no request is not told apart.
Close(r) == Goto(r, "idle") /\ kind' = [kind EXCEPT ![r] = "health"]
LeaveAfterReturn(r) ==   \* mutant: dec() after the try instead of in finally
  /\ LoopFree /\ at[r] \in {"leaving", "raising"}
  /\ in_flight' = IF kind[r] = "metrics" \/ at[r] = "raising" THEN in_flight ELSE in_flight - 1
  /\ Close(r)
  /\ UNCHANGED <<pool_in_use, leaked>>
Leave(r) ==
  /\ LoopFree /\ at[r] \in {"leaving", "raising"}
  /\ in_flight' = IF kind[r] = "metrics" THEN in_flight ELSE in_flight - 1
  /\ Close(r)
  /\ UNCHANGED <<pool_in_use, leaked>>

\* Out of memory: the process is killed and starts again.
Kill ==
  /\ leaked = MEMORY
  /\ leaked' = 0 /\ in_flight' = 0 /\ pool_in_use' = 0
  /\ at' = [r \in Request |-> "idle"] /\ kind' = [r \in Request |-> "health"]

\* What the loop does when it comes to it, and what ends by itself.
LoopStep(r) == Enter(r) \/ Health(r) \/ Metrics(r) \/ Leave(r)
Handler(r) ==
  \/ Leak(r) \/ Block(r) \/ Sleep(r) \/ Wake(r) \/ Submit(r) \/ RunThread(r) \/ ThreadDone(r)
  \/ Query(r) \/ Acquire(r) \/ Fetched(r) \/ Raise(r)

Next ==
  \/ \E r \in Request : LoopStep(r) \/ Unblock(r) \/ Handler(r) \/ \E k \in Kind : Connect(r, k)
  \/ Kill

-----------------------------------------------------------------------------
\* Whatever returns, raises, is cancelled or killed: the in-flight gauge is
\* the number of requests inside, and no more connections than the pool has
\* are out, also by the gauge.
GaugesTrue ==
  /\ in_flight = Cardinality({r \in Request : at[r] \notin Outside /\ kind[r] # "metrics"})
  /\ Cardinality(Those("querying")) <= DB_POOL_SIZE /\ pool_in_use <= DB_POOL_SIZE

\* /health is answered though threads, queries and the pool hang for good: it
\* needs the loop only, and a handler that blocks that is done some time.  (Or the
\* process is killed, and nobody waits any more.)
HealthAnswered ==
  \A r \in Request : (at[r] = "socket" /\ kind[r] = "health") ~> at[r] = "idle"
=============================================================================
