--------------------------- MODULE CircuitBreaker ----------------------------
(***************************************************************************)
(* design_patterns.py, 14: CircuitBreaker.call.  Callers are coroutines    *)
(* that suspend while fn runs, so several are inside the breaker at once.  *)
(* What is sent while the service is down raises, or hangs until it is up  *)
(* again and then raises or returns; what was sent before may still return *)
(* during the outage.  A caller that gives up cancels its call, which      *)
(* "except Exception" does not see.                                        *)
(***************************************************************************)
EXTENDS Integers, FiniteSets

CONSTANTS
  Caller,
  MAX_FAILURES, RESET_AFTER,  \* the latter in ticks
  MaxFaults                   \* bound: outages and cancelled calls

VARIABLES
  failures,
  opened_at,  \* ticks since then, Closed for None
  running,    \* who awaits fn, sent while the service was up ("fine"), before its
              \* last recovery ("late"), in this outage since the breaker last
              \* opened ("wasted") or before it did ("spent")
  up, faults,
  wasted,     \* history: calls sent to the service during this outage since
              \* the breaker last opened;
  cancelled,  \* those of them that were cancelled;
  early       \* and calls that returned since then, all sent before the outage

vars == <<failures, opened_at, running, up, faults, wasted, cancelled, early>>
history == <<wasted, cancelled, early>>

Closed == -1

Init ==
  /\ failures = 0 /\ opened_at = Closed
  /\ running = [c \in Caller |-> "no"]
  /\ up = TRUE /\ faults = 0
  /\ wasted = 0 /\ cancelled = 0 /\ early = 0

\* With the breaker open a call raises CircuitOpenError and changes nothing.
Call(c) ==
  /\ running[c] = "no"
  /\ opened_at = Closed \/ opened_at >= RESET_AFTER
  /\ opened_at' = Closed
  /\ running' = [running EXCEPT ![c] = IF up THEN "fine" ELSE "wasted"]
  /\ wasted' = IF up THEN wasted ELSE wasted + 1
  /\ UNCHANGED <<failures, up, faults, cancelled, early>>

\* Beyond MAX_FAILURES + 1 the counts are not told apart.
OneMore == IF failures > MAX_FAILURES THEN failures ELSE failures + 1

TripsExactly(n) == n = MAX_FAILURES  \* mutant: == for >=
Trips(n) == n >= MAX_FAILURES

\* An outage, or the breaker's closed spell in one, begins a new count.
Forget == wasted' = 0 /\ cancelled' = 0 /\ early' = 0

Fails(c) ==
  /\ running[c] # "no" /\ (~up \/ running[c] = "late")
  /\ failures' = OneMore
  /\ \/ /\ Trips(OneMore)
        /\ opened_at' = 0
        /\ Forget
        /\ running' = [d \in Caller |-> IF d = c THEN "no"
                                        ELSE IF running[d] = "wasted" THEN "spent" ELSE running[d]]
     \/ /\ ~Trips(OneMore)
        /\ running' = [running EXCEPT ![c] = "no"]
        /\ UNCHANGED <<opened_at, history>>
  /\ UNCHANGED <<up, faults>>

\* Only what was sent while the service was up, or has seen it recover, returns.
Returns(c) ==
  /\ running[c] \in {"fine", "late"}
  /\ running' = [running EXCEPT ![c] = "no"]
  /\ early' = IF up THEN early ELSE early + 1
  /\ UNCHANGED <<opened_at, up, faults, wasted, cancelled>>

\* A success does not touch opened_at, which a late failure may have set.
SucceedsKeeping(c) == Returns(c) /\ UNCHANGED failures   \* mutant: failures = 0 forgotten
Succeeds(c) == Returns(c) /\ failures' = 0

\* A cancelled call was sent and is no failure.
Cancel(c) ==
  /\ running[c] # "no" /\ faults < MaxFaults
  /\ faults' = faults + 1
  /\ running' = [running EXCEPT ![c] = "no"]
  /\ cancelled' = IF running[c] = "wasted" THEN cancelled + 1 ELSE cancelled
  /\ UNCHANGED <<failures, opened_at, up, wasted, early>>

Outage ==
  /\ up /\ faults < MaxFaults
  /\ up' = FALSE /\ faults' = faults + 1
  /\ UNCHANGED <<failures, opened_at, running, history>>
Recover ==
  /\ ~up
  /\ up' = TRUE /\ Forget
  /\ running' = [c \in Caller |-> IF running[c] = "no" THEN "no" ELSE "late"]
  /\ UNCHANGED <<failures, opened_at, faults>>

Tick ==
  /\ opened_at \in 0 .. RESET_AFTER - 1
  /\ opened_at' = opened_at + 1
  /\ UNCHANGED <<failures, running, up, faults, history>>

Next ==
  \/ \E c \in Caller : Call(c) \/ Fails(c) \/ Succeeds(c) \/ Cancel(c)
  \/ Outage \/ Recover \/ Tick

-----------------------------------------------------------------------------
\* However callers overlap, a service that is down gets MAX_FAILURES - 1 calls
\* and what is in flight besides before the breaker opens, and after each
\* RESET_AFTER no more than that again.  Two things add to that: a cancelled
\* call was sent and not counted, so callers that give up on a service that
\* hangs never open the breaker; and a call from before the outage that returns
\* during it makes the breaker forget the failures it has counted.
WastedCallsBounded ==
  wasted <= (MAX_FAILURES - 1) * (1 + early) + Cardinality(Caller) + cancelled

\* When the service is up for good, the breaker closes for good and forgets.
RecoversAfterOutage == <>[]up => <>[](opened_at = Closed /\ failures = 0)
=============================================================================
