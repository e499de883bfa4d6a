--------------------------- MODULE DesignPatterns ----------------------------
(***************************************************************************)
(* The small components for TLC, side by side: each has its own variables  *)
(* and shares none, so a behaviour is one of the component chosen at first *)
(* while the others stay as they are.                                      *)
(***************************************************************************)
EXTENDS Integers, FiniteSets

CONSTANTS
  Caller, MAX_FAILURES, RESET_AFTER, MaxFaults,
  Worker, Key, MaxCommands,
  Client, Lead, ATTEMPTS, Channel, MaxCalls,
  Consumer, Job, Level,
  Account, Unknown, BALANCE, Amount, MaxTaken,
  Listener, Publication, MaxSubscriptions

\* Thresholds are positive, actors and wallets finitely many, and "none" stands
\* for no key and no job.  transfer() takes any integer.
ASSUME BreakerAssumption ==
  MAX_FAILURES \in Nat \ {0} /\ RESET_AFTER \in Nat /\ IsFiniteSet(Caller)
ASSUME CommandsAssumption == IsFiniteSet(Worker) /\ "none" \notin Key
ASSUME LeadsAssumption == ATTEMPTS \in Nat \ {0}
ASSUME QueueAssumption == Level \subseteq {"basic", "safe"} /\ "none" \notin Job
ASSUME UnitAssumption ==
  IsFiniteSet(Account) /\ BALANCE \in Nat /\ Amount \subseteq Int /\ MaxTaken \in Nat

VARIABLES
  pattern,
  failures, opened_at, running, up, faults, wasted, cancelled, early,
  items, done, handling, enqueued, handled, overlaps, raised,
  channel, contacted, sending, calls, told, refused, assured, most,
  level, jobs, stuck, holding, queued, finished, died,
  status, provider, emitted, seen,
  committed, pending, transfer, booked, taken,
  handlers, publication, subscribed, before, got

Breaker == INSTANCE CircuitBreaker
Commands == INSTANCE CommandQueue
Leads == INSTANCE LeadService
Queue == INSTANCE SimpleQueue
Subscriptions == INSTANCE Subscription
Units == INSTANCE UnitOfWork
Bus == INSTANCE EventBus

breaker == <<failures, opened_at, running, up, faults, wasted, cancelled, early>>
commands == <<items, done, handling, enqueued, handled, overlaps, raised>>
leads == <<channel, contacted, sending, calls, told, refused, assured, most>>
queue == <<level, jobs, stuck, holding, queued, finished, died>>
subscription == <<status, provider, emitted, seen>>
unit == <<committed, pending, transfer, booked, taken>>
bus == <<handlers, publication, subscribed, before, got>>
others == <<commands, leads, queue, subscription, unit, bus>>
vars == <<pattern, breaker, others>>

Init ==
  /\ pattern \in {"breaker", "commands", "leads", "queue", "subscription", "unit", "bus"}
  /\ Breaker!Init /\ Commands!Init /\ Leads!Init /\ Queue!Init /\ Subscriptions!Init
  /\ Units!Init /\ Bus!Init
  /\ pattern # "queue" => level = CHOOSE l \in Level : TRUE
  /\ pattern # "leads" => channel = CHOOSE c \in Channel : TRUE

Next ==
  \/ /\ pattern = "breaker" /\ Breaker!Next
     /\ UNCHANGED <<pattern, others>>
  \/ /\ pattern = "commands" /\ Commands!Next
     /\ UNCHANGED <<pattern, breaker, leads, queue, subscription, unit, bus>>
  \/ /\ pattern = "leads" /\ Leads!Next
     /\ UNCHANGED <<pattern, breaker, commands, queue, subscription, unit, bus>>
  \/ /\ pattern = "queue" /\ Queue!Next
     /\ UNCHANGED <<pattern, breaker, commands, leads, subscription, unit, bus>>
  \/ /\ pattern = "subscription" /\ Subscriptions!Next
     /\ UNCHANGED <<pattern, breaker, commands, leads, queue, unit, bus>>
  \/ /\ pattern = "unit" /\ Units!Next
     /\ UNCHANGED <<pattern, breaker, commands, leads, queue, subscription, bus>>
  \/ /\ pattern = "bus" /\ Bus!Next
     /\ UNCHANGED <<pattern, breaker, commands, leads, queue, subscription, unit>>

\* Only the breaker's liveness needs fairness: time passes, calls end once the
\* service is up, callers keep calling.
FairSpec ==
  /\ Init /\ [][Next]_vars
  /\ \A c \in Caller :
       /\ WF_vars(pattern = "breaker" /\ Breaker!Call(c) /\ UNCHANGED <<pattern, others>>)
       /\ WF_vars(pattern = "breaker" /\ up /\ (Breaker!Fails(c) \/ Breaker!Succeeds(c)) /\ UNCHANGED <<pattern, others>>)
  /\ WF_vars(pattern = "breaker" /\ Breaker!Tick /\ UNCHANGED <<pattern, others>>)

WastedCallsBounded == Breaker!WastedCallsBounded
RecoversAfterOutage == Breaker!RecoversAfterOutage
CommandsAccountedFor == Commands!CommandsAccountedFor
ContactedMeansTold == Leads!ContactedMeansTold
SafeKeepsJobs == Queue!SafeKeepsJobs
CancellationIsFinal == Subscriptions!CancellationIsFinal
TransfersWhole == Units!TransfersWhole
ToldInOrder == Bus!ToldInOrder
=============================================================================
