------------------------------ MODULE JobQueue ------------------------------
(***************************************************************************)
(* What round2/redis_queue.py promises its callers, without lists, workers *)
(* or reaper: a submitted job is completed at least once, or buried in the *)
(* dead-letter list for a human, or (the gap the code leaves open) lost.   *)
(* A job may be both completed and buried: delivery is at least once.      *)
(***************************************************************************)
CONSTANT Job

VARIABLES submitted, completed, buried, lost

vars == <<submitted, completed, buried, lost>>

Init ==
  /\ submitted = {}
  /\ completed = {}
  /\ buried = {}
  /\ lost = {}

\* Only new jobs are submitted: every enqueue draws a fresh uuid.
Submit(j) ==
  /\ j \notin submitted
  /\ submitted' = submitted \cup {j}
  /\ UNCHANGED <<completed, buried, lost>>

\* Nobody completes, buries or loses a job that was never submitted or is lost.
Complete(j) ==
  /\ j \in submitted \ lost
  /\ completed' = completed \cup {j}
  /\ UNCHANGED <<submitted, buried, lost>>

Bury(j) ==
  /\ j \in submitted \ lost
  /\ buried' = buried \cup {j}
  /\ UNCHANGED <<submitted, completed, lost>>

\* Only an unsettled job can be lost, and for good.
Lose(j) ==
  /\ j \in submitted \ (completed \cup buried)
  /\ lost' = lost \cup {j}
  /\ UNCHANGED <<submitted, completed, buried>>

Next == \E j \in Job : Submit(j) \/ Complete(j) \/ Bury(j) \/ Lose(j)

Spec == Init /\ [][Next]_vars
=============================================================================
