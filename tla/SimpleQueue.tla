----------------------------- MODULE SimpleQueue -----------------------------
(***************************************************************************)
(* round2/redis_queue_simple.py: worker_basic (BRPOP) and worker_safe      *)
(* (BLMOVE, then LREM) with recover_stuck.  The lists are written left end *)
(* first.  A worker dies, or its handle raises, anywhere; another takes    *)
(* its place.                                                              *)
(***************************************************************************)
EXTENDS SequencesExt

CONSTANTS
  Consumer, Job,
  Level       \* of basic, safe

VARIABLES
  level,
  jobs, stuck,  \* the lists jobs and jobs:processing
  holding,      \* of each consumer: the job it has, and whether it is handled
  queued,       \* jobs enqueued
  finished,     \* history: jobs handled
  died          \* history: jobs a consumer died with

vars == <<level, jobs, stuck, holding, queued, finished, died>>

Empty == [job |-> "none", handled |-> FALSE]

Init ==
  /\ level \in Level
  /\ jobs = <<>> /\ stuck = <<>>
  /\ holding = [w \in Consumer |-> Empty]
  /\ queued = {} /\ finished = {} /\ died = {}

Put(j) ==
  /\ j \notin queued
  /\ queued' = queued \cup {j}
  /\ jobs' = <<j>> \o jobs
  /\ UNCHANGED <<level, stuck, holding, finished, died>>

TakeUnlisted(w) ==   \* mutant: BRPOP where BLMOVE is needed
  /\ holding[w] = Empty /\ jobs # <<>>
  /\ jobs' = Front(jobs)
  /\ holding' = [holding EXCEPT ![w].job = Last(jobs)]
  /\ UNCHANGED <<level, stuck, queued, finished, died>>
Take(w) ==
  /\ holding[w] = Empty /\ jobs # <<>>
  /\ jobs' = Front(jobs)
  /\ stuck' = IF level = "safe" THEN <<Last(jobs)>> \o stuck ELSE stuck
  /\ holding' = [holding EXCEPT ![w].job = Last(jobs)]
  /\ UNCHANGED <<level, queued, finished, died>>

Handle(w) ==
  /\ holding[w] # Empty /\ ~holding[w].handled
  /\ finished' = finished \cup {holding[w].job}
  /\ holding' = [holding EXCEPT ![w] = IF level = "basic" THEN Empty ELSE [@ EXCEPT !.handled = TRUE]]
  /\ UNCHANGED <<level, jobs, stuck, queued, died>>

\* LREM jobs:processing 1 job_id
Ack(w) ==
  /\ holding[w].handled
  /\ stuck' = IF holding[w].job \in ToSet(stuck)
              THEN RemoveFirst(stuck, holding[w].job) ELSE stuck
  /\ holding' = [holding EXCEPT ![w] = Empty]
  /\ UNCHANGED <<level, jobs, queued, finished, died>>

Die(w) ==
  /\ holding[w] # Empty
  /\ died' = died \cup {holding[w].job}
  /\ holding' = [holding EXCEPT ![w] = Empty]
  /\ UNCHANGED <<level, jobs, stuck, queued, finished>>

\* One LMOVE of recover_stuck, which cannot tell whose job it moves.
Recover(e) ==
  /\ level = "safe" /\ stuck # <<>> /\ e = Last(stuck)
  /\ stuck' = Front(stuck)
  /\ jobs' = Append(jobs, e)
  /\ UNCHANGED <<level, holding, queued, finished, died>>

Next ==
  \/ \E j \in Job : Put(j) \/ Recover(j)
  \/ \E w \in Consumer : Take(w) \/ Handle(w) \/ Ack(w) \/ Die(w)

-----------------------------------------------------------------------------
\* Level 2 loses no job to a death, though recover_stuck takes jobs from live
\* workers too; level 1 loses exactly the jobs a worker died with.
SafeKeepsJobs ==
  \A j \in queued :
    \/ j \in ToSet(jobs) \cup ToSet(stuck) \cup finished
    \/ level = "basic" /\ (j \in died \/ \E w \in Consumer : holding[w].job = j)
=============================================================================
