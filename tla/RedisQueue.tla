----------------------------- MODULE RedisQueue -----------------------------
(***************************************************************************)
(* round2/redis_queue.py: a job queue on three Redis lists.  Producers     *)
(* LPUSH, workers BLMOVE the right end of QUEUE to the left of PROCESSING, *)
(* acknowledge with LREM, retry or dead-letter on an exception; a reaper   *)
(* moves what is in PROCESSING back.  Every Redis command is atomic and is *)
(* one action; between two commands any other client may run.              *)
(*                                                                         *)
(* A list is a sequence whose first element is the left end.  An entry is  *)
(* the JSON text of a job, of which `id' and `attempts' matter; last_error *)
(* is taken to depend on these two, so equal entries are equal texts.      *)
(***************************************************************************)
EXTENDS Naturals, Sequences, FiniteSets, SequencesExt

CONSTANTS
  Worker,       \* threads running worker_loop
  Job,          \* the jobs producers may enqueue
  MAX_RETRIES,  \* line 29
  MaxCrashes,   \* bound: worker deaths
  MaxErrors,    \* bound: acks whose reply is lost on the wire
  MaxSteals     \* bound: entries the reaper takes from a live worker

ASSUME RetriesAssumption == MAX_RETRIES \in Nat \ {0}
ASSUME BoundsAssumption ==
  MaxCrashes \in Nat /\ MaxErrors \in Nat /\ MaxSteals \in Nat

VARIABLES
  queue, processing, dead,  \* the Redis lists
  pc, raw,                  \* each worker's position and the entry it holds
  stop,                     \* the threading.Event
  reaper,                   \* is requeue_stuck running
  submitted,                \* ids in the order they were enqueued
  done,                     \* ids whose handler returned
  failures,                 \* times line 49 counted an attempt, per id
  reaped, stolen,           \* ids the reaper moved; those held by a live worker
  crashes, errors, steals   \* used parts of the bounds

lists == <<queue, processing, dead>>
history == <<submitted, done, failures>>
bounds == <<crashes, errors, steals>>
vars == <<lists, pc, raw, stop, reaper, history, reaped, stolen, bounds>>

Live == [id : Job, attempts : 0 .. MAX_RETRIES - 1]
Spent == [id : Job, attempts : {MAX_RETRIES}]
Bumped(e) == [e EXCEPT !.attempts = @ + 1]

Jobs == ToSet(submitted)
Ids(list) == {e.id : e \in ToSet(list)}

\* Workers that have entry e in hand, to handle, acknowledge or give back.
Holding == {"handle", "ack", "nack"}
Holders(e) == {w \in Worker : pc[w] \in Holding /\ raw[w] = e}

None == [id |-> "none", attempts |-> 0]

Init ==
  /\ queue = <<>> /\ processing = <<>> /\ dead = <<>>
  /\ pc = [w \in Worker |-> "check"]
  /\ raw = [w \in Worker |-> None]
  /\ stop = FALSE
  /\ reaper = FALSE
  /\ submitted = <<>> /\ done = {}
  /\ failures = [j \in Job |-> 0]
  /\ reaped = {} /\ stolen = {}
  /\ crashes = 0 /\ errors = 0 /\ steals = 0

-----------------------------------------------------------------------------
(* Producer *)

Enqueue(j) ==
  /\ j \notin Jobs
  /\ queue' = <<[id |-> j, attempts |-> 0]>> \o queue
  /\ submitted' = Append(submitted, j)
  /\ UNCHANGED <<processing, dead, pc, raw, stop, reaper, done, failures,
                 reaped, stolen, bounds>>

-----------------------------------------------------------------------------
(* Worker *)

Goto(w, from, to) == pc[w] = from /\ pc' = [pc EXCEPT ![w] = to]

\* while not stop.is_set()
CheckStop(w) ==
  /\ Goto(w, "check", IF stop THEN "stopped" ELSE "poll")
  /\ UNCHANGED <<lists, raw, stop, reaper, history, reaped, stolen, bounds>>

\* Bug: plain BRPOP, the "Problem" of line 9.
TakeByBrpop(w) ==
  /\ Goto(w, "poll", "handle")
  /\ queue # <<>>
  /\ raw' = [raw EXCEPT ![w] = Last(queue)]
  /\ queue' = Front(queue)
  /\ UNCHANGED <<processing, dead, stop, reaper, history, reaped, stolen, bounds>>

\* Bug: BLMOVE from the end that LPUSH pushes to.
TakeFromLeft(w) ==
  /\ Goto(w, "poll", "handle")
  /\ queue # <<>>
  /\ raw' = [raw EXCEPT ![w] = Head(queue)]
  /\ processing' = <<Head(queue)>> \o processing
  /\ queue' = Tail(queue)
  /\ UNCHANGED <<dead, stop, reaper, history, reaped, stolen, bounds>>

\* BLMOVE QUEUE PROCESSING RIGHT LEFT finds an entry
Take(w) ==
  /\ Goto(w, "poll", "handle")
  /\ queue # <<>>
  /\ raw' = [raw EXCEPT ![w] = Last(queue)]
  /\ processing' = <<Last(queue)>> \o processing
  /\ queue' = Front(queue)
  /\ UNCHANGED <<dead, stop, reaper, history, reaped, stolen, bounds>>

\* Bug: break instead of continue on line 42.
TimeOutBreaks(w) ==
  /\ Goto(w, "poll", "stopped")
  /\ queue = <<>>
  /\ UNCHANGED <<lists, raw, stop, reaper, history, reaped, stolen, bounds>>

\* ... or one second passes with the queue empty
TimeOut(w) ==
  /\ Goto(w, "poll", "check")
  /\ queue = <<>>
  /\ UNCHANGED <<lists, raw, stop, reaper, history, reaped, stolen, bounds>>

\* handlers[kind](payload) returns
Succeed(w) ==
  /\ Goto(w, "handle", "ack")
  /\ done' = done \cup {raw[w].id}
  /\ UNCHANGED <<lists, raw, stop, reaper, submitted, failures, reaped, stolen,
                 bounds>>

\* it raises, or there is no handler of that kind
Fail(w) ==
  /\ Goto(w, "handle", "nack")
  /\ UNCHANGED <<lists, raw, stop, reaper, history, reaped, stolen, bounds>>

Ack(w) ==
  /\ Goto(w, "ack", "check")
  /\ processing' = RemoveFirst(processing, raw[w])
  /\ raw' = [raw EXCEPT ![w] = None]
  /\ UNCHANGED <<queue, dead, stop, reaper, history, reaped, stolen, bounds>>

\* The LREM of line 46 is inside the try: when its reply is lost, applied or
\* not, a job whose handler succeeded goes the way of one that failed.
AckError(w) ==
  /\ Goto(w, "ack", "nack")
  /\ errors < MaxErrors
  /\ errors' = errors + 1
  /\ processing' \in {processing, RemoveFirst(processing, raw[w])}
  /\ UNCHANGED <<queue, dead, raw, stop, reaper, history, reaped, stolen,
                 crashes, steals>>

\* Bug: the failed entry is left in PROCESSING (no line 48).
NackWithoutLrem(w) ==
  /\ Goto(w, "nack", "requeue")
  /\ raw' = [raw EXCEPT ![w] = Bumped(@)]
  /\ failures' = [failures EXCEPT ![raw[w].id] = @ + 1]
  /\ UNCHANGED <<lists, stop, reaper, submitted, done, reaped, stolen, bounds>>

\* Bug: the attempt is counted once in the try and once in the except.
NackTwice(w) ==
  /\ Goto(w, "nack", "requeue")
  /\ processing' = RemoveFirst(processing, raw[w])
  /\ raw' = [raw EXCEPT ![w] = [@ EXCEPT !.attempts = Min({@ + 2, MAX_RETRIES})]]
  /\ failures' = [failures EXCEPT ![raw[w].id] = @ + 1]
  /\ UNCHANGED <<queue, dead, stop, reaper, submitted, done, reaped, stolen,
                 bounds>>

\* except: LREM, then attempts += 1.  From here to Requeue the worker's memory
\* is the only place the job is in.
Nack(w) ==
  /\ Goto(w, "nack", "requeue")
  /\ processing' = RemoveFirst(processing, raw[w])
  /\ raw' = [raw EXCEPT ![w] = Bumped(@)]
  /\ failures' = [failures EXCEPT ![raw[w].id] = @ + 1]
  /\ UNCHANGED <<queue, dead, stop, reaper, submitted, done, reaped, stolen,
                 bounds>>

\* Bug: > for >= on line 51.
RequeueOffByOne(w) ==
  /\ Goto(w, "requeue", "check")
  /\ IF raw[w].attempts > MAX_RETRIES
       THEN dead' = <<raw[w]>> \o dead /\ UNCHANGED queue
       ELSE queue' = <<raw[w]>> \o queue /\ UNCHANGED dead
  /\ raw' = [raw EXCEPT ![w] = None]
  /\ UNCHANGED <<processing, stop, reaper, history, reaped, stolen, bounds>>

\* Bug: the dead-letter list is a single slot.
RequeueOverwrites(w) ==
  /\ Goto(w, "requeue", "check")
  /\ IF raw[w].attempts >= MAX_RETRIES
       THEN dead' = <<raw[w]>> /\ UNCHANGED queue
       ELSE queue' = <<raw[w]>> \o queue /\ UNCHANGED dead
  /\ raw' = [raw EXCEPT ![w] = None]
  /\ UNCHANGED <<processing, stop, reaper, history, reaped, stolen, bounds>>

\* LPUSH to the dead-letter list or back to the queue
Requeue(w) ==
  /\ Goto(w, "requeue", "check")
  /\ IF raw[w].attempts >= MAX_RETRIES
       THEN dead' = <<raw[w]>> \o dead /\ UNCHANGED queue
       ELSE queue' = <<raw[w]>> \o queue /\ UNCHANGED dead
  /\ raw' = [raw EXCEPT ![w] = None]
  /\ UNCHANGED <<processing, stop, reaper, history, reaped, stolen, bounds>>

\* A kill, or a Redis error outside the try, ends the thread where it is.
Crash(w) ==
  /\ pc[w] \notin {"crashed", "stopped"}
  /\ crashes < MaxCrashes
  /\ crashes' = crashes + 1
  /\ pc' = [pc EXCEPT ![w] = "crashed"]
  /\ raw' = [raw EXCEPT ![w] = None]
  /\ UNCHANGED <<lists, stop, reaper, history, reaped, stolen, errors, steals>>

\* Whoever runs the workers starts a new one.
Restart(w) ==
  /\ Goto(w, "crashed", "check")
  /\ UNCHANGED <<lists, raw, stop, reaper, history, reaped, stolen, bounds>>

-----------------------------------------------------------------------------
(* Reaper and shutdown *)

Reap(from, to) == reaper = from /\ reaper' = to

ReaperStart ==
  /\ Reap(FALSE, TRUE)
  /\ UNCHANGED <<lists, pc, raw, stop, history, reaped, stolen, bounds>>

\* RPOPLPUSH PROCESSING QUEUE, one iteration.  Nothing tells an orphan from an
\* entry that a live worker is handling.
ReaperMove ==
  /\ Reap(TRUE, TRUE)
  /\ processing # <<>>
  /\ LET e == Last(processing)
         live == Holders(e) # {}
     IN /\ live => steals < MaxSteals
        /\ steals' = IF live THEN steals + 1 ELSE steals
        /\ stolen' = IF live THEN stolen \cup {e.id} ELSE stolen
        /\ reaped' = reaped \cup {e.id}
        /\ queue' = <<e>> \o queue
  /\ processing' = Front(processing)
  /\ UNCHANGED <<dead, pc, raw, stop, history, crashes, errors>>

ReaperEnd ==
  /\ Reap(TRUE, FALSE)
  /\ processing = <<>>
  /\ UNCHANGED <<lists, pc, raw, stop, history, reaped, stolen, bounds>>

\* stop.set()
Shutdown ==
  /\ ~stop
  /\ stop' = TRUE
  /\ UNCHANGED <<lists, pc, raw, reaper, history, reaped, stolen, bounds>>

-----------------------------------------------------------------------------

WorkerStep(w) ==
  \/ CheckStop(w) \/ Take(w) \/ TimeOut(w) \/ Succeed(w) \/ Fail(w)
  \/ Ack(w) \/ AckError(w) \/ Nack(w) \/ Requeue(w)

ReaperStep == ReaperStart \/ ReaperMove \/ ReaperEnd

Next ==
  \/ \E j \in Job : Enqueue(j)
  \/ \E w \in Worker : WorkerStep(w) \/ Crash(w) \/ Restart(w)
  \/ ReaperStep
  \/ Shutdown

Spec == Init /\ [][Next]_vars

(***************************************************************************)
(* Worker threads run, a dead worker is replaced, and the reaper is on a   *)
(* schedule (line 59) of its own.  Whether a handler returns or raises is  *)
(* up to it: only that it ends is assumed.                                 *)
(***************************************************************************)
Fairness ==
  /\ \A w \in Worker : WF_vars(WorkerStep(w)) /\ WF_vars(Restart(w))
  /\ WF_vars(ReaperStep)

FairSpec == Spec /\ Fairness

-----------------------------------------------------------------------------
(* Properties *)

\* Live jobs wait in QUEUE and PROCESSING with a try left; dead ones have none.
\* (lines 51-54: the list an entry is pushed to is decided by its attempts)
TypeOK ==
  /\ queue \in Seq(Live) /\ processing \in Seq(Live) /\ dead \in Seq(Spent)
  /\ pc \in [Worker -> Holding \cup {"check", "poll", "requeue", "crashed",
                                     "stopped"}]
  /\ raw \in [Worker -> Live \cup Spent \cup {None}]
  /\ \A w \in Worker : pc[w] \in Holding => raw[w] \in Live
  /\ \A w \in Worker : pc[w] = "requeue" => raw[w] \in Live \cup Spent
  /\ stop \in BOOLEAN /\ reaper \in BOOLEAN
  /\ submitted \in Seq(Job) /\ done \subseteq Job /\ failures \in [Job -> Nat]
  /\ reaped \subseteq Job /\ stolen \subseteq Job
  /\ crashes \in 0 .. MaxCrashes /\ errors \in 0 .. MaxErrors
  /\ steals \in 0 .. MaxSteals

InMemory == {raw[w].id : w \in {v \in Worker : pc[v] = "requeue"}}
InHand == {raw[w].id : w \in {v \in Worker : pc[v] \in Holding}}

\* Enqueued, not done, and in none of the places a worker or reaper looks.
Missing ==
  Jobs \ (done \cup Ids(queue) \cup Ids(processing) \cup Ids(dead) \cup InMemory)

\* Whatever workers, reaper and errors do, a job goes missing in one way only:
\* the worker dies between the LREM of line 48 and the LPUSH of lines 52/54.
NoSilentLoss ==
  [][\A j \in Missing' \ Missing :
       \E w \in Worker : pc[w] = "requeue" /\ raw[w].id = j /\ pc'[w] = "crashed"]_vars

\* How many times job j is in the lists or on its way back to one.
Copies(j) ==
  LET in(list) == Cardinality({i \in DOMAIN list : list[i].id = j})
  IN in(queue) + in(processing) + in(dead)
       + Cardinality({w \in Worker : pc[w] = "requeue" /\ raw[w].id = j})

\* A job is never in two places, through crashes, retries and lost replies,
\* unless the reaper took it from a worker that was still handling it
\* (the simplification lines 59-60 name).
UniqueUnlessStolen == \A j \in Job \ stolen : Copies(j) <= 1

\* An entry never claims more attempts than were counted for its job, and
\* exactly as many while the job was not stolen: MAX_RETRIES counted failures
\* and it is dead (line 128).  What is counted is an exception that reached the
\* worker: also one of the connection, after a handler that was done, and not
\* a handler that the worker died in.
AttemptsCountFailures ==
  \A e \in ToSet(queue) \cup ToSet(processing) \cup ToSet(dead) :
    /\ e.attempts <= failures[e.id]
    /\ e.id \notin stolen => e.attempts = failures[e.id]

Before(j, k) ==
  \E m, n \in DOMAIN submitted : m < n /\ submitted[m] = j /\ submitted[n] = k

FirstTry(e) == e.attempts = 0 /\ e.id \notin reaped

\* First tries are handed out in the order of the enqueues (line 7), whatever
\* retries and reaped jobs are mixed into the queue.
FirstInFirstOut ==
  [][\A w \in Worker :
       pc[w] = "poll" /\ pc'[w] = "handle" /\ FirstTry(raw'[w]) =>
         \A e \in ToSet(queue) :
           FirstTry(e) /\ e.id # raw'[w].id => Before(raw'[w].id, e.id)]_vars

\* Until shutdown every job ends up done, dead for a human to look at, or missing.
EventuallySettled ==
  \A j \in Job : j \in Jobs ~> j \in done \cup Ids(dead) \cup Missing \/ stop

\* Missing, and no worker that could still complete it or give it back.
Lost == Missing \ InHand

\* The lists implement the abstract at-least-once queue.
Abstract == INSTANCE JobQueue WITH
  submitted <- Jobs, completed <- done, buried <- Ids(dead), lost <- Lost

ImplementsJobQueue == Abstract!Spec

\* Lines 9-15: in the "Reliable version" a crashed worker's job is not gone.
NoJobLost == Missing = {}

=============================================================================
