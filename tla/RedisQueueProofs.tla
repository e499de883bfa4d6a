-------------------------- MODULE RedisQueueProofs --------------------------
(***************************************************************************)
(* Proofs about RedisQueue, for any workers, jobs and bounds.  IInv knows  *)
(* where jobs can be; on it rest the absence of silent loss and the        *)
(* refinement of JobQueue.  JobsInv adds how often, with whom, with which   *)
(* attempts and in which order they are there.                             *)
(***************************************************************************)
EXTENDS RedisQueue, CollectionLemmas

\* A worker about to acknowledge has a job whose handler returned.
AckedIsDone == \A w \in Worker : pc[w] = "ack" => raw[w].id \in done

\* Where a job can be: in a list, in the memory of a worker between LREM and
\* LPUSH, or (Known) in the hands of one that is handling it.
Safe == done \cup Ids(queue) \cup Ids(processing) \cup Ids(dead) \cup InMemory
Known == Safe \cup InHand

\* Lists, workers and `done' only know jobs that were enqueued.
OnlyEnqueued == Known \subseteq Jobs

IInv == TypeOK /\ AckedIsDone /\ OnlyEnqueued

-----------------------------------------------------------------------------
(* Type correctness *)

\* A live entry's counted failure is a live or a spent entry, as line 51 decides.
LEMMA LiveIsLive ==
  /\ Live \cap Spent = {}
  /\ \A e \in Live : e.id \in Job /\ e.attempts \in 0 .. MAX_RETRIES - 1
  /\ \A j \in Job : [id |-> j, attempts |-> 0] \in Live
  /\ \A e \in Live : Bumped(e) \in Live \cup Spent /\ Bumped(e).id = e.id
  /\ \A e \in Live \cup Spent : e.id \in Job
  /\ \A e \in Live \cup Spent : e.attempts >= MAX_RETRIES => e \in Spent
  /\ \A e \in Live \cup Spent : ~ (e.attempts >= MAX_RETRIES) => e \in Live
  BY RetriesAssumption DEF Live, Spent, Bumped

\* The empty lists and idle workers have their types.
LEMMA InitType == Init => TypeOK
<1> SUFFICES ASSUME Init PROVE TypeOK
  OBVIOUS
<1>1. /\ queue \in Seq(Live) /\ processing \in Seq(Live) /\ dead \in Seq(Spent)
      /\ submitted \in Seq(Job)
  BY EmptySeq DEF Init
<1>2. /\ pc \in [Worker -> Holding \cup {"check", "poll", "requeue", "crashed",
                                     "stopped"}]
      /\ \A w \in Worker : pc[w] = "check"
      /\ raw \in [Worker -> Live \cup Spent \cup {None}]
  BY DEF Init
<1>3. /\ crashes \in 0 .. MaxCrashes /\ errors \in 0 .. MaxErrors
      /\ steals \in 0 .. MaxSteals
  BY BoundsAssumption DEF Init
<1>4. /\ stop \in BOOLEAN /\ reaper \in BOOLEAN
      /\ done \subseteq Job /\ failures \in [Job -> Nat]
      /\ reaped \subseteq Job /\ stolen \subseteq Job
  BY DEF Init
<1> QED
  BY <1>1, <1>2, <1>3, <1>4 DEF TypeOK, Holding

\* Every command of worker, reaper and producer keeps the types.
LEMMA StepType == TypeOK /\ [Next]_vars => TypeOK'
<1> SUFFICES ASSUME TypeOK, [Next]_vars PROVE TypeOK'
  OBVIOUS
<1> USE DEF TypeOK, lists, history, bounds, Holding, Goto
<1>1. ASSUME NEW j \in Job, Enqueue(j) PROVE TypeOK'
  <2>1. queue' \in Seq(Live)
    BY <1>1, PushLeft, LiveIsLive DEF Enqueue
  <2>2. submitted' \in Seq(Job)
    BY <1>1, AppendProperties DEF Enqueue
  <2> QED BY <1>1, <2>1, <2>2 DEF Enqueue
<1>2. ASSUME NEW w \in Worker, CheckStop(w) PROVE TypeOK'
  BY <1>2 DEF CheckStop
<1>3. ASSUME NEW w \in Worker, Take(w) PROVE TypeOK'
  <2>1. Last(queue) \in Live /\ queue' \in Seq(Live)
    BY <1>3, PopRight DEF Take
  <2>2. processing' \in Seq(Live)
    BY <1>3, <2>1, PushLeft DEF Take
  <2> QED BY <1>3, <2>1, <2>2 DEF Take
<1>4. ASSUME NEW w \in Worker, TimeOut(w) PROVE TypeOK'
  BY <1>4 DEF TimeOut
<1>5. ASSUME NEW w \in Worker, Succeed(w) PROVE TypeOK'
  BY <1>5, LiveIsLive DEF Succeed
<1>6. ASSUME NEW w \in Worker, Fail(w) PROVE TypeOK'
  BY <1>6 DEF Fail
<1>7. ASSUME NEW w \in Worker, Ack(w) PROVE TypeOK'
  <2>1. processing' \in Seq(Live)
    BY <1>7, RemoveOne DEF Ack
  <2> QED BY <1>7, <2>1 DEF Ack
<1>8. ASSUME NEW w \in Worker, AckError(w) PROVE TypeOK'
  <2>1. processing' \in Seq(Live)
    BY <1>8, RemoveOne DEF AckError
  <2>2. errors' \in 0 .. MaxErrors
    BY <1>8, BoundsAssumption DEF AckError
  <2> QED BY <1>8, <2>1, <2>2 DEF AckError
<1>9. ASSUME NEW w \in Worker, Nack(w) PROVE TypeOK'
  <2>1. processing' \in Seq(Live)
    BY <1>9, RemoveOne DEF Nack
  <2>2. raw[w] \in Live /\ raw[w].id \in Job /\ Bumped(raw[w]) \in Live \cup Spent
    BY <1>9, LiveIsLive DEF Nack
  <2>3. failures' \in [Job -> Nat]
    BY <1>9, <2>2 DEF Nack
  <2> QED BY <1>9, <2>1, <2>2, <2>3 DEF Nack
<1>10. ASSUME NEW w \in Worker, Requeue(w) PROVE TypeOK'
  <2>1. raw[w] \in Live \cup Spent
    BY <1>10 DEF Requeue
  <2>2. queue' \in Seq(Live) /\ dead' \in Seq(Spent)
    <3>1. CASE raw[w].attempts >= MAX_RETRIES
      <4>1. raw[w] \in Spent
        BY <3>1, <2>1, LiveIsLive
      <4>2. dead' = <<raw[w]>> \o dead /\ queue' = queue
        BY <3>1, <1>10 DEF Requeue
      <4> QED BY <4>1, <4>2, PushLeft
    <3>2. CASE ~ (raw[w].attempts >= MAX_RETRIES)
      <4>1. raw[w] \in Live
        BY <3>2, <2>1, LiveIsLive
      <4>2. queue' = <<raw[w]>> \o queue /\ dead' = dead
        BY <3>2, <1>10 DEF Requeue
      <4> QED BY <4>1, <4>2, PushLeft
    <3> QED BY <3>1, <3>2
  <2> QED BY <1>10, <2>1, <2>2 DEF Requeue
<1>11. ASSUME NEW w \in Worker, Crash(w) PROVE TypeOK'
  <2>1. crashes' \in 0 .. MaxCrashes
    BY <1>11, BoundsAssumption DEF Crash
  <2> QED BY <1>11, <2>1 DEF Crash
<1>12. ASSUME NEW w \in Worker, Restart(w) PROVE TypeOK'
  BY <1>12 DEF Restart
<1>13. ASSUME ReaperMove PROVE TypeOK'
  <2>1. Last(processing) \in Live /\ processing' \in Seq(Live)
    BY <1>13, PopRight DEF ReaperMove
  <2>2. queue' \in Seq(Live)
    BY <1>13, <2>1, PushLeft DEF ReaperMove
  <2>3. steals' \in 0 .. MaxSteals
    BY <1>13, BoundsAssumption DEF ReaperMove
  <2>4. reaped' \subseteq Job /\ stolen' \subseteq Job
    BY <1>13, <2>1, LiveIsLive DEF ReaperMove
  <2> QED BY <1>13, <2>1, <2>2, <2>3, <2>4 DEF ReaperMove, Reap
<1>14. ASSUME ReaperStart \/ ReaperEnd PROVE TypeOK'
  BY <1>14 DEF ReaperStart, ReaperEnd, Reap
<1>15. ASSUME Shutdown PROVE TypeOK'
  BY <1>15 DEF Shutdown
<1>16. ASSUME UNCHANGED vars PROVE TypeOK'
  BY <1>16 DEF vars
<1> QED
  BY <1>1, <1>2, <1>3, <1>4, <1>5, <1>6, <1>7, <1>8, <1>9, <1>10, <1>11, <1>12,
     <1>13, <1>14, <1>15, <1>16 DEF Next, WorkerStep, ReaperStep

\* Entries in QUEUE and PROCESSING always have a try left, those in DEAD none
\* (lines 51-54), and every variable keeps its type.
THEOREM TypeCorrect == Spec => []TypeOK
<1> QED BY InitType, StepType, PTL DEF Spec

-----------------------------------------------------------------------------
(* Where jobs are, before and after a step *)

\* LPUSH adds one job to a list ...
LEMMA IdsPush ==
  ASSUME NEW S, NEW s \in Seq(S), NEW e \in S
  PROVE  Ids(<<e>> \o s) = {e.id} \cup Ids(s)
<1>1. ToSet(<<e>> \o s) = {e} \cup ToSet(s)
  BY PushLeft
<1> QED
  BY <1>1 DEF Ids

\* ... RPOP takes one from it ...
LEMMA IdsPop ==
  ASSUME NEW S, NEW s \in Seq(S), s # <<>>
  PROVE  Ids(s) = {Last(s).id} \cup Ids(Front(s))
  BY PopRight DEF Ids

\* ... and LREM takes at most the job of its entry.
LEMMA IdsRemove ==
  ASSUME NEW S, NEW s \in Seq(S), NEW e
  PROVE  /\ Ids(RemoveFirst(s, e)) \subseteq Ids(s)
         /\ Ids(s) \ {e.id} \subseteq Ids(RemoveFirst(s, e))
  BY RemoveOne DEF Ids

\* Enqueue makes its job known.
LEMMA EnqueueEffect ==
  ASSUME TypeOK, NEW j \in Job, Enqueue(j)
  PROVE  /\ Jobs' = Jobs \cup {j} /\ Safe' = Safe \cup {j} /\ InHand' = InHand
         /\ Ids(dead)' = Ids(dead) /\ done' = done
<1> USE DEF TypeOK, lists, history, bounds
<1>1. Ids(queue)' = {j} \cup Ids(queue)
  <2>1. [id |-> j, attempts |-> 0] \in Live
    BY LiveIsLive
  <2> QED BY <2>1, IdsPush DEF Enqueue
<1>2. Jobs' = Jobs \cup {j}
  <2>1. submitted' = Append(submitted, j) /\ DOMAIN submitted = 1 .. Len(submitted)
    BY LenProperties DEF Enqueue
  <2>2. /\ submitted' \in Seq(Job) /\ Len(submitted') = Len(submitted) + 1
        /\ \A i \in 1 .. Len(submitted) : submitted'[i] = submitted[i]
        /\ submitted'[Len(submitted) + 1] = j
    BY <2>1, AppendProperties
  <2>3. Len(submitted) \in Nat /\ DOMAIN submitted' = 1 .. Len(submitted) + 1
    BY <2>2, LenProperties
  <2> HIDE DEF TypeOK
  <2>4. ToSet(submitted') \subseteq ToSet(submitted) \cup {j}
    BY <2>1, <2>2, <2>3 DEF ToSet
  <2>5. j \in ToSet(submitted')
    BY <2>2, <2>3 DEF ToSet
  <2>6. ASSUME NEW i \in 1 .. Len(submitted) PROVE submitted[i] \in ToSet(submitted')
    <3>1. i \in DOMAIN submitted' /\ submitted'[i] = submitted[i]
      BY <2>2, <2>3
    <3> QED BY <3>1 DEF ToSet
  <2> QED BY <2>1, <2>4, <2>5, <2>6 DEF Jobs, ToSet
<1>3. /\ Ids(processing)' = Ids(processing) /\ Ids(dead)' = Ids(dead)
      /\ InMemory' = InMemory /\ InHand' = InHand /\ done' = done
  BY DEF Enqueue, Ids, InMemory, InHand
<1> QED
  BY <1>1, <1>2, <1>3 DEF Safe

\* Every step but an Enqueue or a Crash knows the jobs it knew before, and a job
\* that was safe stays safe.
LEMMA StepEffect ==
  ASSUME IInv,
         \/ \E w \in Worker : WorkerStep(w) \/ Restart(w)
         \/ ReaperStep \/ Shutdown
  PROVE  Jobs' = Jobs /\ Safe \subseteq Safe' /\ Known' = Known
<1> USE DEF TypeOK, lists, history, bounds, Goto, Holding
<1>1. ASSUME NEW w \in Worker, CheckStop(w) \/ TimeOut(w) \/ Restart(w) \/ Fail(w)
      PROVE  Jobs' = Jobs /\ Safe \subseteq Safe' /\ Known' = Known
  <2>1. /\ UNCHANGED <<queue, processing, dead, raw, submitted, done>>
        /\ InMemory' = InMemory /\ InHand' = InHand
    BY <1>1 DEF IInv, CheckStop, TimeOut, Restart, Fail, InMemory, InHand
  <2> QED BY <2>1 DEF Jobs, Safe, Known, Ids
<1>2. ASSUME NEW w \in Worker, Take(w)
      PROVE  Jobs' = Jobs /\ Safe \subseteq Safe' /\ Known' = Known
  <2> DEFINE j == Last(queue).id
  <2>1. Last(queue) \in Live
    BY <1>2, PopRight DEF IInv, Take
  <2>2. Ids(queue) = {j} \cup Ids(queue)'
    BY <1>2, IdsPop DEF IInv, Take
  <2>3. Ids(processing)' = {j} \cup Ids(processing)
    BY <1>2, <2>1, IdsPush DEF IInv, Take
  <2>4. InMemory' = InMemory /\ InHand' = {j} \cup InHand
    BY <1>2 DEF IInv, Take, InMemory, InHand
  <2>5. UNCHANGED <<dead, submitted, done>>
    BY <1>2 DEF Take
  <2> QED BY <2>2, <2>3, <2>4, <2>5 DEF Jobs, Safe, Known, Ids
<1>3. ASSUME NEW w \in Worker, Succeed(w)
      PROVE  Jobs' = Jobs /\ Safe \subseteq Safe' /\ Known' = Known
  <2>1. /\ UNCHANGED <<queue, processing, dead, raw, submitted>>
        /\ InMemory' = InMemory /\ InHand' = InHand
        /\ done' = done \cup {raw[w].id} /\ raw[w].id \in InHand
    BY <1>3 DEF IInv, Succeed, InMemory, InHand
  <2> QED BY <2>1 DEF Jobs, Safe, Known, Ids
<1>4. ASSUME NEW w \in Worker, Ack(w) \/ AckError(w)
      PROVE  Jobs' = Jobs /\ Safe \subseteq Safe' /\ Known' = Known
  <2> DEFINE j == raw[w].id
  <2>1. j \in done /\ UNCHANGED <<queue, dead, submitted, done>>
    BY <1>4 DEF IInv, AckedIsDone, Ack, AckError
  <2>2. Ids(processing)' \subseteq Ids(processing) /\ Ids(processing) \ {j} \subseteq Ids(processing)'
    BY <1>4, IdsRemove DEF IInv, Ack, AckError
  <2>3. /\ InMemory' = InMemory
        /\ InHand' \subseteq InHand /\ InHand \ {j} \subseteq InHand'
    <3>1. CASE Ack(w)
      BY <3>1 DEF IInv, Ack, InMemory, InHand
    <3>2. CASE AckError(w)
      BY <3>2 DEF IInv, AckError, InMemory, InHand
    <3> QED BY <1>4, <3>1, <3>2
  <2> QED BY <2>1, <2>2, <2>3 DEF Jobs, Safe, Known, Ids
<1>5. ASSUME NEW w \in Worker, Nack(w)
      PROVE  Jobs' = Jobs /\ Safe \subseteq Safe' /\ Known' = Known
  <2> DEFINE j == raw[w].id
  <2>1. UNCHANGED <<queue, dead, submitted, done>> /\ Bumped(raw[w]).id = j
    BY <1>5, LiveIsLive DEF IInv, Nack
  <2>2. Ids(processing)' \subseteq Ids(processing) /\ Ids(processing) \ {j} \subseteq Ids(processing)'
    BY <1>5, IdsRemove DEF IInv, Nack
  <2>3. /\ InMemory' = InMemory \cup {j} /\ j \in InHand
        /\ InHand' \subseteq InHand /\ InHand \ {j} \subseteq InHand'
    BY <1>5, <2>1 DEF IInv, Nack, InMemory, InHand
  <2> QED BY <2>1, <2>2, <2>3 DEF Jobs, Safe, Known, Ids
<1>6. ASSUME NEW w \in Worker, Requeue(w)
      PROVE  Jobs' = Jobs /\ Safe \subseteq Safe' /\ Known' = Known
  <2> DEFINE j == raw[w].id
  <2>1. UNCHANGED <<processing, submitted, done>>
    BY <1>6 DEF Requeue
  <2>2. Ids(queue)' \cup Ids(dead)' = {j} \cup Ids(queue) \cup Ids(dead)
    <3>1. raw[w] \in Live \cup Spent
      BY <1>6 DEF IInv, Requeue
    <3>2. CASE raw[w].attempts >= MAX_RETRIES
      <4>1. raw[w] \in Spent /\ dead' = <<raw[w]>> \o dead /\ queue' = queue
        BY <3>1, <3>2, <1>6, LiveIsLive DEF Requeue
      <4> QED BY <4>1, IdsPush DEF IInv
    <3>3. CASE ~ (raw[w].attempts >= MAX_RETRIES)
      <4>1. raw[w] \in Live /\ queue' = <<raw[w]>> \o queue /\ dead' = dead
        BY <3>1, <3>3, <1>6, LiveIsLive DEF Requeue
      <4> QED BY <4>1, IdsPush DEF IInv
    <3> QED BY <3>2, <3>3
  <2>3. /\ InMemory' \subseteq InMemory /\ InMemory \ {j} \subseteq InMemory'
        /\ j \in InMemory /\ InHand' = InHand
    BY <1>6 DEF IInv, Requeue, InMemory, InHand
  <2> QED BY <2>1, <2>2, <2>3 DEF Jobs, Safe, Known, Ids
<1>7. ASSUME ReaperMove
      PROVE  Jobs' = Jobs /\ Safe \subseteq Safe' /\ Known' = Known
  <2> DEFINE e == Last(processing)
  <2>1. e \in Live
    BY <1>7, PopRight DEF IInv, ReaperMove
  <2>2. Ids(processing) = {e.id} \cup Ids(processing)'
    BY <1>7, IdsPop DEF IInv, ReaperMove
  <2>3. Ids(queue)' = {e.id} \cup Ids(queue)
    BY <1>7, <2>1, IdsPush DEF IInv, ReaperMove
  <2>4. UNCHANGED <<dead, pc, raw, submitted, done>>
    BY <1>7 DEF ReaperMove
  <2>5. InMemory' = InMemory /\ InHand' = InHand
    BY <2>4 DEF InMemory, InHand
  <2> QED BY <2>2, <2>3, <2>4, <2>5 DEF Jobs, Safe, Known, Ids
<1>8. ASSUME ReaperStart \/ ReaperEnd \/ Shutdown
      PROVE  Jobs' = Jobs /\ Safe \subseteq Safe' /\ Known' = Known
  <2>1. UNCHANGED <<queue, processing, dead, pc, raw, submitted, done>>
    BY <1>8 DEF ReaperStart, ReaperEnd, Shutdown
  <2> QED BY <2>1 DEF Jobs, Safe, Known, Ids, InMemory, InHand
<1> QED
  BY <1>1, <1>2, <1>3, <1>4, <1>5, <1>6, <1>7, <1>8
     DEF WorkerStep, ReaperStep

\* A crash forgets at most the job of the worker that died, and only what that
\* worker held between LREM and LPUSH stops being safe.
LEMMA CrashEffect ==
  ASSUME TypeOK, NEW w \in Worker, Crash(w)
  PROVE  /\ UNCHANGED <<queue, processing, dead, submitted, done>>
         /\ pc'[w] = "crashed"
         /\ Safe' \subseteq Safe /\ Known' \subseteq Known
         /\ \A j \in Safe \ Safe' : pc[w] = "requeue" /\ raw[w].id = j
         /\ \A j \in Known \ Known' : raw[w].id = j
<1>1. /\ UNCHANGED <<queue, processing, dead, submitted, done>>
      /\ pc' = [pc EXCEPT ![w] = "crashed"] /\ raw' = [raw EXCEPT ![w] = None]
      /\ pc'[w] = "crashed"
  BY DEF TypeOK, Crash, lists, history
<1>2. /\ InMemory' \subseteq InMemory
      /\ \A j \in InMemory \ InMemory' : pc[w] = "requeue" /\ raw[w].id = j
      /\ InHand' \subseteq InHand
      /\ \A j \in InHand \ InHand' : raw[w].id = j
  BY <1>1 DEF TypeOK, InMemory, InHand, Holding
<1> QED
  BY <1>1, <1>2 DEF Safe, Known, Ids

-----------------------------------------------------------------------------
(* The inductive invariant *)

\* The invariant holds before anything is enqueued ...
LEMMA InitInv == Init => IInv
<1> SUFFICES ASSUME Init PROVE IInv
  OBVIOUS
<1>1. TypeOK
  BY InitType
<1>2. AckedIsDone
  BY DEF Init, AckedIsDone
<1>3. Known = {}
  BY DEF Init, Known, Safe, Ids, InMemory, InHand, ToSet, Holding
<1> QED
  BY <1>1, <1>2, <1>3 DEF IInv, OnlyEnqueued

\* ... and every step keeps it.
LEMMA StepInv == IInv /\ [Next]_vars => IInv'
<1> SUFFICES ASSUME IInv, [Next]_vars PROVE IInv'
  OBVIOUS
<1>1. TypeOK'
  BY StepType DEF IInv
<1>2. AckedIsDone'
  <2> USE DEF IInv, TypeOK, AckedIsDone, lists, history, bounds, Goto
  <2>1. ASSUME NEW w \in Worker, WorkerStep(w) \/ Crash(w) \/ Restart(w)
        PROVE  AckedIsDone'
    BY <2>1 DEF WorkerStep, CheckStop, Take, TimeOut, Succeed, Fail, Ack, AckError,
                Nack, Requeue, Crash, Restart
  <2>2. ASSUME UNCHANGED <<pc, raw, done>> PROVE AckedIsDone'
    BY <2>2
  <2> QED
    BY <2>1, <2>2 DEF Next, Enqueue, ReaperStep, ReaperStart, ReaperMove, ReaperEnd,
                      Shutdown, vars
<1>3. OnlyEnqueued'
  <2>1. CASE \E j \in Job : Enqueue(j)
    BY <2>1, EnqueueEffect DEF IInv, OnlyEnqueued, Known
  <2>2. CASE \E w \in Worker : Crash(w)
    BY <2>2, CrashEffect DEF IInv, OnlyEnqueued, Jobs
  <2>3. CASE UNCHANGED vars
    BY <2>3 DEF IInv, OnlyEnqueued, Known, Safe, Ids, InMemory, InHand, Jobs, vars,
                lists, history
  <2> QED
    BY <2>1, <2>2, <2>3, StepEffect DEF Next, IInv, OnlyEnqueued
<1> QED
  BY <1>1, <1>2, <1>3 DEF IInv

\* Types hold, a worker about to acknowledge has done its job, and nothing but
\* enqueued jobs is anywhere, in every reachable state.
THEOREM Invariance == Spec => []IInv
<1> QED BY InitInv, StepInv, PTL DEF Spec

-----------------------------------------------------------------------------
(* No silent loss *)

\* For any number of workers, jobs, crashes, lost replies and reaper runs, a job
\* leaves `done' and all the places it can be found in only when the worker that
\* holds it dies between the LREM of line 48 and the LPUSH of lines 52/54.
THEOREM NoSilentLossHolds == Spec => NoSilentLoss
<1> DEFINE Explained ==
      \A j \in Missing' \ Missing :
        \E w \in Worker : pc[w] = "requeue" /\ raw[w].id = j /\ pc'[w] = "crashed"
<1>1. IInv /\ [Next]_vars => [Explained]_vars
  <2> SUFFICES ASSUME IInv, Next PROVE Explained
    OBVIOUS
  <2>1. Missing = Jobs \ Safe /\ Missing' = Jobs' \ Safe'
    BY DEF Missing, Safe
  <2>2. CASE \E j \in Job : Enqueue(j)
    BY <2>1, <2>2, EnqueueEffect DEF IInv
  <2>3. ASSUME NEW w \in Worker, Crash(w) PROVE Explained
    BY <2>1, <2>3, CrashEffect DEF IInv, Jobs
  <2>4. CASE \/ \E w \in Worker : WorkerStep(w) \/ Restart(w)
             \/ ReaperStep \/ Shutdown
    BY <2>1, <2>4, StepEffect
  <2> QED BY <2>2, <2>3, <2>4 DEF Next
<1> QED
  BY <1>1, Invariance, PTL DEF Spec, NoSilentLoss

-----------------------------------------------------------------------------
(* Refinement *)

\* Empty lists are an abstract queue nobody has submitted to.
LEMMA InitRefines == Init => Abstract!Init
<1> SUFFICES ASSUME Init PROVE Abstract!Init
  OBVIOUS
<1>1. Jobs = {} /\ done = {} /\ Ids(dead) = {}
  BY DEF Init, Jobs, Ids, ToSet
<1> QED
  BY <1>1 DEF Lost, Missing, Abstract!Init

\* A step that changes nothing of what the abstract queue shows.
LEMMA StutterRefines ==
  ASSUME Jobs' = Jobs, done' = done, Ids(dead)' = Ids(dead), Known' = Known
  PROVE  UNCHANGED Abstract!vars
  BY DEF Abstract!vars, Lost, Missing, Known, Safe

\* Every command of the code is one step of the abstract queue, or none.
LEMMA StepRefines == IInv /\ [Next]_vars => [Abstract!Next]_(Abstract!vars)
<1> SUFFICES ASSUME IInv, [Next]_vars PROVE [Abstract!Next]_(Abstract!vars)
  OBVIOUS
<1>0. Lost = Jobs \ Known /\ Lost' = Jobs' \ Known'
  BY DEF Lost, Missing, Known, Safe
<1> USE DEF IInv, lists, history
<1>1. ASSUME NEW j \in Job, Enqueue(j) PROVE Abstract!Submit(j)
  <2>1. j \notin Jobs /\ j \notin Known
    BY <1>1 DEF Enqueue, OnlyEnqueued
  <2>2. Lost' = Lost
    <3>1. Jobs' = Jobs \cup {j} /\ Known' = Known \cup {j}
      BY <1>1, EnqueueEffect DEF Known
    <3> QED BY <1>0, <2>1, <3>1
  <2> QED BY <1>1, <2>1, <2>2, EnqueueEffect DEF Abstract!Submit
<1>2. ASSUME NEW w \in Worker, Succeed(w)
      PROVE  \E j \in Job : Abstract!Complete(j)
  <2>1. raw[w].id \in Job /\ raw[w].id \in InHand
    BY <1>2, LiveIsLive DEF Succeed, TypeOK, Goto, Holding, InHand
  <2>2. raw[w].id \in Jobs \ Lost
    BY <1>0, <2>1 DEF OnlyEnqueued, Known
  <2>3. Jobs' = Jobs /\ Known' = Known
    BY <1>2, StepEffect DEF WorkerStep
  <2>4. done' = done \cup {raw[w].id} /\ dead' = dead
    BY <1>2 DEF Succeed
  <2> QED BY <1>0, <2>1, <2>2, <2>3, <2>4 DEF Abstract!Complete, Ids
<1>3. ASSUME NEW w \in Worker, Requeue(w)
      PROVE  (\E j \in Job : Abstract!Bury(j)) \/ UNCHANGED Abstract!vars
  <2>1. raw[w] \in Live \cup Spent /\ raw[w].id \in InMemory
    BY <1>3 DEF Requeue, TypeOK, Goto, InMemory
  <2>2. raw[w].id \in Job /\ raw[w].id \in Jobs \ Lost
    BY <1>0, <2>1, LiveIsLive DEF OnlyEnqueued, Known, Safe
  <2>3. Jobs' = Jobs /\ Known' = Known
    BY <1>3, StepEffect DEF WorkerStep
  <2>4. done' = done
    BY <1>3 DEF Requeue
  <2>5. CASE raw[w].attempts >= MAX_RETRIES
    <3>1. raw[w] \in Spent /\ dead' = <<raw[w]>> \o dead
      BY <2>1, <2>5, <1>3, LiveIsLive DEF Requeue
    <3>2. Ids(dead)' = Ids(dead) \cup {raw[w].id}
      BY <3>1, IdsPush DEF TypeOK
    <3> QED BY <1>0, <2>2, <2>3, <2>4, <3>2 DEF Abstract!Bury
  <2>6. CASE ~ (raw[w].attempts >= MAX_RETRIES)
    <3>1. Ids(dead)' = Ids(dead)
      BY <2>6, <1>3 DEF Requeue, Ids
    <3> QED BY <2>3, <2>4, <3>1, StutterRefines
  <2> QED BY <2>5, <2>6
<1>4. ASSUME NEW w \in Worker, Crash(w)
      PROVE  (\E j \in Job : Abstract!Lose(j)) \/ UNCHANGED Abstract!vars
  <2>1. /\ Jobs' = Jobs /\ done' = done /\ Ids(dead)' = Ids(dead)
        /\ Known' \subseteq Known /\ \A j \in Known \ Known' : raw[w].id = j
    BY <1>4, CrashEffect DEF Jobs, Ids
  <2>2. CASE Known' = Known
    BY <2>1, <2>2, StutterRefines
  <2>3. CASE Known' # Known
    <3> DEFINE j == raw[w].id
    <3>1. Known = Known' \cup {j} /\ j \in Known /\ j \notin Known'
      BY <2>1, <2>3
    <3>2. j \in Jobs /\ Jobs \subseteq Job
      BY <3>1, ElementOfSeq, LenProperties DEF OnlyEnqueued, TypeOK, Jobs, ToSet
    <3>3. j \notin done /\ j \notin Ids(dead) /\ j \notin Lost
      BY <1>0, <2>1, <3>1 DEF Known, Safe
    <3>4. Lost' = Lost \cup {j}
      BY <1>0, <2>1, <3>1, <3>2
    <3> QED BY <2>1, <3>2, <3>3, <3>4 DEF Abstract!Lose
  <2> QED BY <2>2, <2>3
<1>5. ASSUME NEW w \in Worker,
             \/ CheckStop(w) \/ Take(w) \/ TimeOut(w) \/ Fail(w) \/ Ack(w)
             \/ AckError(w) \/ Nack(w) \/ Restart(w)
      PROVE  UNCHANGED Abstract!vars
  <2>1. Jobs' = Jobs /\ Known' = Known
    BY <1>5, StepEffect DEF WorkerStep
  <2>2. done' = done /\ dead' = dead
    BY <1>5 DEF CheckStop, Take, TimeOut, Fail, Ack, AckError, Nack, Restart
  <2> QED BY <2>1, <2>2, StutterRefines DEF Ids
<1>6. ASSUME ReaperStep \/ Shutdown PROVE UNCHANGED Abstract!vars
  <2>1. Jobs' = Jobs /\ Known' = Known
    BY <1>6, StepEffect
  <2>2. done' = done /\ dead' = dead
    BY <1>6 DEF ReaperStep, ReaperStart, ReaperMove, ReaperEnd, Shutdown
  <2> QED BY <2>1, <2>2, StutterRefines DEF Ids
<1>7. ASSUME UNCHANGED vars PROVE UNCHANGED Abstract!vars
  BY <1>7, StutterRefines DEF vars, Jobs, Known, Safe, Ids, InMemory, InHand
<1> QED
  BY <1>1, <1>2, <1>3, <1>4, <1>5, <1>6, <1>7
     DEF Next, WorkerStep, Abstract!Next

\* The three lists, with their workers, reaper and faults, implement the
\* abstract at-least-once queue: every step submits, completes, buries or loses
\* one job, or changes none of that.
THEOREM Refinement == Spec => ImplementsJobQueue
<1> QED
  BY InitRefines, StepRefines, Invariance, PTL
     DEF Spec, ImplementsJobQueue, Abstract!Spec

-----------------------------------------------------------------------------
(* One place, one owner, attempts and order *)

\* Job j is in a list at most once.
Once(s, j) == \A m, n \in DOMAIN s : s[m].id = j /\ s[n].id = j => m = n

\* LPUSH of another job, or of one that is not in the list ...
LEMMA OncePush ==
  ASSUME NEW S, NEW s \in Seq(S), NEW e \in S, NEW j, Once(s, j), e.id = j => j \notin Ids(s)
  PROVE  Once(<<e>> \o s, j)
<1>1. <<e>> \in Seq(S) /\ Len(<<e>>) = 1 /\ <<e>>[1] = e
  OBVIOUS
<1>2. PICK u : u = <<e>> \o s
  OBVIOUS
<1>3. /\ Len(s) \in Nat /\ DOMAIN s = 1 .. Len(s) /\ DOMAIN u = 1 .. 1 + Len(s)
      /\ \A i \in 1 .. 1 + Len(s) : u[i] = IF i <= 1 THEN e ELSE s[i - 1]
  BY <1>1, <1>2, ConcatProperties, LenProperties
<1>4. \A i \in DOMAIN u : i = 1 \/ (i - 1 \in DOMAIN s /\ u[i] = s[i - 1] /\ i = (i - 1) + 1)
  BY <1>3
<1>5. u[1] = e
  BY <1>3
<1>6. \A i \in DOMAIN s : s[i].id = j => e.id # j
  BY DEF Ids, ToSet
<1>7. ASSUME NEW i \in DOMAIN u, NEW k \in DOMAIN u, u[i].id = j, u[k].id = j
      PROVE  i = k
  <2>1. CASE i = 1 \/ k = 1
    BY <1>4, <1>5, <1>6, <1>7, <2>1
  <2>2. CASE i # 1 /\ k # 1
    <3>1. i - 1 = k - 1
      BY <1>4, <1>7, <2>2 DEF Once
    <3> QED BY <1>4, <2>2, <3>1
  <2> QED BY <2>1, <2>2
<1> QED
  BY <1>2, <1>7 DEF Once

\* ... RPOP, which takes a job out altogether ...
LEMMA OncePop ==
  ASSUME NEW S, NEW s \in Seq(S), s # <<>>, NEW j, Once(s, j)
  PROVE  Once(Front(s), j) /\ (Last(s).id = j => j \notin Ids(Front(s)))
<1>1. PICK n \in Nat \ {0} : n = Len(s)
  BY EmptySeq, LenProperties
<1>2. PICK t : t = Front(s)
  OBVIOUS
<1>3. /\ DOMAIN s = 1 .. n /\ DOMAIN t = 1 .. n - 1 /\ Last(s) = s[n]
      /\ \A i \in 1 .. n - 1 : t[i] = s[i]
  BY <1>1, <1>2, FrontOf, LenProperties DEF Last
<1>4. \A i \in DOMAIN t : i \in DOMAIN s /\ t[i] = s[i] /\ i # n
  BY <1>3
<1>5. n \in DOMAIN s
  BY <1>3
<1> QED
  BY <1>2, <1>3, <1>4, <1>5 DEF Once, Ids, ToSet

\* ... and LREM leave it there at most once.
LEMMA OnceRemove ==
  ASSUME NEW S, NEW s \in Seq(S), NEW e, NEW j, Once(s, j)
  PROVE  /\ Once(RemoveFirst(s, e), j)
         /\ e \in ToSet(s) /\ e.id = j => j \notin Ids(RemoveFirst(s, e))
<1>1. CASE e \notin ToSet(s)
  BY <1>1, LremNone
<1>2. CASE e \in ToSet(s)
  <2>1. PICK k \in 1 .. Len(s) : s[k] = e /\ RemoveFirst(s, e) = RemoveAt(s, k)
    BY <1>2, LremAt
  <2>2. PICK n \in Nat : n = Len(s)
    BY LenProperties
  <2>3. PICK t : t = RemoveAt(s, k)
    OBVIOUS
  <2>4. /\ DOMAIN s = 1 .. n /\ DOMAIN t = 1 .. n - 1
        /\ \A i \in 1 .. n - 1 : t[i] = IF i < k THEN s[i] ELSE s[i + 1]
    BY <2>2, <2>3, CutOut, LenProperties
  <2>5. PICK at : at = [i \in 1 .. n - 1 |-> IF i < k THEN i ELSE i + 1]
    OBVIOUS
  <2>6. \A i \in DOMAIN t : at[i] \in DOMAIN s /\ t[i] = s[at[i]] /\ at[i] # k
    BY <2>2, <2>4, <2>5
  <2>7. \A i, m \in DOMAIN t : at[i] = at[m] => i = m
    BY <2>2, <2>4, <2>5
  <2>8. k \in DOMAIN s
    BY <2>2, <2>4
  <2> QED
    BY <2>1, <2>3, <2>6, <2>7, <2>8 DEF Once, Ids, ToSet
<1> QED
  BY <1>1, <1>2

-----------------------------------------------------------------------------
\* The positions in which a worker has a job.
Owning == Holding \cup {"requeue"}

\* The jobs in some list.
Listed == Ids(queue) \cup Ids(processing) \cup Ids(dead)

\* The lists and the memory of a worker between LREM and LPUSH have job j once,
\* all together.
OnePlace(j) ==
  /\ Once(queue, j) /\ Once(processing, j) /\ Once(dead, j)
  /\ j \in Ids(queue) => j \notin Ids(processing) \cup Ids(dead) \cup InMemory
  /\ j \in Ids(processing) => j \notin Ids(dead) \cup InMemory
  /\ j \in Ids(dead) => j \notin InMemory

\* One worker at most has job j.  What it handles is the very entry that is in
\* PROCESSING, unless the LREM of line 46 took that out although it failed.
OneOwner(j) ==
  /\ \A v, w \in Worker :
       pc[v] \in Owning /\ pc[w] \in Owning /\ raw[v].id = j /\ raw[w].id = j => v = w
  /\ \A w \in Worker :
       pc[w] \in Holding /\ raw[w].id = j =>
         \/ raw[w] \in ToSet(processing)
         \/ pc[w] = "nack" /\ j \notin Listed

\* UniqueUnlessStolen, and why the reaper can only break it by stealing.
OwnersInv == \A j \in Job \ stolen : OnePlace(j) /\ OneOwner(j)

\* Every text of an entry, in a list or in the hands of a worker.
Entries == ToSet(queue) \cup ToSet(processing) \cup ToSet(dead)
             \cup {raw[w] : w \in {v \in Worker : pc[v] \in Owning}}

\* What AttemptsCountFailures says of one entry.
Counted(e) ==
  /\ e.attempts <= failures[e.id]
  /\ e.id \notin stolen => e.attempts = failures[e.id]

\* AttemptsCountFailures, also of what is in hand; nothing failed before it was enqueued.
CountsInv ==
  /\ \A e \in Entries : Counted(e)
  /\ \A j \in Job \ Jobs : failures[j] = 0

\* First tries stand in QUEUE in the order of their enqueues.
InOrder ==
  \A m, n \in DOMAIN queue :
    m < n /\ FirstTry(queue[m]) /\ FirstTry(queue[n]) /\ queue[m].id # queue[n].id
      => Before(queue[n].id, queue[m].id)

\* Whatever else is pushed has an attempt counted, or was reaped.
OrderInv ==
  /\ \A w \in Worker : pc[w] = "requeue" => raw[w].attempts > 0
  /\ InOrder

-----------------------------------------------------------------------------
\* InMemory, as an existential.
LEMMA InMemoryIs ==
  ASSUME NEW j
  PROVE  j \in InMemory <=> \E w \in Worker : pc[w] = "requeue" /\ raw[w].id = j
BY DEF InMemory

\* Steps that change no list, and make no worker an owner.
LEMMA OwnersKept ==
  ASSUME OwnersInv, NEW j \in Job \ stolen,
         UNCHANGED <<queue, processing, dead>>,
         \A w \in Worker : pc'[w] \in Owning =>
            pc[w] \in Owning /\ raw'[w] = raw[w] /\ (pc'[w] = "requeue" <=> pc[w] = "requeue")
              /\ (pc[w] = "nack" => pc'[w] = "nack")
  PROVE  OnePlace(j)' /\ OneOwner(j)'
<1>1. OnePlace(j) /\ OneOwner(j)
  BY DEF OwnersInv
<1>2. InMemory' \subseteq InMemory
  BY DEF InMemory, Owning
<1>3. /\ Ids(queue)' = Ids(queue) /\ Ids(processing)' = Ids(processing) /\ Ids(dead)' = Ids(dead)
      /\ Listed' = Listed
  BY DEF Ids, Listed
<1>4. OnePlace(j)'
  BY <1>1, <1>2, <1>3 DEF OnePlace, Once
<1>5. OneOwner(j)'
  <2>1. \A v, w \in Worker :
          pc'[v] \in Owning /\ pc'[w] \in Owning /\ raw'[v].id = j /\ raw'[w].id = j => v = w
    BY <1>1 DEF OneOwner
  <2>2. ASSUME NEW w \in Worker, pc'[w] \in Holding, raw'[w].id = j
        PROVE  \/ raw'[w] \in ToSet(processing)'
               \/ pc'[w] = "nack" /\ j \notin Listed'
    <3>1. pc[w] \in Holding /\ raw'[w] = raw[w] /\ (pc[w] = "nack" => pc'[w] = "nack")
      BY <2>2 DEF Owning, Holding
    <3> QED
      BY <1>1, <1>3, <2>2, <3>1 DEF OneOwner
  <2> QED
    BY <2>1, <2>2 DEF OneOwner
<1> QED
  BY <1>4, <1>5

\* Every command and fault keeps a job that is not stolen in one place and with
\* one owner.  Who takes it from QUEUE finds no other owner, who removes it is its
\* owner, and the reaper passes over it while its owner handles it.
LEMMA OwnersStep ==
  ASSUME IInv, OwnersInv, [Next]_vars
  PROVE  OwnersInv'
<1> SUFFICES ASSUME NEW j \in Job \ stolen'
             PROVE  OnePlace(j)' /\ OneOwner(j)'
  BY DEF OwnersInv
<1>0. /\ stolen \subseteq stolen' /\ j \in Job \ stolen /\ TypeOK
      /\ OnePlace(j) /\ OneOwner(j)
  <2>1. stolen \subseteq stolen'
    BY DEF Next, WorkerStep, ReaperStep, Enqueue, CheckStop, Take, TimeOut, Succeed, Fail, Ack,
           AckError, Nack, Requeue, Crash, Restart, ReaperStart, ReaperMove, ReaperEnd, Shutdown, vars
  <2> QED
    BY <2>1 DEF IInv, OwnersInv
<1>1. ASSUME NEW k \in Job, Enqueue(k)
      PROVE  OnePlace(j)' /\ OneOwner(j)'
  <2>1. PICK e : e = [id |-> k, attempts |-> 0]
    OBVIOUS
  <2>2. e \in Live /\ e.id = k /\ queue \in Seq(Live) /\ queue' = <<e>> \o queue
        /\ UNCHANGED <<processing, dead, pc, raw>>
    BY <1>0, <1>1, <2>1, LiveIsLive DEF Enqueue, TypeOK
  <2>3. k \notin Known
    BY <1>1 DEF Enqueue, IInv, OnlyEnqueued
  <2>4. Ids(queue)' = {k} \cup Ids(queue)
    BY <2>2, IdsPush
  <2>5. Ids(processing)' = Ids(processing) /\ Ids(dead)' = Ids(dead) /\ InMemory' = InMemory
    BY <2>2 DEF Ids, InMemory
  <2>6. Once(queue, j)'
    BY <1>0, <2>2, <2>3, OncePush DEF OnePlace, Known, Safe, Once
  <2>7. OnePlace(j)'
    BY <1>0, <2>2, <2>3, <2>4, <2>5, <2>6 DEF OnePlace, Known, Safe, Once
  <2>8. ASSUME NEW w \in Worker, pc[w] \in Holding
        PROVE  raw[w].id # k
    BY <2>3, <2>8 DEF Known, InHand
  <2>9. OneOwner(j)'
    BY <1>0, <2>2, <2>4, <2>5, <2>8 DEF OneOwner, Listed
  <2> QED
    BY <2>7, <2>9
<1>2. ASSUME NEW w \in Worker,
             CheckStop(w) \/ TimeOut(w) \/ Succeed(w) \/ Fail(w) \/ Restart(w) \/ Crash(w)
      PROVE  OnePlace(j)' /\ OneOwner(j)'
  <2>1. UNCHANGED <<queue, processing, dead>>
    BY <1>2 DEF CheckStop, TimeOut, Succeed, Fail, Restart, Crash, lists
  <2>2. ASSUME NEW v \in Worker, pc'[v] \in Owning
        PROVE  /\ pc[v] \in Owning /\ raw'[v] = raw[v]
               /\ (pc'[v] = "requeue" <=> pc[v] = "requeue") /\ (pc[v] = "nack" => pc'[v] = "nack")
    BY <1>0, <1>2, <2>2
    DEF CheckStop, TimeOut, Succeed, Fail, Restart, Crash, Goto, TypeOK, Owning, Holding
  <2> QED
    BY <1>0, <2>1, <2>2, OwnersKept
<1>3. ASSUME NEW w \in Worker, Take(w)
      PROVE  OnePlace(j)' /\ OneOwner(j)'
  <2>1. PICK e : e = Last(queue)
    OBVIOUS
  <2>2. /\ queue \in Seq(Live) /\ queue # <<>> /\ queue' = Front(queue)
        /\ e \in Live /\ processing \in Seq(Live) /\ processing' = <<e>> \o processing
        /\ ToSet(queue) = {e} \cup ToSet(Front(queue))
        /\ dead' = dead /\ pc[w] = "poll" /\ pc' = [pc EXCEPT ![w] = "handle"]
        /\ raw' = [raw EXCEPT ![w] = e]
    BY <1>0, <1>3, <2>1, PopRight DEF Take, Goto, TypeOK
  <2>3. Ids(queue) = {e.id} \cup Ids(queue)' /\ Ids(processing)' = {e.id} \cup Ids(processing)
        /\ Ids(dead)' = Ids(dead) /\ InMemory' = InMemory
        /\ ToSet(processing)' = {e} \cup ToSet(processing)
    <3>1. Ids(queue) = {e.id} \cup Ids(queue)' /\ Ids(processing)' = {e.id} \cup Ids(processing)
      BY <2>1, <2>2, IdsPop, IdsPush
    <3>2. Ids(dead)' = Ids(dead) /\ InMemory' = InMemory
      BY <1>0, <2>2 DEF Ids, InMemory, TypeOK
    <3> QED
      BY <2>2, <3>1, <3>2, PushLeft
  <2>4. Once(queue, j)' /\ (e.id = j => j \notin Ids(queue)')
    <3>1. Once(Front(queue), j) /\ (e.id = j => j \notin Ids(Front(queue)))
      BY <1>0, <2>1, <2>2, OncePop DEF OnePlace
    <3> QED
      BY <2>2, <3>1 DEF Once, Ids
  <2>5. Once(processing, j)'
    <3>1. e.id = j => j \notin Ids(processing)
      BY <1>0, <2>3 DEF OnePlace
    <3>2. Once(<<e>> \o processing, j)
      BY <1>0, <2>2, <3>1, OncePush DEF OnePlace
    <3> QED
      BY <2>2, <3>2 DEF Once
  <2>6. OnePlace(j)'
    BY <1>0, <2>2, <2>3, <2>4, <2>5 DEF OnePlace, Once
  <2>7. ASSUME e.id = j, NEW v \in Worker, pc[v] \in Owning, raw[v].id = j
        PROVE  FALSE
    <3>1. j \notin Ids(processing) \cup Ids(dead) \cup InMemory /\ j \in Listed
      BY <1>0, <2>3, <2>7 DEF OnePlace, Listed
    <3>2. pc[v] \in Holding
      BY <2>7, <3>1 DEF Owning, InMemory
    <3>3. raw[v] \in ToSet(processing)
      BY <1>0, <2>7, <3>1, <3>2 DEF OneOwner
    <3> QED
      BY <2>7, <3>1, <3>3 DEF Ids
  <2>8. /\ pc'[w] = "handle" /\ raw'[w] = e
        /\ \A v \in Worker \ {w} : pc'[v] = pc[v] /\ raw'[v] = raw[v]
    BY <1>0, <2>2 DEF TypeOK
  <2>9. OneOwner(j)'
    <3>1. \A v, x \in Worker :
            pc'[v] \in Owning /\ pc'[x] \in Owning /\ raw'[v].id = j /\ raw'[x].id = j => v = x
      BY <1>0, <2>7, <2>8 DEF OneOwner
    <3>2. ASSUME NEW v \in Worker, pc'[v] \in Holding, raw'[v].id = j
          PROVE  \/ raw'[v] \in ToSet(processing)'
                 \/ pc'[v] = "nack" /\ j \notin Listed'
      <4>1. CASE v = w
        BY <2>3, <2>8, <4>1
      <4>2. CASE v # w
        BY <1>0, <2>3, <2>8, <3>2, <4>2 DEF OneOwner, Listed
      <4> QED
        BY <4>1, <4>2
    <3> QED
      BY <3>1, <3>2 DEF OneOwner
  <2> QED
    BY <2>6, <2>9
<1>4. ASSUME NEW w \in Worker, Ack(w) \/ AckError(w)
      PROVE  OnePlace(j)' /\ OneOwner(j)'
  <2>1. PICK e : e = raw[w]
    OBVIOUS
  <2>2. /\ processing \in Seq(Live) /\ pc[w] = "ack" /\ e \in Live
        /\ processing' \in {processing, RemoveFirst(processing, e)}
        /\ UNCHANGED <<queue, dead>>
        /\ \A v \in Worker \ {w} : pc'[v] = pc[v] /\ raw'[v] = raw[v]
        /\ \/ pc'[w] = "check" /\ raw'[w] = None
           \/ pc'[w] = "nack" /\ raw'[w] = e
    BY <1>0, <1>4, <2>1 DEF Ack, AckError, Goto, TypeOK, Holding
  <2>3. /\ Ids(processing)' \subseteq Ids(processing) /\ Once(processing, j)'
        /\ \A x \in ToSet(processing) : x # e => x \in ToSet(processing)'
        /\ e.id = j /\ e \in ToSet(processing) /\ e \notin ToSet(processing)' =>
             j \notin Ids(processing)'
    <3>1. /\ Ids(RemoveFirst(processing, e)) \subseteq Ids(processing)
          /\ ToSet(processing) \ {e} \subseteq ToSet(RemoveFirst(processing, e))
          /\ Once(processing, j) => Once(RemoveFirst(processing, e), j)
          /\ Once(processing, j) /\ e \in ToSet(processing) /\ e.id = j =>
               j \notin Ids(RemoveFirst(processing, e))
      BY <2>2, RemoveOne, IdsRemove, OnceRemove
    <3>2. CASE processing' = processing
      BY <1>0, <3>2 DEF OnePlace, Once, Ids
    <3>3. CASE processing' = RemoveFirst(processing, e)
      BY <1>0, <3>1, <3>3 DEF OnePlace, Once
    <3> QED
      BY <2>2, <3>2, <3>3
  <2>4. Ids(queue)' = Ids(queue) /\ Ids(dead)' = Ids(dead) /\ InMemory' = InMemory
    BY <2>2 DEF Ids, InMemory
  <2>5. OnePlace(j)'
    BY <1>0, <2>2, <2>3, <2>4 DEF OnePlace, Once
  <2>6. ASSUME NEW v \in Worker, NEW x \in Worker,
               pc'[v] \in Owning, pc'[x] \in Owning, raw'[v].id = j, raw'[x].id = j
        PROVE  v = x
    BY <1>0, <2>1, <2>2, <2>6 DEF OneOwner, Owning, Holding
  <2>7. ASSUME NEW v \in Worker, pc'[v] \in Holding, raw'[v].id = j
        PROVE  \/ raw'[v] \in ToSet(processing)'
               \/ pc'[v] = "nack" /\ j \notin Listed'
    <3>1. CASE v = w
      <4>1. pc'[w] = "nack" /\ raw'[w] = e /\ e.id = j
        BY <2>2, <2>7, <3>1 DEF Holding
      <4>2. e \in ToSet(processing)
        BY <1>0, <2>1, <2>2, <4>1 DEF OneOwner, Holding
      <4>3. j \in Ids(processing)
        BY <4>1, <4>2 DEF Ids
      <4> QED
        BY <1>0, <2>3, <2>4, <3>1, <4>1, <4>2, <4>3 DEF OnePlace, Listed
    <3>2. CASE v # w
      <4>1. pc[v] \in Holding /\ raw[v].id = j /\ raw'[v] = raw[v] /\ pc'[v] = pc[v]
        BY <2>2, <2>7, <3>2
      <4>2. raw[v] # e
        BY <1>0, <2>1, <2>2, <3>2, <4>1 DEF OneOwner, Owning, Holding
      <4> QED
        BY <1>0, <2>3, <2>4, <4>1, <4>2 DEF OneOwner, Listed
    <3> QED
      BY <3>1, <3>2
  <2> QED
    BY <2>5, <2>6, <2>7 DEF OneOwner
<1>5. ASSUME NEW w \in Worker, Nack(w)
      PROVE  OnePlace(j)' /\ OneOwner(j)'
  <2>1. PICK e, f : e = raw[w] /\ f = Bumped(raw[w])
    OBVIOUS
  <2>2. /\ processing \in Seq(Live) /\ pc[w] = "nack" /\ e \in Live /\ f.id = e.id
        /\ processing' = RemoveFirst(processing, e)
        /\ UNCHANGED <<queue, dead>>
        /\ \A v \in Worker \ {w} : pc'[v] = pc[v] /\ raw'[v] = raw[v]
        /\ pc'[w] = "requeue" /\ raw'[w] = f
    BY <1>0, <1>5, <2>1, LiveIsLive DEF Nack, Goto, TypeOK, Holding
  <2>3. /\ Ids(processing)' \subseteq Ids(processing) /\ Once(processing, j)'
        /\ \A x \in ToSet(processing) : x # e => x \in ToSet(processing)'
        /\ e \in ToSet(processing) /\ e.id = j => j \notin Ids(processing)'
    BY <1>0, <2>2, RemoveOne, IdsRemove, OnceRemove DEF OnePlace
  <2>4. Ids(queue)' = Ids(queue) /\ Ids(dead)' = Ids(dead) /\ InMemory' = InMemory \cup {e.id}
    BY <2>2 DEF Ids, InMemory
  <2>5. e.id = j => j \notin Listed'
    <3>1. ASSUME e.id = j PROVE j \notin Listed'
      <4>1. CASE e \in ToSet(processing)
        <5>1. j \in Ids(processing)
          BY <3>1, <4>1 DEF Ids
        <5> QED
          BY <1>0, <2>3, <2>4, <3>1, <4>1, <5>1 DEF OnePlace, Listed
      <4>2. CASE e \notin ToSet(processing)
        <5>1. j \notin Listed
          BY <1>0, <2>1, <2>2, <3>1, <4>2 DEF OneOwner, Holding
        <5> QED
          BY <2>3, <2>4, <5>1 DEF Listed
      <4> QED
        BY <4>1, <4>2
    <3> QED
      BY <3>1
  <2>6. OnePlace(j)'
    BY <1>0, <2>2, <2>3, <2>4, <2>5 DEF OnePlace, Once, Listed
  <2>7. ASSUME NEW v \in Worker, NEW x \in Worker,
               pc'[v] \in Owning, pc'[x] \in Owning, raw'[v].id = j, raw'[x].id = j
        PROVE  v = x
    BY <1>0, <2>1, <2>2, <2>7 DEF OneOwner, Owning, Holding
  <2>8. ASSUME NEW v \in Worker, pc'[v] \in Holding, raw'[v].id = j
        PROVE  \/ raw'[v] \in ToSet(processing)'
               \/ pc'[v] = "nack" /\ j \notin Listed'
    <3>1. v # w /\ pc[v] \in Holding /\ raw[v].id = j /\ raw'[v] = raw[v] /\ pc'[v] = pc[v]
      BY <2>2, <2>8 DEF Holding
    <3>2. raw[v] # e
      BY <1>0, <2>1, <2>2, <3>1 DEF OneOwner, Owning, Holding
    <3> QED
      BY <1>0, <2>3, <2>4, <3>1, <3>2 DEF OneOwner, Listed
  <2> QED
    BY <2>6, <2>7, <2>8 DEF OneOwner
<1>6. ASSUME NEW w \in Worker, Requeue(w)
      PROVE  OnePlace(j)' /\ OneOwner(j)'
  <2>1. PICK e : e = raw[w]
    OBVIOUS
  <2>2. /\ pc[w] = "requeue" /\ pc'[w] = "check" /\ processing' = processing
        /\ \A v \in Worker \ {w} : pc'[v] = pc[v] /\ raw'[v] = raw[v]
        /\ e \in Live \cup Spent
    BY <1>0, <1>6, <2>1 DEF Requeue, Goto, TypeOK
  <2>3. /\ Ids(processing)' = Ids(processing)
        /\ \A i \in Job : i # e.id => (i \in InMemory' <=> i \in InMemory)
        /\ e.id \in InMemory
    BY <2>1, <2>2 DEF Ids, InMemory
  <2>4. e.id = j => j \notin InMemory' /\ j \notin Listed
    BY <1>0, <2>1, <2>2, <2>3 DEF OnePlace, OneOwner, InMemory, Listed, Owning
  <2>5. \/ /\ e \in Spent /\ dead' = <<e>> \o dead /\ queue' = queue
           /\ Ids(dead)' = {e.id} \cup Ids(dead) /\ Ids(queue)' = Ids(queue)
           /\ Once(dead, j)' /\ Once(queue, j)'
        \/ /\ e \in Live /\ queue' = <<e>> \o queue /\ dead' = dead
           /\ Ids(queue)' = {e.id} \cup Ids(queue) /\ Ids(dead)' = Ids(dead)
           /\ Once(dead, j)' /\ Once(queue, j)'
    <3>1. CASE e.attempts >= MAX_RETRIES
      <4>1. e \in Spent /\ dead' = <<e>> \o dead /\ queue' = queue /\ dead \in Seq(Spent)
        BY <1>0, <1>6, <2>1, <2>2, <3>1, LiveIsLive DEF Requeue, TypeOK
      <4>2. Once(<<e>> \o dead, j)
        BY <1>0, <2>4, <4>1, OncePush DEF OnePlace, Listed
      <4>3. Once(dead, j)' /\ Once(queue, j)'
        BY <1>0, <4>1, <4>2 DEF OnePlace, Once
      <4> QED
        BY <4>1, <4>3, IdsPush DEF Ids
    <3>2. CASE ~ (e.attempts >= MAX_RETRIES)
      <4>1. e \in Live /\ queue' = <<e>> \o queue /\ dead' = dead /\ queue \in Seq(Live)
        BY <1>0, <1>6, <2>1, <2>2, <3>2, LiveIsLive DEF Requeue, TypeOK
      <4>2. Once(<<e>> \o queue, j)
        BY <1>0, <2>4, <4>1, OncePush DEF OnePlace, Listed
      <4>3. Once(dead, j)' /\ Once(queue, j)'
        BY <1>0, <4>1, <4>2 DEF OnePlace, Once
      <4> QED
        BY <4>1, <4>3, IdsPush DEF Ids
    <3> QED
      BY <3>1, <3>2
  <2>6. OnePlace(j)'
    BY <1>0, <2>2, <2>3, <2>4, <2>5 DEF OnePlace, Once, Listed
  <2>7. ASSUME NEW v \in Worker, NEW x \in Worker,
               pc'[v] \in Owning, pc'[x] \in Owning, raw'[v].id = j, raw'[x].id = j
        PROVE  v = x
    BY <1>0, <2>2, <2>7 DEF OneOwner, Owning, Holding
  <2>8. ASSUME NEW v \in Worker, pc'[v] \in Holding, raw'[v].id = j
        PROVE  \/ raw'[v] \in ToSet(processing)'
               \/ pc'[v] = "nack" /\ j \notin Listed'
    <3>1. v # w /\ pc[v] \in Holding /\ raw[v].id = j /\ raw'[v] = raw[v] /\ pc'[v] = pc[v]
      BY <2>2, <2>8 DEF Holding
    <3>2. e.id # j
      BY <1>0, <2>1, <2>2, <3>1 DEF OneOwner, Owning, Holding
    <3> QED
      BY <1>0, <2>2, <2>3, <2>5, <3>1, <3>2 DEF OneOwner, Listed
  <2> QED
    BY <2>6, <2>7, <2>8 DEF OneOwner
<1>7. ASSUME ReaperMove
      PROVE  OnePlace(j)' /\ OneOwner(j)'
  <2>1. PICK e : e = Last(processing)
    OBVIOUS
  <2>2. /\ processing \in Seq(Live) /\ processing # <<>> /\ processing' = Front(processing)
        /\ e \in Live /\ queue \in Seq(Live) /\ queue' = <<e>> \o queue
        /\ ToSet(processing) = {e} \cup ToSet(Front(processing))
        /\ UNCHANGED <<dead, pc, raw>>
        /\ e.id = j => Holders(e) = {}
    BY <1>0, <1>7, <2>1, PopRight DEF ReaperMove, Reap, TypeOK
  <2>3. Ids(processing) = {e.id} \cup Ids(processing)' /\ Ids(queue)' = {e.id} \cup Ids(queue)
        /\ Ids(dead)' = Ids(dead) /\ InMemory' = InMemory
    <3>1. Ids(processing) = {e.id} \cup Ids(processing)' /\ Ids(queue)' = {e.id} \cup Ids(queue)
      BY <2>1, <2>2, IdsPop, IdsPush
    <3>2. Ids(dead)' = Ids(dead) /\ InMemory' = InMemory
      BY <2>2 DEF Ids, InMemory
    <3> QED
      BY <3>1, <3>2
  <2>4. Once(processing, j)' /\ (e.id = j => j \notin Ids(processing)')
    <3>1. Once(Front(processing), j) /\ (e.id = j => j \notin Ids(Front(processing)))
      BY <1>0, <2>1, <2>2, OncePop DEF OnePlace
    <3> QED
      BY <2>2, <3>1 DEF Once, Ids
  <2>5. Once(queue, j)'
    <3>1. e.id = j => j \notin Ids(queue)
      BY <1>0, <2>3 DEF OnePlace
    <3>2. Once(<<e>> \o queue, j)
      BY <1>0, <2>2, <3>1, OncePush DEF OnePlace
    <3> QED
      BY <2>2, <3>2 DEF Once
  <2>6. OnePlace(j)'
    BY <1>0, <2>2, <2>3, <2>4, <2>5 DEF OnePlace, Once
  <2>7. ASSUME NEW w \in Worker, pc[w] \in Holding, raw[w].id = j
        PROVE  e.id # j
    <3> SUFFICES ASSUME e.id = j PROVE FALSE
      OBVIOUS
    <3>1. j \in Ids(processing) /\ j \in Listed
      BY <2>3 DEF Listed
    <3>2. raw[w] \in ToSet(processing)
      BY <1>0, <2>7, <3>1 DEF OneOwner
    <3>3. raw[w] \notin ToSet(processing)'
      BY <2>3, <2>4, <2>7 DEF Ids
    <3>4. raw[w] = e
      BY <2>2, <3>2, <3>3
    <3> QED
      BY <2>2, <2>7, <3>4 DEF Holders
  <2>8. OneOwner(j)'
    <3>1. ASSUME NEW w \in Worker, pc'[w] \in Holding, raw'[w].id = j
          PROVE  \/ raw'[w] \in ToSet(processing)'
                 \/ pc'[w] = "nack" /\ j \notin Listed'
      <4>1. e.id # j
        BY <2>2, <2>7, <3>1
      <4> QED
        BY <1>0, <2>2, <2>3, <3>1, <4>1 DEF OneOwner, Listed
    <3> QED
      BY <1>0, <2>2, <3>1 DEF OneOwner
  <2> QED
    BY <2>6, <2>8
<1>8. ASSUME ReaperStart \/ ReaperEnd \/ Shutdown \/ UNCHANGED vars
      PROVE  OnePlace(j)' /\ OneOwner(j)'
  <2>1. UNCHANGED <<queue, processing, dead>> /\ UNCHANGED <<pc, raw>>
    BY <1>8 DEF ReaperStart, ReaperEnd, Shutdown, vars, lists
  <2> QED
    BY <1>0, <2>1, OwnersKept
<1> QED
  BY <1>1, <1>2, <1>3, <1>4, <1>5, <1>6, <1>7, <1>8 DEF Next, WorkerStep, ReaperStep

-----------------------------------------------------------------------------
(* Copies *)

\* A set without two elements has at most one.
LEMMA AtMostOne ==
  ASSUME NEW S, \A x, y \in S : x = y
  PROVE  Cardinality(S) \in 0 .. 1 /\ (S = {} => Cardinality(S) = 0)
<1>1. CASE S = {}
  BY <1>1, FS_EmptySet
<1>2. CASE S # {}
  <2>1. PICK x \in S : S = {x}
    BY <1>2
  <2>2. Cardinality({x}) = 1
    BY FS_Singleton
  <2>3. Cardinality(S) = 1
    BY <2>1, <2>2
  <2> QED
    BY <1>2, <2>3
<1> QED
  BY <1>1, <1>2

\* The number of times a job is in a list.
LEMMA OnceCounts ==
  ASSUME NEW s, NEW j, Once(s, j)
  PROVE  LET n == Cardinality({i \in DOMAIN s : s[i].id = j})
         IN  n \in 0 .. 1 /\ (j \notin Ids(s) => n = 0)
<1> DEFINE I == {i \in DOMAIN s : s[i].id = j}
<1>1. \A x, y \in I : x = y
  BY DEF Once
<1>2. j \notin Ids(s) => I = {}
  BY DEF Ids, ToSet
<1> HIDE DEF I
<1>3. Cardinality(I) \in 0 .. 1 /\ (I = {} => Cardinality(I) = 0)
  BY <1>1, AtMostOne
<1> QED
  BY <1>2, <1>3 DEF I

\* One place is at most one copy.
LEMMA OwnersMeanUnique == OwnersInv => UniqueUnlessStolen
<1> SUFFICES ASSUME OwnersInv, NEW j \in Job \ stolen PROVE Copies(j) <= 1
  BY DEF UniqueUnlessStolen
<1>1. OnePlace(j) /\ OneOwner(j)
  BY DEF OwnersInv
<1> DEFINE H == {w \in Worker : pc[w] = "requeue" /\ raw[w].id = j}
<1>2. PICK a, b, c, d :
        /\ a = Cardinality({i \in DOMAIN queue : queue[i].id = j})
        /\ b = Cardinality({i \in DOMAIN processing : processing[i].id = j})
        /\ c = Cardinality({i \in DOMAIN dead : dead[i].id = j})
        /\ d = Cardinality(H)
  OBVIOUS
<1>3. /\ a \in 0 .. 1 /\ b \in 0 .. 1 /\ c \in 0 .. 1
      /\ j \notin Ids(queue) => a = 0
      /\ j \notin Ids(processing) => b = 0
      /\ j \notin Ids(dead) => c = 0
  BY <1>1, <1>2, OnceCounts DEF OnePlace
<1>4. d \in 0 .. 1 /\ (j \notin InMemory => d = 0)
  <2>1. \A x, y \in H : x = y
    BY <1>1 DEF OneOwner, Owning
  <2>2. j \notin InMemory => H = {}
    BY InMemoryIs
  <2> HIDE DEF H
  <2> QED
    BY <1>2, <2>1, <2>2, AtMostOne
<1>5. a + b + c + d <= 1
  BY <1>1, <1>3, <1>4 DEF OnePlace
<1> QED
  BY <1>2, <1>5 DEF Copies

-----------------------------------------------------------------------------
(* Attempts *)

\* Steps that count no failure and make no new entry.
LEMMA CountsKept ==
  ASSUME CountsInv, Entries' \subseteq Entries, failures' = failures, stolen \subseteq stolen',
         Jobs' = Jobs
  PROVE  CountsInv'
BY DEF CountsInv, Counted

\* Counting a failure puts every other entry of the job behind, so there must be
\* none: the worker between LREM and LPUSH is the one place of its job.
LEMMA CountsStep ==
  ASSUME IInv, OwnersInv, OwnersInv', CountsInv, [Next]_vars
  PROVE  CountsInv'
<1>0. TypeOK
  BY DEF IInv
<1>1. ASSUME NEW k \in Job, Enqueue(k)
      PROVE  CountsInv'
  <2>1. PICK e : e = [id |-> k, attempts |-> 0]
    OBVIOUS
  <2>2. /\ e \in Live /\ e.id = k /\ e.attempts = 0 /\ queue \in Seq(Live)
        /\ queue' = <<e>> \o queue /\ k \notin Jobs
        /\ UNCHANGED <<processing, dead, pc, raw, failures, stolen>>
    BY <1>0, <1>1, <2>1, LiveIsLive DEF Enqueue, TypeOK
  <2>3. Jobs' = Jobs \cup {k}
    BY <1>0, <1>1, EnqueueEffect
  <2>4. ToSet(queue)' = {e} \cup ToSet(queue)
    BY <2>2, PushLeft
  <2>5. Entries' = Entries \cup {e}
    BY <2>2, <2>4 DEF Entries
  <2>6. failures[k] = 0
    BY <2>2 DEF CountsInv
  <2> QED
    BY <2>2, <2>3, <2>5, <2>6 DEF CountsInv, Counted
<1>2. ASSUME NEW w \in Worker,
             \/ CheckStop(w) \/ TimeOut(w) \/ Succeed(w) \/ Fail(w) \/ Restart(w) \/ Crash(w)
             \/ Ack(w) \/ AckError(w)
      PROVE  CountsInv'
  <2>1. /\ UNCHANGED <<queue, dead, failures, stolen, submitted>>
        /\ ToSet(processing)' \subseteq ToSet(processing)
    BY <1>0, <1>2, RemoveOne
    DEF CheckStop, TimeOut, Succeed, Fail, Restart, Crash, Ack, AckError, lists, history, TypeOK
  <2>2. \A v \in Worker : pc'[v] \in Owning => pc[v] \in Owning /\ raw'[v] = raw[v]
    BY <1>0, <1>2
    DEF CheckStop, TimeOut, Succeed, Fail, Restart, Crash, Ack, AckError, Goto, TypeOK, Owning, Holding
  <2>3. Entries' \subseteq Entries
    BY <2>1, <2>2 DEF Entries
  <2> QED
    BY <2>1, <2>3, CountsKept DEF Jobs
<1>3. ASSUME NEW w \in Worker, Take(w)
      PROVE  CountsInv'
  <2>1. PICK e : e = Last(queue)
    OBVIOUS
  <2>2. /\ e \in Live /\ ToSet(queue) = {e} \cup ToSet(queue)'
        /\ ToSet(processing)' = {e} \cup ToSet(processing)
        /\ UNCHANGED <<dead, failures, stolen, submitted>>
    BY <1>0, <1>3, <2>1, PopRight, PushLeft DEF Take, TypeOK, history
  <2>3. \A v \in Worker : pc'[v] \in Owning => raw'[v] = e \/ (pc[v] \in Owning /\ raw'[v] = raw[v])
    BY <1>0, <1>3, <2>1 DEF Take, Goto, TypeOK
  <2>4. Entries' \subseteq Entries
    BY <2>2, <2>3 DEF Entries
  <2> QED
    BY <2>2, <2>4, CountsKept DEF Jobs
<1>4. ASSUME NEW w \in Worker, Nack(w)
      PROVE  CountsInv'
  <2>1. PICK e, f, j : e = raw[w] /\ f = Bumped(raw[w]) /\ j = e.id
    OBVIOUS
  <2>2. /\ e \in Live /\ f.id = j /\ j \in Job /\ f.attempts = e.attempts + 1 /\ e.attempts \in Nat
        /\ e \in Entries /\ j \in Jobs
    <3>1. e \in Live /\ pc[w] \in Holding
      BY <1>0, <1>4, <2>1 DEF Nack, Goto, TypeOK, Holding
    <3>2. j \in Jobs
      BY <2>1, <3>1 DEF IInv, OnlyEnqueued, Known, InHand
    <3> QED
      BY <2>1, <3>1, <3>2, RetriesAssumption DEF Live, Bumped, Entries, Owning
  <2>3. /\ failures' = [failures EXCEPT ![j] = @ + 1] /\ UNCHANGED <<queue, dead, stolen, submitted>>
        /\ pc'[w] = "requeue" /\ raw'[w] = f
        /\ \A v \in Worker \ {w} : pc'[v] = pc[v] /\ raw'[v] = raw[v]
        /\ ToSet(processing)' \subseteq ToSet(processing)
    BY <1>0, <1>4, <2>1, RemoveOne DEF Nack, Goto, TypeOK
  <2>4. Entries' \subseteq Entries \cup {f}
    BY <2>3 DEF Entries
  <2>5. ASSUME NEW x \in Entries', x.id = j, j \notin stolen
        PROVE  x = f
    <3>1. OnePlace(j)' /\ OneOwner(j)'
      BY <2>2, <2>3, <2>5 DEF OwnersInv
    <3>2. j \in InMemory'
      BY <2>2, <2>3 DEF InMemory
    <3>3. j \notin Listed'
      BY <3>1, <3>2 DEF OnePlace, Listed
    <3>4. x \notin ToSet(queue)' \cup ToSet(processing)' \cup ToSet(dead)'
      BY <2>5, <3>3 DEF Listed, Ids
    <3>5. PICK v \in Worker : pc'[v] \in Owning /\ raw'[v] = x
      BY <3>4 DEF Entries
    <3>6. v = w
      BY <2>2, <2>3, <2>5, <3>1, <3>5 DEF OneOwner, Owning
    <3> QED
      BY <2>3, <3>5, <3>6
  <2>6. failures[j] \in Nat /\ failures'[j] = failures[j] + 1
        /\ \A i \in Job \ {j} : failures'[i] = failures[i]
    BY <1>0, <2>2, <2>3 DEF TypeOK
  <2>7. e.attempts <= failures[j] /\ (j \notin stolen => e.attempts = failures[j])
    BY <2>1, <2>2 DEF CountsInv, Counted
  <2>8. Counted(f)'
    BY <2>2, <2>3, <2>6, <2>7 DEF Counted
  <2>9. ASSUME NEW x \in Entries, x # f, x \in Entries'
        PROVE  Counted(x)'
    <3>1. Counted(x)
      BY DEF CountsInv
    <3>2. x.id \in Job /\ x.attempts \in Nat
      <4>1. x \in Live \cup Spent
        BY <1>0, LenProperties DEF Entries, TypeOK, ToSet, Owning
      <4> QED
        BY <4>1, RetriesAssumption DEF Live, Spent
    <3>3. CASE x.id = j
      BY <2>3, <2>5, <2>6, <2>9, <3>1, <3>2, <3>3 DEF Counted
    <3>4. CASE x.id # j
      BY <2>3, <2>6, <3>1, <3>2, <3>4 DEF Counted
    <3> QED
      BY <3>3, <3>4
  <2>10. \A x \in Entries' : Counted(x)'
    BY <2>4, <2>8, <2>9
  <2>11. \A i \in Job \ Jobs' : failures'[i] = 0
    BY <2>2, <2>3, <2>6 DEF CountsInv, Jobs
  <2> QED
    BY <2>10, <2>11 DEF CountsInv
<1>5. ASSUME NEW w \in Worker, Requeue(w)
      PROVE  CountsInv'
  <2>1. PICK e : e = raw[w]
    OBVIOUS
  <2>2. /\ e \in Live \cup Spent /\ e \in Entries
        /\ UNCHANGED <<processing, failures, stolen, submitted>>
        /\ \A v \in Worker : pc'[v] \in Owning => pc[v] \in Owning /\ raw'[v] = raw[v]
    BY <1>0, <1>5, <2>1 DEF Requeue, Goto, TypeOK, history, Entries, Owning, Holding
  <2>3. ToSet(queue)' \cup ToSet(dead)' \subseteq {e} \cup ToSet(queue) \cup ToSet(dead)
    <3>1. CASE e.attempts >= MAX_RETRIES
      <4>1. e \in Spent /\ dead' = <<e>> \o dead /\ queue' = queue /\ dead \in Seq(Spent)
        BY <1>0, <1>5, <2>1, <2>2, <3>1, LiveIsLive DEF Requeue, TypeOK
      <4> QED
        BY <4>1, PushLeft
    <3>2. CASE ~ (e.attempts >= MAX_RETRIES)
      <4>1. e \in Live /\ queue' = <<e>> \o queue /\ dead' = dead /\ queue \in Seq(Live)
        BY <1>0, <1>5, <2>1, <2>2, <3>2, LiveIsLive DEF Requeue, TypeOK
      <4> QED
        BY <4>1, PushLeft
    <3> QED
      BY <3>1, <3>2
  <2>4. Entries' \subseteq Entries
    BY <2>2, <2>3 DEF Entries
  <2> QED
    BY <2>2, <2>4, CountsKept DEF Jobs
<1>6. ASSUME ReaperMove
      PROVE  CountsInv'
  <2>1. PICK e : e = Last(processing)
    OBVIOUS
  <2>2. /\ e \in Live /\ ToSet(processing) = {e} \cup ToSet(processing)'
        /\ ToSet(queue)' = {e} \cup ToSet(queue)
        /\ UNCHANGED <<dead, pc, raw, failures, submitted>> /\ stolen \subseteq stolen'
    BY <1>0, <1>6, <2>1, PopRight, PushLeft DEF ReaperMove, TypeOK, history
  <2>3. Entries' \subseteq Entries
    BY <2>2 DEF Entries
  <2> QED
    BY <2>2, <2>3, CountsKept DEF Jobs
<1>7. ASSUME ReaperStart \/ ReaperEnd \/ Shutdown \/ UNCHANGED vars
      PROVE  CountsInv'
  <2>1. UNCHANGED <<queue, processing, dead, pc, raw, failures, submitted, stolen>>
    BY <1>7 DEF ReaperStart, ReaperEnd, Shutdown, vars, lists, history
  <2>2. Entries' = Entries
    BY <2>1 DEF Entries
  <2> QED
    BY <2>1, <2>2, CountsKept DEF Jobs
<1> QED
  BY <1>1, <1>2, <1>3, <1>4, <1>5, <1>6, <1>7 DEF Next, WorkerStep, ReaperStep

-----------------------------------------------------------------------------
(* Order *)

\* An enqueue puts its job behind all others.
LEMMA BeforeStays ==
  ASSUME submitted \in Seq(Job), NEW k \in Job, submitted' = Append(submitted, k)
  PROVE  /\ \A i, j : Before(i, j) => Before(i, j)'
         /\ \A i \in Jobs : Before(i, k)'
<1>1. /\ Len(submitted) \in Nat /\ DOMAIN submitted = 1 .. Len(submitted)
      /\ DOMAIN submitted' = 1 .. Len(submitted) + 1
      /\ \A i \in 1 .. Len(submitted) : submitted'[i] = submitted[i]
      /\ submitted'[Len(submitted) + 1] = k
  BY AppendProperties, LenProperties
<1>2. ASSUME NEW i, NEW j, Before(i, j)
      PROVE  Before(i, j)'
  <2>1. PICK m \in DOMAIN submitted, n \in DOMAIN submitted :
          m < n /\ submitted[m] = i /\ submitted[n] = j
    BY <1>2 DEF Before
  <2>2. m \in DOMAIN submitted' /\ n \in DOMAIN submitted' /\ submitted'[m] = i /\ submitted'[n] = j
    BY <1>1, <2>1
  <2> QED
    BY <2>1, <2>2 DEF Before
<1>3. ASSUME NEW i \in Jobs
      PROVE  Before(i, k)'
  <2>1. PICK m \in DOMAIN submitted : submitted[m] = i
    BY DEF Jobs, ToSet
  <2>2. /\ m \in DOMAIN submitted' /\ Len(submitted) + 1 \in DOMAIN submitted'
        /\ m < Len(submitted) + 1 /\ submitted'[m] = i
    BY <1>1, <2>1
  <2> QED
    BY <1>1, <2>2 DEF Before
<1> QED
  BY <1>2, <1>3

\* LPUSH of the youngest job, or of what is no first try, keeps the order.
LEMMA OrderPush ==
  ASSUME queue \in Seq(Live), InOrder, NEW e \in Live, queue' = <<e>> \o queue,
         reaped \subseteq reaped', \A i, j : Before(i, j) => Before(i, j)',
         FirstTry(e)' => \A i \in Ids(queue) : Before(i, e.id)'
  PROVE  InOrder'
<1>1. <<e>> \in Seq(Live) /\ Len(<<e>>) = 1 /\ <<e>>[1] = e
  OBVIOUS
<1>2. PICK u : u = queue'
  OBVIOUS
<1>3. /\ Len(queue) \in Nat /\ DOMAIN queue = 1 .. Len(queue) /\ DOMAIN u = 1 .. 1 + Len(queue)
      /\ \A i \in 1 .. 1 + Len(queue) : u[i] = IF i <= 1 THEN e ELSE queue[i - 1]
  BY <1>1, <1>2, ConcatProperties, LenProperties
<1>4. \A x : FirstTry(x)' => FirstTry(x)
  BY DEF FirstTry
<1>5. ASSUME NEW m \in DOMAIN u, NEW n \in DOMAIN u,
             m < n, FirstTry(u[m])', FirstTry(u[n])', u[m].id # u[n].id
      PROVE  Before(u[n].id, u[m].id)'
  <2>1. n - 1 \in DOMAIN queue /\ u[n] = queue[n - 1]
    BY <1>3, <1>5
  <2>2. CASE m = 1
    <3>1. u[m] = e /\ u[n].id \in Ids(queue)
      BY <1>3, <2>1, <2>2 DEF Ids, ToSet
    <3> QED
      BY <1>5, <3>1
  <2>3. CASE m # 1
    <3>1. m - 1 \in DOMAIN queue /\ u[m] = queue[m - 1] /\ m - 1 < n - 1
      BY <1>3, <1>5, <2>3
    <3>2. FirstTry(queue[m - 1]) /\ FirstTry(queue[n - 1])
      BY <1>4, <1>5, <2>1, <3>1
    <3>3. Before(queue[n - 1].id, queue[m - 1].id)
      BY <1>5, <2>1, <3>1, <3>2 DEF InOrder
    <3> QED
      BY <2>1, <3>1, <3>3
  <2> QED
    BY <2>2, <2>3
<1> QED
  BY <1>2, <1>5 DEF InOrder

\* Every step keeps first tries in order, and what is requeued is none.
LEMMA OrderStep ==
  ASSUME IInv, OrderInv, [Next]_vars
  PROVE  OrderInv'
<1>0. TypeOK /\ InOrder /\ queue \in Seq(Live) /\ submitted \in Seq(Job)
  BY DEF IInv, TypeOK, OrderInv, InOrder
<1>1. ASSUME NEW w \in Worker, pc'[w] = "requeue"
      PROVE  raw'[w].attempts > 0
  <2>1. CASE Nack(w)
    <3>1. raw[w] \in Live /\ raw'[w] = Bumped(raw[w])
      BY <1>0, <2>1 DEF Nack, Goto, TypeOK, Holding
    <3> QED
      BY <3>1, RetriesAssumption DEF Live, Bumped
  <2>2. CASE ~ Nack(w)
    <3>1. pc[w] = "requeue" /\ raw'[w] = raw[w]
      BY <1>0, <1>1, <2>2, ZenonT(30)
      DEF Next, WorkerStep, ReaperStep, Enqueue, CheckStop, Take, TimeOut, Succeed, Fail, Ack,
          AckError, Nack, Requeue, Crash, Restart, ReaperStart, ReaperMove, ReaperEnd, Shutdown,
          vars, Goto, TypeOK
    <3> QED
      BY <3>1 DEF OrderInv
  <2> QED
    BY <2>1, <2>2
<1>2. InOrder'
  <2>1. ASSUME NEW k \in Job, Enqueue(k)
        PROVE  InOrder'
    <3>1. PICK e : e = [id |-> k, attempts |-> 0]
      OBVIOUS
    <3>2. e \in Live /\ e.id = k /\ queue' = <<e>> \o queue
          /\ submitted' = Append(submitted, k) /\ reaped' = reaped
      BY <2>1, <3>1, LiveIsLive DEF Enqueue
    <3>3. Ids(queue) \subseteq Jobs
      BY DEF IInv, OnlyEnqueued, Known, Safe
    <3> QED
      BY <1>0, <3>2, <3>3, BeforeStays, OrderPush
  <2>2. ASSUME NEW w \in Worker, Take(w)
        PROVE  InOrder'
    <3>1. queue # <<>> /\ queue' = Front(queue) /\ UNCHANGED <<submitted, reaped>>
      BY <2>2 DEF Take, history
    <3>2. \A i \in DOMAIN queue' : i \in DOMAIN queue /\ queue'[i] = queue[i]
      <4>1. PICK n \in Nat \ {0} : n = Len(queue)
        BY <1>0, <3>1, EmptySeq, LenProperties
      <4>2. DOMAIN queue = 1 .. n /\ DOMAIN queue' = 1 .. n - 1
            /\ \A i \in 1 .. n - 1 : queue'[i] = queue[i]
        BY <1>0, <3>1, <4>1, FrontOf, LenProperties
      <4> QED
        BY <4>2
    <3> QED
      BY <1>0, <3>1, <3>2 DEF InOrder, FirstTry, Before
  <2>3. ASSUME NEW w \in Worker, Requeue(w)
        PROVE  InOrder'
    <3>1. PICK e : e = raw[w]
      OBVIOUS
    <3>2. e \in Live \cup Spent /\ e.attempts > 0 /\ UNCHANGED <<submitted, reaped>>
      BY <1>0, <2>3, <3>1 DEF Requeue, Goto, TypeOK, OrderInv, history
    <3>3. ~ FirstTry(e)'
      BY <3>2, RetriesAssumption DEF FirstTry, Live, Spent
    <3>4. \A i, j : Before(i, j) => Before(i, j)'
      BY <3>2 DEF Before
    <3>5. CASE e.attempts >= MAX_RETRIES
      <4>1. queue' = queue
        BY <2>3, <3>1, <3>5 DEF Requeue
      <4> QED
        BY <1>0, <3>2, <4>1 DEF InOrder, FirstTry, Before
    <3>6. CASE ~ (e.attempts >= MAX_RETRIES)
      <4>1. e \in Live /\ queue' = <<e>> \o queue
        BY <2>3, <3>1, <3>2, <3>6, LiveIsLive DEF Requeue
      <4> QED
        BY <1>0, <3>2, <3>3, <3>4, <4>1, OrderPush
    <3> QED
      BY <3>5, <3>6
  <2>4. ASSUME ReaperMove
        PROVE  InOrder'
    <3>1. PICK e : e = Last(processing)
      OBVIOUS
    <3>2. e \in Live /\ queue' = <<e>> \o queue /\ reaped' = reaped \cup {e.id}
          /\ submitted' = submitted
      BY <1>0, <2>4, <3>1, PopRight DEF ReaperMove, TypeOK, history
    <3>3. ~ FirstTry(e)' /\ \A i, j : Before(i, j) => Before(i, j)'
      BY <3>2 DEF FirstTry, Before
    <3> QED
      BY <1>0, <3>2, <3>3, OrderPush
  <2>5. ASSUME UNCHANGED <<queue, submitted, reaped>>
        PROVE  InOrder'
    BY <1>0, <2>5 DEF InOrder, FirstTry, Before
  <2>6. \/ \E k \in Job : Enqueue(k)
        \/ \E w \in Worker : Take(w) \/ Requeue(w)
        \/ ReaperMove
        \/ UNCHANGED <<queue, submitted, reaped>>
    BY DEF Next, WorkerStep, ReaperStep, CheckStop, TimeOut, Succeed, Fail, Ack,
           AckError, Nack, Crash, Restart, ReaperStart, ReaperEnd, Shutdown, vars, lists, history
  <2> QED
    BY <2>1, <2>2, <2>3, <2>4, <2>5, <2>6
<1> QED
  BY <1>1, <1>2 DEF OrderInv, InOrder

-----------------------------------------------------------------------------
(* The inductive invariant *)

\* The inductive invariant of the three properties.
JobsInv == IInv /\ OwnersInv /\ CountsInv /\ OrderInv

\* It holds of the empty lists ...
LEMMA JobsInit == Init => JobsInv
<1> SUFFICES ASSUME Init PROVE JobsInv
  OBVIOUS
<1>1. IInv
  BY InitInv
<1>2. /\ \A w \in Worker : pc[w] = "check"
      /\ ToSet(queue) = {} /\ ToSet(processing) = {} /\ ToSet(dead) = {}
      /\ DOMAIN queue = {} /\ DOMAIN processing = {} /\ DOMAIN dead = {}
  BY DEF Init, ToSet
<1>3. Entries = {} /\ InMemory = {} /\ Listed = {}
  BY <1>2 DEF Entries, InMemory, Listed, Ids, Owning, Holding
<1>4. OwnersInv
  BY <1>2, <1>3 DEF OwnersInv, OnePlace, OneOwner, Once, Listed, Owning, Holding
<1>5. CountsInv
  BY <1>3 DEF Init, CountsInv
<1>6. OrderInv
  BY <1>2 DEF OrderInv, InOrder
<1> QED
  BY <1>1, <1>4, <1>5, <1>6 DEF JobsInv

\* ... and in every reachable state.
THEOREM JobsHold == Spec => []JobsInv
<1>1. JobsInv /\ [Next]_vars => JobsInv'
  BY StepInv, OwnersStep, CountsStep, OrderStep DEF JobsInv
<1> QED
  BY <1>1, JobsInit, PTL DEF Spec

\* For any workers, crashes, retries and lost replies, a job is never in two
\* places unless the reaper took it from a worker that was handling it.
THEOREM UniqueHolds == Spec => []UniqueUnlessStolen
<1> QED BY OwnersMeanUnique, JobsHold, PTL DEF JobsInv

\* The attempts an entry claims (line 49) are at most the failures of its job, and
\* exactly those while it was not stolen.
THEOREM AttemptsHold == Spec => []AttemptsCountFailures
<1>1. JobsInv => AttemptsCountFailures
  BY DEF JobsInv, CountsInv, Counted, Entries, AttemptsCountFailures
<1> QED BY <1>1, JobsHold, PTL

\* First tries are handed out in the order of the enqueues (line 7).
THEOREM OrderHolds == Spec => FirstInFirstOut
<1> DEFINE Oldest ==
      \A w \in Worker :
        pc[w] = "poll" /\ pc'[w] = "handle" /\ FirstTry(raw'[w]) =>
          \A e \in ToSet(queue) :
            FirstTry(e) /\ e.id # raw'[w].id => Before(raw'[w].id, e.id)
<1>1. JobsInv /\ [Next]_vars => [Oldest]_vars
  <2> SUFFICES ASSUME JobsInv, Next, NEW w \in Worker,
                      pc[w] = "poll", pc'[w] = "handle", FirstTry(raw'[w]),
                      NEW e \in ToSet(queue), FirstTry(e), e.id # raw'[w].id
               PROVE  Before(raw'[w].id, e.id)
    OBVIOUS
  <2>1. TypeOK /\ InOrder
    BY DEF JobsInv, IInv, OrderInv, InOrder
  <2>2. Take(w)
    BY <2>1
    DEF Next, WorkerStep, ReaperStep, Enqueue, CheckStop, TimeOut, Succeed, Fail, Ack,
        AckError, Nack, Requeue, Crash, Restart, ReaperStart, ReaperMove, ReaperEnd, Shutdown,
        Goto, TypeOK, Take
  <2>3. queue \in Seq(Live) /\ queue # <<>> /\ raw'[w] = Last(queue)
    BY <2>1, <2>2 DEF Take, TypeOK
  <2>4. PICK n \in Nat \ {0} : n = Len(queue)
    BY <2>3, EmptySeq, LenProperties
  <2>5. DOMAIN queue = 1 .. n /\ raw'[w] = queue[n]
    BY <2>3, <2>4, LenProperties DEF Last
  <2>6. PICK m \in 1 .. n : e = queue[m]
    BY <2>5 DEF ToSet
  <2>7. m < n /\ n \in DOMAIN queue /\ m \in DOMAIN queue
    BY <2>5, <2>6
  <2> QED
    BY <2>1, <2>5, <2>6, <2>7 DEF InOrder
<1> QED
  BY <1>1, JobsHold, PTL DEF Spec, FirstInFirstOut
==============================================================================
