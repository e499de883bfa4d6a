------------------------------ MODULE CsvImport ------------------------------
(***************************************************************************)
(* round2/csv_import.py: a CSV upload becomes a row of import_jobs and a   *)
(* message; a worker validates and inserts its rows chunk by chunk, each   *)
(* chunk in one transaction with the checkpoint, and then reports progress *)
(* to Redis.  A database transaction is one action, a Redis command is one *)
(* action, and the process may die between any two of them.                *)
(***************************************************************************)
EXTENDS Naturals, Sequences, FiniteSets, SequencesExt, FiniteSetsExt

CONSTANTS
  Job, Worker,
  Tenant,     \* [Job -> tenant]
  Email, Bad, \* what validate makes of a row: its cleaned e-mail, or Bad for None
  File,       \* [Job -> rows]
  CHUNK_SIZE, \* line 30
  MaxCrashes  \* bound: deaths of a worker or of the API process

ASSUME FileAssumption == File \in [Job -> Seq(Email \cup {Bad})] /\ Bad \notin Email
ASSUME ChunkAssumption == CHUNK_SIZE \in Nat \ {0} /\ MaxCrashes \in Nat

VARIABLES
  api,        \* per job: how far create_import got
  job,        \* per job: its row of import_jobs, or NoRow
  leads,      \* the leads table: <<tenant, email>>, unique
  progress,   \* per job: the Redis hash import:<id>, or NoRow
  queue,      \* the Redis list, left to right
  pc, at,     \* per worker: its position in process_import, its job
  local,      \* per worker: its rows_done and rows_failed
  failed,     \* jobs whose process_import died
  crashes

vars == <<api, job, leads, progress, queue, pc, at, local, failed, crashes>>

NoRow == [status |-> "none"]
NoJob == "none"
Zero == [rows_done |-> 0, rows_failed |-> 0]
Row(status, counts) ==
  [status |-> status, rows_done |-> counts.rows_done, rows_failed |-> counts.rows_failed]
Counts(row) == [rows_done |-> row.rows_done, rows_failed |-> row.rows_failed]

Good(rows) == ToSet(rows) \ {Bad}
BadIn(rows) == Cardinality({i \in DOMAIN rows : rows[i] = Bad})

Init ==
  /\ api = [j \in Job |-> "upload"]
  /\ job = [j \in Job |-> NoRow]
  /\ leads = {}
  /\ progress = [j \in Job |-> NoRow]
  /\ queue = <<>>
  /\ pc = [w \in Worker |-> "idle"]
  /\ at = [w \in Worker |-> NoJob]
  /\ local = [w \in Worker |-> Zero]
  /\ failed = {}
  /\ crashes = 0

-----------------------------------------------------------------------------
(* API: create_import *)

ApiStep(j, from, to) ==
  /\ api[j] = from
  /\ api' = [api EXCEPT ![j] = to]
  /\ UNCHANGED <<leads, pc, at, local, failed, crashes>>

InsertJob(j) ==
  /\ ApiStep(j, "upload", "show")
  /\ job' = [job EXCEPT ![j] = Row("queued", Zero)]
  /\ UNCHANGED <<progress, queue>>

ShowQueued(j) ==
  /\ ApiStep(j, "show", "push")
  /\ progress' = [progress EXCEPT ![j] = Row("queued", Zero)]
  /\ UNCHANGED <<job, queue>>

Push(j) ==
  /\ ApiStep(j, "push", "accepted")
  /\ queue' = <<j>> \o queue
  /\ UNCHANGED <<job, progress>>

\* The API process dies: nobody finishes this create_import.
ApiCrash(j) ==
  /\ api[j] \in {"show", "push"}
  /\ crashes < MaxCrashes
  /\ crashes' = crashes + 1
  /\ api' = [api EXCEPT ![j] = "abandoned"]
  /\ UNCHANGED <<job, leads, progress, queue, pc, at, local, failed>>

-----------------------------------------------------------------------------
(* Worker: BRPOP, then process_import *)

Goto(w, from, to) == pc[w] = from /\ pc' = [pc EXCEPT ![w] = to]

\* Bug: the message is read and stays in the list while the job runs.
PopAndKeep(w) ==
  /\ Goto(w, "idle", "load")
  /\ queue # <<>>
  /\ at' = [at EXCEPT ![w] = Last(queue)]
  /\ UNCHANGED <<api, job, leads, progress, queue, local, failed, crashes>>

Pop(w) ==
  /\ Goto(w, "idle", "load")
  /\ queue # <<>>
  /\ at' = [at EXCEPT ![w] = Last(queue)]
  /\ queue' = Front(queue)
  /\ UNCHANGED <<api, job, leads, progress, local, failed, crashes>>

\* Somebody runs process_import again for a job that died, as the test does on
\* line 213.  No code does: a job that died may stay so.
Retry(w) ==
  /\ Goto(w, "idle", "load")
  /\ \E j \in failed :
       /\ at' = [at EXCEPT ![w] = j]
       /\ failed' = failed \ {j}
  /\ UNCHANGED <<api, job, leads, progress, queue, local, crashes>>

\* Bug: the checkpoint is not read back (skip = 0 on line 133).
LoadFromStart(w) ==
  /\ Goto(w, "load", "show_processing")
  /\ local' = [local EXCEPT ![w] = Zero]
  /\ job' = [job EXCEPT ![at[w]].status = "processing"]
  /\ UNCHANGED <<api, leads, progress, queue, at, failed, crashes>>

\* SELECT of the checkpoint, and status processing.
Load(w) ==
  /\ Goto(w, "load", "show_processing")
  /\ local' = [local EXCEPT ![w] = Counts(job[at[w]])]
  /\ job' = [job EXCEPT ![at[w]].status = "processing"]
  /\ UNCHANGED <<api, leads, progress, queue, at, failed, crashes>>

\* Bug: line 131 writes the whole hash, as line 76 does.
ShowProcessingResets(w) ==
  /\ Goto(w, "show_processing", "chunk")
  /\ progress' = [progress EXCEPT ![at[w]] = Row("processing", Zero)]
  /\ UNCHANGED <<api, job, leads, queue, at, local, failed, crashes>>

ShowProcessing(w) ==
  /\ Goto(w, "show_processing", "chunk")
  /\ progress' = [progress EXCEPT ![at[w]].status = "processing"]
  /\ UNCHANGED <<api, job, leads, queue, at, local, failed, crashes>>

\* read_chunks goes on after the rows already done.
Chunk(w) ==
  LET rows == File[at[w]]
      from == local[w].rows_done
  IN SubSeq(rows, from + 1, Min({from + CHUNK_SIZE, Len(rows)}))

Counted(w) ==
  [rows_done |-> local[w].rows_done + Len(Chunk(w)),
   rows_failed |-> local[w].rows_failed + BadIn(Chunk(w))]

\* Bug: rows_done is not advanced (line 136).
CommitWithoutAdvance(w) ==
  /\ Goto(w, "chunk", "show_chunk")
  /\ Chunk(w) # <<>>
  /\ leads' = leads \cup ({Tenant[at[w]]} \X Good(Chunk(w)))
  /\ job' = [job EXCEPT ![at[w]] = Row(@.status, Counted(w))]
  /\ UNCHANGED <<api, progress, queue, at, local, failed, crashes>>

\* One transaction: INSERT OR IGNORE of the good rows, and the checkpoint.
CommitChunk(w) ==
  /\ Goto(w, "chunk", "show_chunk")
  /\ Chunk(w) # <<>>
  /\ leads' = leads \cup ({Tenant[at[w]]} \X Good(Chunk(w)))
  /\ local' = [local EXCEPT ![w] = Counted(w)]
  /\ job' = [job EXCEPT ![at[w]] = Row(@.status, Counted(w))]
  /\ UNCHANGED <<api, progress, queue, at, failed, crashes>>

ShowChunk(w) ==
  /\ Goto(w, "show_chunk", "chunk")
  /\ progress' = [progress EXCEPT ![at[w]] = Row(@.status, local[w])]
  /\ UNCHANGED <<api, job, leads, queue, at, local, failed, crashes>>

\* Bug: the generator stops at a short chunk it has not yielded yet.
FinishEarly(w) ==
  /\ Goto(w, "chunk", "show_done")
  /\ Len(Chunk(w)) < CHUNK_SIZE
  /\ job' = [job EXCEPT ![at[w]].status = "done"]
  /\ UNCHANGED <<api, leads, progress, queue, at, local, failed, crashes>>

Finish(w) ==
  /\ Goto(w, "chunk", "show_done")
  /\ Chunk(w) = <<>>
  /\ job' = [job EXCEPT ![at[w]].status = "done"]
  /\ UNCHANGED <<api, leads, progress, queue, at, local, failed, crashes>>

ShowDone(w) ==
  /\ Goto(w, "show_done", "idle")
  /\ progress' = [progress EXCEPT ![at[w]].status = "done"]
  /\ at' = [at EXCEPT ![w] = NoJob]
  /\ local' = [local EXCEPT ![w] = Zero]
  /\ UNCHANGED <<api, job, leads, queue, failed, crashes>>

\* The worker dies, by a kill, a Redis error or a locked database; the open
\* transaction is gone with it, and a new worker takes its place.
Crash(w) ==
  /\ pc[w] # "idle"
  /\ crashes < MaxCrashes
  /\ crashes' = crashes + 1
  /\ pc' = [pc EXCEPT ![w] = "idle"]
  /\ at' = [at EXCEPT ![w] = NoJob]
  /\ local' = [local EXCEPT ![w] = Zero]
  /\ failed' = failed \cup {at[w]}
  /\ UNCHANGED <<api, job, leads, progress, queue>>

-----------------------------------------------------------------------------

Api(j) == InsertJob(j) \/ ShowQueued(j) \/ Push(j)

Process(w) ==
  \/ Load(w) \/ ShowProcessing(w) \/ CommitChunk(w) \/ ShowChunk(w)
  \/ Finish(w) \/ ShowDone(w)

Next ==
  \/ \E j \in Job : Api(j) \/ ApiCrash(j)
  \/ \E w \in Worker : Pop(w) \/ Retry(w) \/ Process(w) \/ Crash(w)

Spec == Init /\ [][Next]_vars

(***************************************************************************)
(* Worker threads loop (lines 152-156) while there are any.  Nothing makes *)
(* anybody retry a job that died.                                          *)
(***************************************************************************)
Fairness == \A w \in Worker : WF_vars(Process(w)) /\ WF_vars(Pop(w))

FairSpec == Spec /\ Fairness

-----------------------------------------------------------------------------
(* Properties *)

Statuses == {"queued", "processing", "done"}
RowType(j) ==
  [status : Statuses, rows_done : 0 .. Len(File[j]), rows_failed : 0 .. Len(File[j])]

\* A worker only ever has a job that has its row and its hash, alone, and counts
\* from the row's checkpoint.
TypeOK ==
  /\ api \in [Job -> {"upload", "show", "push", "accepted", "abandoned"}]
  /\ \A j \in Job : job[j] \in {NoRow} \cup RowType(j) /\ progress[j] \in {NoRow} \cup RowType(j)
  /\ queue \in Seq(Job) /\ failed \subseteq Job /\ crashes \in 0 .. MaxCrashes
  /\ pc \in [Worker -> {"idle", "load", "show_processing", "chunk", "show_chunk",
                        "show_done"}]
  /\ \A w \in Worker : at[w] \in IF pc[w] = "idle" THEN {NoJob} ELSE Job
  /\ \A w \in Worker : pc[w] # "idle" =>
       /\ job[at[w]] # NoRow /\ progress[at[w]] # NoRow
       /\ at[w] \notin ToSet(queue) \cup failed
       /\ \A v \in Worker \ {w} : pc[v] # "idle" => at[v] # at[w]
       /\ pc[w] # "load" => local[w] = Counts(job[at[w]])

Prefix(j) == IF job[j] = NoRow THEN <<>> ELSE SubSeq(File[j], 1, job[j].rows_done)

\* Through crashes and resumes the leads are exactly the good rows before the
\* checkpoints, and rows_failed counts exactly the bad ones (line 138).
CheckpointMatchesData ==
  /\ leads = UNION {{Tenant[j]} \X Good(Prefix(j)) : j \in Job}
  /\ \A j \in Job : job[j] # NoRow => job[j].rows_failed = BadIn(Prefix(j))

\* What a client polls is never ahead of the database: no row is reported that a
\* crash could still take back, and no job is reported done with rows missing.
ProgressTrailsDatabase ==
  \A j \in Job : progress[j] # NoRow =>
    /\ progress[j].rows_done <= job[j].rows_done
    /\ progress[j].rows_failed <= job[j].rows_failed
    /\ progress[j].status = "done" => job[j] = Row("done", [rows_done |-> Len(File[j]),
                                                  rows_failed |-> BadIn(File[j])])

\* A client that polls never sees counts shrink, nor a job that was done again
\* queued or processing.
ProgressNeverGoesBack ==
  [][\A j \in Job : progress[j] # NoRow =>
       /\ progress'[j].rows_done >= progress[j].rows_done
       /\ progress'[j].rows_failed >= progress[j].rows_failed
       /\ progress[j].status = "done" => progress'[j].status = "done"]_vars

\* Every accepted upload is imported to its last row, and its client told so,
\* unless its worker died with it: BRPOP (line 154) has taken the message for
\* good, so the job waits for somebody to run it again.  A job that is run again
\* finishes, or its new worker dies too.
Finished(j) == job[j].status = "done" /\ progress[j].status = "done"
EveryUploadFinishes ==
  \A j \in Job : api[j] = "accepted" ~> Finished(j) \/ j \in failed

\* Line 9 ("save a checkpoint (rows_done) and progress after every chunk") and
\* line 200: a client that reads done reads all the rows.
DoneShowsAllRows ==
  \A j \in Job : progress[j].status = "done" => progress[j].rows_done = Len(File[j])
=============================================================================
