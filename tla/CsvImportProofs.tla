--------------------------- MODULE CsvImportProofs ---------------------------
(***************************************************************************)
(* Proofs about CsvImport.  The inductive invariant has three layers: who  *)
(* has a job (FlowInv), what its row and the leads say (DataInv), and what *)
(* the hash in Redis says of the row (ShownInv).  A layer's step lemmas    *)
(* use the layers before it.                                               *)
(***************************************************************************)
EXTENDS CsvImport, CollectionLemmas

-----------------------------------------------------------------------------
(* Rows of a file *)

\* Where the bad rows are.
BadAt(rows) == {i \in DOMAIN rows : rows[i] = Bad}

\* The bad rows of a file are finitely many, and at most all of them.
LEMMA BadBounds ==
  ASSUME NEW S, NEW s \in Seq(S)
  PROVE  IsFiniteSet(BadAt(s)) /\ BadIn(s) \in 0 .. Len(s)
<1>1. DOMAIN s = 1 .. Len(s) /\ Len(s) \in Nat
  BY LenProperties
<1>2. IsFiniteSet(1 .. Len(s)) /\ Cardinality(1 .. Len(s)) = Len(s)
  BY <1>1, FS_Interval
<1>3. BadAt(s) \subseteq 1 .. Len(s)
  BY <1>1 DEF BadAt
<1>4. IsFiniteSet(BadAt(s)) /\ Cardinality(BadAt(s)) <= Len(s) /\ Cardinality(BadAt(s)) \in Nat
  BY <1>2, <1>3, FS_Subset, FS_CardinalityType
<1> QED
  BY <1>1, <1>4 DEF BadIn, BadAt

\* Rows read after other rows add their bad ones and their good ones.
LEMMA RowsAdd ==
  ASSUME NEW S, NEW s \in Seq(S), NEW t \in Seq(S)
  PROVE  /\ BadIn(s \o t) = BadIn(s) + BadIn(t)
         /\ Good(s \o t) = Good(s) \cup Good(t)
<1> DEFINE n == Len(s)
           u == s \o t
           Q == {i + n : i \in BadAt(t)}
<1>1. /\ n \in Nat /\ Len(t) \in Nat /\ DOMAIN s = 1 .. n /\ DOMAIN t = 1 .. Len(t)
      /\ DOMAIN u = 1 .. n + Len(t)
      /\ \A i \in 1 .. n + Len(t) : u[i] = IF i <= n THEN s[i] ELSE t[i - n]
  BY ConcatProperties, LenProperties
<1> HIDE DEF n, u
<1>2. \A i \in DOMAIN s : i \in DOMAIN u /\ u[i] = s[i]
  BY <1>1
<1>3. \A i \in DOMAIN t : i + n \in DOMAIN u /\ u[i + n] = t[i]
  BY <1>1
<1>4. \A i \in DOMAIN u : i \in DOMAIN s \/ (i - n \in DOMAIN t /\ i = (i - n) + n)
  BY <1>1
<1>5. BadAt(u) = BadAt(s) \cup Q
  <2>1. BadAt(s) \cup Q \subseteq BadAt(u)
    BY <1>2, <1>3 DEF BadAt
  <2>2. ASSUME NEW i \in BadAt(u) PROVE i \in BadAt(s) \cup Q
    <3>1. CASE i \in DOMAIN s
      BY <1>2, <2>2, <3>1 DEF BadAt
    <3>2. CASE i \notin DOMAIN s
      BY <1>3, <1>4, <2>2, <3>2 DEF BadAt
    <3> QED BY <3>1, <3>2
  <2> QED BY <2>1, <2>2
<1>6. BadAt(s) \cap Q = {}
  BY <1>1 DEF BadAt
<1>7. IsFiniteSet(Q) /\ Cardinality(Q) = Cardinality(BadAt(t))
  <2> DEFINE f == [i \in BadAt(t) |-> i + n]
  <2>1. BadAt(t) \subseteq Nat
    BY <1>1 DEF BadAt
  <2>2. f \in Bijection(BadAt(t), Q)
    BY <1>1, <2>1 DEF Bijection, Injection, Surjection, IsInjective
  <2> QED
    BY <2>2, BadBounds, FS_Bijection DEF ExistsBijection
<1>8. Cardinality(BadAt(u)) = Cardinality(BadAt(s)) + Cardinality(BadAt(t))
  <2>1. IsFiniteSet(BadAt(s)) /\ IsFiniteSet(BadAt(t))
    BY BadBounds
  <2>2. Cardinality(BadAt(s) \cup Q)
        = Cardinality(BadAt(s)) + Cardinality(Q) - Cardinality(BadAt(s) \cap Q)
    BY <1>7, <2>1, FS_Union
  <2>3. Cardinality(BadAt(s) \cap Q) = 0
    BY <1>6, FS_EmptySet
  <2>4. Cardinality(BadAt(s)) \in Nat /\ Cardinality(BadAt(t)) \in Nat
    BY <2>1, FS_CardinalityType
  <2> QED
    BY <1>5, <1>7, <2>2, <2>3, <2>4
<1>9. ToSet(u) = ToSet(s) \cup ToSet(t)
  <2>1. ToSet(s) \subseteq ToSet(u) /\ ToSet(t) \subseteq ToSet(u)
    BY <1>2, <1>3 DEF ToSet
  <2>2. ASSUME NEW i \in DOMAIN u PROVE u[i] \in ToSet(s) \cup ToSet(t)
    <3>1. CASE i \in DOMAIN s
      BY <1>2, <3>1 DEF ToSet
    <3>2. CASE i \notin DOMAIN s
      <4>1. i - n \in DOMAIN t /\ u[i] = t[i - n]
        BY <1>3, <1>4, <3>2
      <4> QED BY <4>1 DEF ToSet
    <3> QED BY <3>1, <3>2
  <2> QED BY <2>1, <2>2 DEF ToSet
<1> QED
  BY <1>8, <1>9 DEF BadIn, BadAt, Good, u

\* A chunk continues the rows already done, and is empty at the end of the file.
LEMMA ChunkIs ==
  ASSUME NEW w \in Worker, at[w] \in Job, local[w].rows_done \in 0 .. Len(File[at[w]])
  PROVE  LET rows == File[at[w]]
             n == local[w].rows_done
             k == Len(Chunk(w))
         IN  /\ rows \in Seq(Email \cup {Bad}) /\ Len(rows) \in Nat
             /\ SubSeq(rows, 1, n) \in Seq(Email \cup {Bad})
             /\ Chunk(w) \in Seq(Email \cup {Bad})
             /\ k \in Nat /\ n + k \in 0 .. Len(rows)
             /\ SubSeq(rows, 1, n) \o Chunk(w) = SubSeq(rows, 1, n + k)
             /\ Chunk(w) = <<>> <=> n = Len(rows)
<1> DEFINE S == Email \cup {Bad}
           rows == File[at[w]]
           n == local[w].rows_done
           m == Min({n + CHUNK_SIZE, Len(rows)})
<1>1. rows \in Seq(S) /\ Len(rows) \in Nat /\ \A i \in 1 .. Len(rows) : rows[i] \in S
  BY FileAssumption, LenProperties, ElementOfSeq
<1>2. n \in 0 .. Len(rows) /\ CHUNK_SIZE \in Nat \ {0}
  BY ChunkAssumption
<1>3. Chunk(w) = SubSeq(rows, n + 1, m)
  BY DEF Chunk
<1> HIDE DEF S, rows, n
<1>4. m \in n .. Len(rows) /\ (m = n <=> n = Len(rows))
  <2> DEFINE I == {n + CHUNK_SIZE, Len(rows)}
  <2>1. I \subseteq Nat /\ I # {}
    BY <1>1, <1>2
  <2> HIDE DEF I
  <2>2. PICK x \in I : \A y \in I : x =< y
    BY <2>1, LeastOf
  <2>3. Min(I) \in I /\ \A y \in I : Min(I) =< y
    BY <2>2 DEF Min
  <2>4. m \in {n + CHUNK_SIZE, Len(rows)} /\ m <= n + CHUNK_SIZE /\ m <= Len(rows)
    BY <2>3 DEF I
  <2> HIDE DEF m
  <2> QED
    BY <1>1, <1>2, <2>4
<1> HIDE DEF m
<1>5. /\ SubSeq(rows, n + 1, m) \in Seq(S)
      /\ Len(SubSeq(rows, n + 1, m)) = m - n
  <2>1. n + 1 \in Int /\ m \in Int /\ \A i \in n + 1 .. m : rows[i] \in S
    BY <1>1, <1>2, <1>4
  <2>2. /\ SubSeq(rows, n + 1, m) \in Seq(S)
        /\ Len(SubSeq(rows, n + 1, m)) = IF n + 1 <= m THEN m - (n + 1) + 1 ELSE 0
    BY <2>1, SubSeqProperties
  <2> QED
    BY <1>1, <1>2, <1>4, <2>2
<1>6. SubSeq(rows, 1, n) \in Seq(S)
  <2>1. 1 \in Int /\ n \in Int /\ \A i \in 1 .. n : rows[i] \in S
    BY <1>1, <1>2
  <2> QED
    BY <2>1, SubSeqProperties
<1>7. SubSeq(rows, 1, n) \o SubSeq(rows, n + 1, m) = SubSeq(rows, 1, m)
  <2>1. 1 \in 1 .. Len(rows) + 1 /\ n \in 1 - 1 .. Len(rows) /\ m \in n .. Len(rows)
    BY <1>1, <1>2, <1>4
  <2> QED
    BY <1>1, <2>1, ConcatAdjacentSubSeq
<1>8. Chunk(w) = <<>> <=> m = n
  <2>1. m - n = 0 <=> m = n
    BY <1>1, <1>2, <1>4
  <2>2. Len(Chunk(w)) = m - n /\ Chunk(w) \in Seq(S)
    BY <1>3, <1>5
  <2>3. Chunk(w) = <<>> <=> Len(Chunk(w)) = 0
    BY <2>2, EmptySeq
  <2> QED
    BY <2>1, <2>2, <2>3
<1>9. n + (m - n) = m /\ m - n \in Nat /\ m \in 0 .. Len(rows)
  BY <1>1, <1>2, <1>4
<1> QED
  BY <1>1, <1>3, <1>4, <1>5, <1>6, <1>7, <1>8, <1>9 DEF rows, n, S

-----------------------------------------------------------------------------
(* Who has a job *)

AnyRow == [status : Statuses, rows_done : Nat, rows_failed : Nat]
Busy(w) == pc[w] # "idle"
Nowhere(j) == j \notin ToSet(queue) \cup failed /\ \A w \in Worker : Busy(w) => at[w] # j

FlowType ==
  /\ api \in [Job -> {"upload", "show", "push", "accepted", "abandoned"}]
  /\ job \in [Job -> {NoRow} \cup AnyRow] /\ progress \in [Job -> {NoRow} \cup AnyRow]
  /\ queue \in Seq(Job) /\ failed \subseteq Job /\ crashes \in 0 .. MaxCrashes
  /\ pc \in [Worker -> {"idle", "load", "show_processing", "chunk", "show_chunk", "show_done"}]
  /\ at \in [Worker -> Job \cup {NoJob}]
  /\ local \in [Worker -> [rows_done : Nat, rows_failed : Nat]]
  /\ \A w \in Worker : IF Busy(w) THEN at[w] \in Job ELSE at[w] = NoJob

\* An accepted job is in at most one place, and has its row and its hash.
OnePlace ==
  /\ IsInjective(queue) /\ ToSet(queue) \cap failed = {}
  /\ \A w \in Worker : Busy(w) => at[w] \notin ToSet(queue) \cup failed
  /\ \A v, w \in Worker : v # w /\ Busy(v) /\ Busy(w) => at[v] # at[w]
  /\ \A j \in Job : Nowhere(j) \/ api[j] = "accepted"
  /\ \A j \in Job : job[j] = NoRow <=> api[j] = "upload"
  /\ \A j \in Job : api[j] \in {"upload", "show"} => progress[j] = NoRow
  /\ \A j \in Job : api[j] \in {"push", "accepted"} => progress[j] # NoRow

FlowInv == FlowType /\ OnePlace

\* At the start no job is anywhere.
LEMMA InitFlow == Init => FlowInv
<1> SUFFICES ASSUME Init PROVE FlowInv
  OBVIOUS
<1>1. queue \in Seq(Job) /\ ToSet(queue) = {} /\ IsInjective(queue)
  BY EmptySeq DEF Init, ToSet, IsInjective
<1>2. NoRow \notin AnyRow
  BY DEF NoRow, AnyRow, Statuses
<1> QED
  BY <1>1, <1>2, ChunkAssumption
  DEF Init, FlowInv, FlowType, OnePlace, Nowhere, Busy, Zero

\* What the API writes is a row.
LEMMA QueuedIsRow == Row("queued", Zero) \in AnyRow /\ NoRow \notin AnyRow
BY DEF Row, Zero, AnyRow, NoRow, Statuses

\* create_import writes the row, then the hash, then queues the job, once.
LEMMA ApiFlow == ASSUME FlowInv, NEW j \in Job, Api(j) \/ ApiCrash(j) PROVE FlowInv'
<1> USE QueuedIsRow DEF FlowInv, FlowType, OnePlace, Nowhere, Busy
<1>1. CASE InsertJob(j)
  BY <1>1 DEF InsertJob, ApiStep
<1>2. CASE ShowQueued(j)
  BY <1>2 DEF ShowQueued, ApiStep
<1>3. CASE Push(j)
  <2>1. queue' \in Seq(Job) /\ ToSet(queue') = {j} \cup ToSet(queue)
    BY <1>3, PushLeft DEF Push
  <2>2. Nowhere(j)
    BY <1>3 DEF Push, ApiStep
  <2>3. IsInjective(queue')
    BY <1>3, <2>2, PushDistinct DEF Push
  <2> QED
    BY <1>3, <2>1, <2>2, <2>3 DEF Push, ApiStep
<1>4. CASE ApiCrash(j)
  <2>1. crashes' \in 0 .. MaxCrashes
    BY <1>4, ChunkAssumption DEF ApiCrash
  <2> QED
    BY <1>4, <2>1 DEF ApiCrash
<1> QED
  BY <1>1, <1>2, <1>3, <1>4 DEF Api

\* A worker takes a job from the queue or from the failed ones.
LEMMA TakeFlow == ASSUME FlowInv, NEW w \in Worker, Pop(w) \/ Retry(w) PROVE FlowInv'
<1> USE DEF FlowInv, FlowType, OnePlace, Nowhere, Busy, Goto
<1>1. CASE Pop(w)
  <2>1. /\ Last(queue) \in Job /\ queue' \in Seq(Job)
        /\ ToSet(queue) = {Last(queue)} \cup ToSet(queue')
        /\ IsInjective(queue') /\ Last(queue) \notin ToSet(queue')
    BY <1>1, PopRight, PopDistinct DEF Pop
  <2>2. /\ UNCHANGED <<api, job, progress, local, failed, crashes>>
        /\ pc[w] = "idle" /\ pc' = [pc EXCEPT ![w] = "load"] /\ at' = [at EXCEPT ![w] = Last(queue)]
    BY <1>1 DEF Pop
  <2> QED
    BY <2>1, <2>2
<1>2. CASE Retry(w)
  BY <1>2 DEF Retry
<1> QED
  BY <1>1, <1>2

CountType == [rows_done : Nat, rows_failed : Nat]

\* A worker that has a job has a job with a row and a hash.
LEMMA HasRows ==
  ASSUME FlowInv, NEW w \in Worker, Busy(w)
  PROVE  at[w] \in Job /\ job[at[w]] \in AnyRow /\ progress[at[w]] \in AnyRow
<1>1. at[w] \in Job /\ ~ Nowhere(at[w])
  BY DEF FlowInv, FlowType, Nowhere
<1>2. api[at[w]] = "accepted"
  BY <1>1 DEF FlowInv, OnePlace
<1> QED
  BY <1>1, <1>2 DEF FlowInv, FlowType, OnePlace

\* A step of process_import that writes its own job's row, hash and counts.
LEMMA WritesFlow ==
  ASSUME FlowInv, NEW w \in Worker, Busy(w),
         NEW to \in {"show_processing", "chunk", "show_chunk", "show_done"},
         NEW r \in AnyRow, NEW p \in AnyRow, NEW c \in CountType,
         pc' = [pc EXCEPT ![w] = to],
         job' = [job EXCEPT ![at[w]] = r],
         progress' = [progress EXCEPT ![at[w]] = p],
         local' = [local EXCEPT ![w] = c],
         UNCHANGED <<api, queue, at, failed, crashes>>
  PROVE  FlowInv'
<1>1. at[w] \in Job /\ job[at[w]] # NoRow /\ progress[at[w]] # NoRow /\ NoRow \notin AnyRow
  BY HasRows, QueuedIsRow
<1>2. FlowType'
  BY <1>1 DEF FlowInv, FlowType, Busy, CountType
<1>3. \A v \in Worker : Busy(v)' <=> Busy(v)
  BY DEF Busy, FlowInv, FlowType
<1>4. \A j \in Job : /\ job'[j] = NoRow <=> job[j] = NoRow
                     /\ progress'[j] = NoRow <=> progress[j] = NoRow
  BY <1>1 DEF FlowInv, FlowType
<1>5. OnePlace'
  BY <1>3, <1>4 DEF FlowInv, OnePlace, Nowhere
<1> QED
  BY <1>2, <1>5 DEF FlowInv

\* A worker that is done with its job, or dead, has none.
LEMMA LeavesFlow ==
  ASSUME FlowInv, NEW w \in Worker, Busy(w), NEW p \in AnyRow,
         pc' = [pc EXCEPT ![w] = "idle"],
         at' = [at EXCEPT ![w] = NoJob],
         local' = [local EXCEPT ![w] = Zero],
         progress' = [progress EXCEPT ![at[w]] = p],
         failed' \in {failed, failed \cup {at[w]}},
         crashes' \in 0 .. MaxCrashes,
         UNCHANGED <<api, job, queue>>
  PROVE  FlowInv'
<1>1. at[w] \in Job /\ progress[at[w]] # NoRow /\ NoRow \notin AnyRow
  BY HasRows, QueuedIsRow
<1>2. FlowType'
  BY <1>1 DEF FlowInv, FlowType, Busy, Zero
<1>3. /\ ~ Busy(w)'
      /\ \A v \in Worker \ {w} : (Busy(v)' <=> Busy(v)) /\ at'[v] = at[v]
  BY DEF Busy, FlowInv, FlowType
<1>4. \A j \in Job : progress'[j] = NoRow <=> progress[j] = NoRow
  BY <1>1 DEF FlowInv, FlowType
<1>5. OnePlace'
  BY <1>1, <1>3, <1>4 DEF FlowInv, OnePlace, Nowhere
<1> QED
  BY <1>2, <1>5 DEF FlowInv

-----------------------------------------------------------------------------
(* What the rows say *)

\* The checkpoint, the leads and what a worker counts in agree.
DataInv ==
  /\ \A j \in Job : job[j] # NoRow =>
       job[j].rows_done \in 0 .. Len(File[j]) /\ job[j].rows_failed = BadIn(Prefix(j))
  /\ \A w \in Worker : pc[w] \notin {"idle", "load"} => local[w] = Counts(job[at[w]])
  /\ leads = UNION {{Tenant[j]} \X Good(Prefix(j)) : j \in Job}

DoneRow(j) == Row("done", [rows_done |-> Len(File[j]), rows_failed |-> BadIn(File[j])])

\* The hash trails the row, and says done only of a job nobody works on.
ShownInv ==
  /\ \A j \in Job : progress[j] # NoRow =>
       /\ progress[j].rows_done <= job[j].rows_done
       /\ progress[j].rows_failed <= job[j].rows_failed
       /\ progress[j].status = "done" =>
            job[j] = DoneRow(j) /\ Nowhere(j) /\ api[j] = "accepted"
  /\ \A w \in Worker : pc[w] = "show_done" => job[at[w]] = DoneRow(at[w])

Inv == FlowInv /\ DataInv

\* What a worker in its chunk loop reads and counts.
LEMMA CountedIs ==
  ASSUME Inv, NEW w \in Worker, pc[w] = "chunk"
  PROVE  LET j == at[w]
         IN  /\ j \in Job /\ job[j] \in AnyRow
             /\ local[w] = Counts(job[j])
             /\ Counted(w) \in CountType
             /\ Counted(w).rows_done \in 0 .. Len(File[j])
             /\ Counted(w).rows_done >= local[w].rows_done
             /\ Counted(w).rows_failed >= local[w].rows_failed
             /\ Counted(w).rows_failed = BadIn(SubSeq(File[j], 1, Counted(w).rows_done))
             /\ Good(SubSeq(File[j], 1, Counted(w).rows_done)) = Good(Prefix(j)) \cup Good(Chunk(w))
             /\ Chunk(w) = <<>> <=> job[j].rows_done = Len(File[j])
<1> DEFINE j == at[w]
           n == local[w].rows_done
           S == Email \cup {Bad}
<1>1. j \in Job /\ job[j] \in AnyRow
  BY HasRows DEF Inv, Busy
<1>2. job[j] # NoRow
  BY <1>1, QueuedIsRow
<1>3. local[w] = Counts(job[j])
  BY DEF Inv, DataInv
<1>4. /\ n = job[j].rows_done /\ n \in 0 .. Len(File[j])
      /\ local[w].rows_failed = job[j].rows_failed
      /\ job[j].rows_failed = BadIn(Prefix(j)) /\ job[j].rows_failed \in Nat
  BY <1>1, <1>2, <1>3 DEF Inv, DataInv, Counts, AnyRow
<1>5. Prefix(j) = SubSeq(File[j], 1, n)
  BY <1>2, <1>4 DEF Prefix
<1>6. /\ Len(File[j]) \in Nat
      /\ SubSeq(File[j], 1, n) \in Seq(S)
      /\ Chunk(w) \in Seq(S)
      /\ Len(Chunk(w)) \in Nat /\ n + Len(Chunk(w)) \in 0 .. Len(File[j])
      /\ SubSeq(File[j], 1, n) \o Chunk(w) = SubSeq(File[j], 1, n + Len(Chunk(w)))
      /\ Chunk(w) = <<>> <=> n = Len(File[j])
  BY <1>1, <1>4, ChunkIs
<1> HIDE DEF S
<1>7. /\ BadIn(SubSeq(File[j], 1, n) \o Chunk(w)) = BadIn(Prefix(j)) + BadIn(Chunk(w))
      /\ Good(SubSeq(File[j], 1, n) \o Chunk(w)) = Good(Prefix(j)) \cup Good(Chunk(w))
  <2> DEFINE p == SubSeq(File[j], 1, n)
             c == Chunk(w)
  <2>1. p \in Seq(S) /\ c \in Seq(S)
    BY <1>6
  <2> HIDE DEF p, c
  <2>2. BadIn(p \o c) = BadIn(p) + BadIn(c) /\ Good(p \o c) = Good(p) \cup Good(c)
    BY <2>1, RowsAdd
  <2> QED
    BY <1>5, <2>2 DEF p, c
<1>8. BadIn(Chunk(w)) \in Nat
  BY <1>6, BadBounds
<1>9. /\ Counted(w).rows_done = n + Len(Chunk(w))
      /\ Counted(w).rows_failed = local[w].rows_failed + BadIn(Chunk(w))
      /\ Counted(w) \in CountType
  BY <1>4, <1>6, <1>8 DEF Counted, CountType
<1> HIDE DEF j, n
<1>10. /\ Counted(w).rows_done >= n
       /\ Counted(w).rows_failed >= local[w].rows_failed
  BY <1>4, <1>6, <1>8, <1>9
<1>11. SubSeq(File[j], 1, n) \o Chunk(w) = SubSeq(File[j], 1, Counted(w).rows_done)
  BY <1>6, <1>9
<1>12. Counted(w).rows_failed = BadIn(SubSeq(File[j], 1, Counted(w).rows_done))
  BY <1>4, <1>7, <1>9, <1>11
<1>13. Good(SubSeq(File[j], 1, Counted(w).rows_done)) = Good(Prefix(j)) \cup Good(Chunk(w))
  BY <1>7, <1>11
<1>14. Counted(w).rows_done \in 0 .. Len(File[j])
  BY <1>6, <1>9
<1>15. Chunk(w) = <<>> <=> job[j].rows_done = Len(File[j])
  BY <1>4, <1>6
<1> QED
  BY <1>1, <1>3, <1>9, <1>10, <1>12, <1>13, <1>14, <1>15 DEF j, n

\* process_import moves its own job's row and hash, and a death hands the job on.
LEMMA ProcessFlow == ASSUME Inv, NEW w \in Worker, Process(w) \/ Crash(w) PROVE FlowInv'
<1>1. Busy(w) /\ FlowInv
  BY DEF Process, Load, ShowProcessing, CommitChunk, ShowChunk, Finish, ShowDone, Crash, Goto,
         Busy, Inv
<1>2. /\ at[w] \in Job /\ job[at[w]] \in AnyRow /\ progress[at[w]] \in AnyRow
      /\ Counts(job[at[w]]) \in CountType
  BY <1>1, HasRows DEF Counts, CountType, AnyRow
<1>3. /\ job \in [Job -> {NoRow} \cup AnyRow] /\ progress \in [Job -> {NoRow} \cup AnyRow]
      /\ local \in [Worker -> CountType] /\ crashes \in 0 .. MaxCrashes
  BY <1>1 DEF FlowInv, FlowType, CountType
<1>4. /\ [job EXCEPT ![at[w]] = @] = job /\ [progress EXCEPT ![at[w]] = @] = progress
      /\ [local EXCEPT ![w] = @] = local
  BY <1>2, <1>3
<1>5. \A s \in Statuses : /\ [job[at[w]] EXCEPT !.status = s] \in AnyRow
                          /\ [progress[at[w]] EXCEPT !.status = s] \in AnyRow
                          /\ \A c \in CountType : Row(s, c) \in AnyRow
  BY <1>2 DEF AnyRow, Row, CountType
<1>6. CASE Load(w)
  <2>1. [job[at[w]] EXCEPT !.status = "processing"] \in AnyRow
    BY <1>5 DEF Statuses
  <2> QED
    BY <1>1, <1>2, <1>4, <1>6, <2>1, WritesFlow DEF Load, Goto
<1>7. CASE ShowProcessing(w)
  <2>1. [progress[at[w]] EXCEPT !.status = "processing"] \in AnyRow
    BY <1>5 DEF Statuses
  <2> QED
    BY <1>1, <1>2, <1>3, <1>4, <1>7, <2>1, WritesFlow DEF ShowProcessing, Goto
<1>8. CASE CommitChunk(w)
  <2>1. Counted(w) \in CountType
    BY <1>8, CountedIs DEF CommitChunk, Goto
  <2>2. Row(job[at[w]].status, Counted(w)) \in AnyRow
    BY <1>2, <1>5, <2>1 DEF AnyRow
  <2> QED
    BY <1>1, <1>2, <1>4, <1>8, <2>1, <2>2, WritesFlow DEF CommitChunk, Goto
<1>9. CASE ShowChunk(w)
  <2>1. Row(progress[at[w]].status, local[w]) \in AnyRow
    BY <1>2, <1>3, <1>5 DEF AnyRow
  <2> QED
    BY <1>1, <1>2, <1>3, <1>4, <1>9, <2>1, WritesFlow DEF ShowChunk, Goto
<1>10. CASE Finish(w)
  <2>1. [job[at[w]] EXCEPT !.status = "done"] \in AnyRow
    BY <1>5 DEF Statuses
  <2> QED
    BY <1>1, <1>2, <1>3, <1>4, <1>10, <2>1, WritesFlow DEF Finish, Goto
<1>11. CASE ShowDone(w)
  <2>1. [progress[at[w]] EXCEPT !.status = "done"] \in AnyRow
    BY <1>5 DEF Statuses
  <2> QED
    BY <1>1, <1>3, <1>11, <2>1, LeavesFlow DEF ShowDone, Goto
<1>12. CASE Crash(w)
  <2>1. crashes' \in 0 .. MaxCrashes
    BY <1>3, <1>12, ChunkAssumption DEF Crash
  <2> QED
    BY <1>1, <1>2, <1>4, <1>12, <2>1, LeavesFlow DEF Crash
<1> QED
  BY <1>6, <1>7, <1>8, <1>9, <1>10, <1>11, <1>12 DEF Process

\* Each step of the flow keeps it.
LEMMA NextFlow == Inv /\ [Next]_vars => FlowInv'
<1> SUFFICES ASSUME Inv, [Next]_vars PROVE FlowInv'
  OBVIOUS
<1>1. FlowInv
  BY DEF Inv
<1>2. CASE UNCHANGED vars
  BY <1>1, <1>2 DEF vars, FlowInv, FlowType, OnePlace, Nowhere, Busy
<1> QED
  BY <1>1, <1>2, ApiFlow, TakeFlow, ProcessFlow DEF Next

-----------------------------------------------------------------------------
(* Each step keeps the checkpoint and the data in agreement *)

\* At the start there are no rows and no leads.
LEMMA InitData == Init => DataInv
<1> SUFFICES ASSUME Init PROVE DataInv
  OBVIOUS
<1>1. \A j \in Job : Prefix(j) = <<>>
  BY DEF Init, Prefix
<1>2. Good(<<>>) = {}
  BY DEF Good, ToSet
<1>3. {{Tenant[j]} \X Good(Prefix(j)) : j \in Job} \subseteq {{}}
  BY <1>1, <1>2
<1> QED
  BY <1>3 DEF Init, DataInv

\* Rows that keep their counts keep their prefix.
LEMMA SamePrefix ==
  ASSUME DataInv, UNCHANGED leads,
         \A j \in Job : /\ job'[j] = NoRow <=> job[j] = NoRow
                        /\ job[j] # NoRow => Counts(job'[j]) = Counts(job[j]),
         \A w \in Worker : pc'[w] \notin {"idle", "load"} => local'[w] = Counts(job'[at'[w]])
  PROVE  DataInv'
<1>1. \A j \in Job : job[j] # NoRow =>
        job'[j].rows_done = job[j].rows_done /\ job'[j].rows_failed = job[j].rows_failed
  BY DEF Counts
<1>2. \A j \in Job : Prefix(j)' = Prefix(j)
  BY <1>1 DEF Prefix
<1>3. {{Tenant[j]} \X Good(Prefix(j))' : j \in Job} = {{Tenant[j]} \X Good(Prefix(j)) : j \in Job}
  BY <1>2 DEF Good
<1> QED
  BY <1>1, <1>2, <1>3 DEF DataInv, Good

\* A new row has read nothing of its file.
LEMMA ApiData ==
  ASSUME Inv, NEW j \in Job, Api(j) \/ ApiCrash(j)
  PROVE  DataInv'
<1>1. FlowInv /\ DataInv
  BY DEF Inv
<1>2. CASE InsertJob(j)
  <2>1. job[j] = NoRow /\ job' = [job EXCEPT ![j] = Row("queued", Zero)] /\ j \in DOMAIN job
    BY <1>1, <1>2 DEF InsertJob, ApiStep, FlowInv, FlowType, OnePlace
  <2>2. \A w \in Worker : Busy(w) => at[w] # j
    BY <1>1, <1>2 DEF InsertJob, ApiStep, FlowInv, OnePlace, Nowhere
  <2>3. job'[j] # NoRow /\ job'[j].rows_done = 0 /\ job'[j].rows_failed = 0
    BY <2>1, QueuedIsRow DEF Row, Zero
  <2>4. File[j] \in Seq(Email \cup {Bad}) /\ Len(File[j]) \in Nat
    BY FileAssumption, LenProperties
  <2>5. SubSeq(File[j], 1, 0) = <<>>
    BY SubSeqEmpty, <2>4
  <2>6. Prefix(j) = <<>> /\ Prefix(j)' = <<>>
    BY <2>1, <2>3, <2>5 DEF Prefix
  <2>7. BadIn(<<>>) = 0
    <3>1. {i \in DOMAIN <<>> : (<<>>)[i] = Bad} = {}
      OBVIOUS
    <3> QED
      BY <3>1, FS_EmptySet DEF BadIn
  <2>8. \A i \in Job : Prefix(i)' = Prefix(i)
    <3>1. \A i \in Job \ {j} : job'[i] = job[i]
      BY <1>1, <2>1 DEF FlowInv, FlowType
    <3>2. \A i \in Job \ {j} : Prefix(i)' = Prefix(i)
      BY <3>1 DEF Prefix
    <3> QED
      BY <2>6, <3>2
  <2>9. leads' = UNION {{Tenant[i]} \X Good(Prefix(i))' : i \in Job}
    BY <1>1, <1>2, <2>8 DEF InsertJob, ApiStep, DataInv, Good
  <2>10. \A i \in Job : job'[i] # NoRow =>
          job'[i].rows_done \in 0 .. Len(File[i]) /\ job'[i].rows_failed = BadIn(Prefix(i)')
    <3>1. \A i \in Job \ {j} : job'[i] = job[i]
      BY <1>1, <2>1 DEF FlowInv, FlowType
    <3>2. CASE \A i \in Job : Prefix(i)' = Prefix(i)
      <4>1. \A i \in Job \ {j} : job[i] # NoRow =>
             job[i].rows_done \in 0 .. Len(File[i]) /\ job[i].rows_failed = BadIn(Prefix(i))
        BY <1>1 DEF DataInv
      <4>2. 0 \in 0 .. Len(File[j]) /\ BadIn(Prefix(j)') = 0
        BY <2>4, <2>6, <2>7
      <4> QED
        BY <2>3, <3>1, <3>2, <4>1, <4>2
    <3> QED
      BY <2>8, <3>2
  <2>11. \A w \in Worker : pc'[w] \notin {"idle", "load"} => local'[w] = Counts(job'[at'[w]])
    <3>1. UNCHANGED <<pc, at, local>>
      BY <1>2 DEF InsertJob, ApiStep
    <3>2. \A w \in Worker : Busy(w) => at[w] \in Job \ {j}
      BY <1>1, <2>2 DEF FlowInv, FlowType
    <3>3. \A w \in Worker : Busy(w) => job'[at[w]] = job[at[w]]
      BY <2>1, <3>2
    <3> QED
      BY <1>1, <3>1, <3>3 DEF DataInv, Busy
  <2> QED
    BY <2>9, <2>10, <2>11 DEF DataInv, Good, BadIn
<1>3. CASE UNCHANGED <<job, leads, pc, at, local>>
  BY <1>1, <1>3, SamePrefix DEF DataInv
<1>4. CASE ShowQueued(j) \/ Push(j) \/ ApiCrash(j)
  <2>1. UNCHANGED <<job, leads, pc, at, local>>
    BY <1>4 DEF ShowQueued, Push, ApiCrash, ApiStep
  <2> QED BY <1>3, <2>1
<1> QED
  BY <1>2, <1>4 DEF Api

\* A worker that takes or leaves a job changes no row.
LEMMA TakeData ==
  ASSUME Inv, NEW w \in Worker, Pop(w) \/ Retry(w) \/ Crash(w) \/ ShowDone(w)
  PROVE  DataInv'
<1>1. FlowInv /\ DataInv
  BY DEF Inv
<1>2. UNCHANGED <<job, leads>>
  BY DEF Pop, Retry, Crash, ShowDone
<1>3. pc' = [pc EXCEPT ![w] = pc'[w]] /\ pc'[w] \in {"idle", "load"}
  BY <1>1 DEF Pop, Retry, Crash, ShowDone, Goto, FlowInv, FlowType
<1>4. \A v \in Worker \ {w} : pc'[v] = pc[v] /\ at'[v] = at[v] /\ local'[v] = local[v]
  BY <1>1 DEF Pop, Retry, Crash, ShowDone, Goto, FlowInv, FlowType
<1>5. \A v \in Worker : pc'[v] \notin {"idle", "load"} => local'[v] = Counts(job'[at'[v]])
  BY <1>1, <1>2, <1>3, <1>4 DEF DataInv
<1> QED
  BY <1>1, <1>2, <1>5, SamePrefix

\* Writing the hash changes no row.
LEMMA ReadData ==
  ASSUME Inv, NEW w \in Worker, ShowProcessing(w) \/ ShowChunk(w)
  PROVE  DataInv'
<1>1. FlowInv /\ DataInv
  BY DEF Inv
<1>2. UNCHANGED <<job, leads, at, local>>
  BY DEF ShowProcessing, ShowChunk
<1>3. /\ pc[w] \notin {"idle", "load"}
      /\ \A v \in Worker \ {w} : pc'[v] = pc[v]
  BY <1>1 DEF ShowProcessing, ShowChunk, Goto, FlowInv, FlowType
<1>4. \A v \in Worker : pc'[v] \notin {"idle", "load"} => local'[v] = Counts(job'[at'[v]])
  BY <1>1, <1>2, <1>3 DEF DataInv
<1> QED
  BY <1>1, <1>2, <1>4, SamePrefix

\* A worker loads the checkpoint of its row, and a status is no count.
LEMMA StatusData ==
  ASSUME Inv, NEW w \in Worker, Load(w) \/ Finish(w)
  PROVE  DataInv'
<1>1. FlowInv /\ DataInv
  BY DEF Inv
<1>2. Busy(w) /\ UNCHANGED <<leads, at>>
  BY DEF Load, Finish, Goto, Busy
<1>3. at[w] \in Job /\ job[at[w]] \in AnyRow /\ NoRow \notin AnyRow
  BY <1>1, <1>2, HasRows, QueuedIsRow
<1>4. PICK s \in Statuses : job' = [job EXCEPT ![at[w]].status = s]
  BY DEF Load, Finish, Statuses
<1>5. /\ job'[at[w]] \in AnyRow /\ Counts(job'[at[w]]) = Counts(job[at[w]])
      /\ \A j \in Job \ {at[w]} : job'[j] = job[j]
  BY <1>1, <1>3, <1>4 DEF AnyRow, Counts, FlowInv, FlowType
<1>6. local'[w] = Counts(job[at[w]])
  BY <1>1 DEF Load, Finish, Goto, FlowInv, FlowType, DataInv
<1>7. \A v \in Worker \ {w} : pc'[v] = pc[v] /\ local'[v] = local[v]
  BY <1>1 DEF Load, Finish, Goto, FlowInv, FlowType
<1>8. \A v \in Worker \ {w} : Busy(v) => at[v] \in Job \ {at[w]}
  BY <1>1, <1>2 DEF FlowInv, FlowType, OnePlace
<1>9. \A v \in Worker : pc'[v] \notin {"idle", "load"} => local'[v] = Counts(job'[at'[v]])
  BY <1>1, <1>2, <1>5, <1>6, <1>7, <1>8 DEF DataInv, Busy
<1>10. \A j \in Job : /\ job'[j] = NoRow <=> job[j] = NoRow
                      /\ job[j] # NoRow => Counts(job'[j]) = Counts(job[j])
  BY <1>3, <1>5
<1> QED
  BY <1>1, <1>2, <1>9, <1>10, SamePrefix

\* The rows of a file before the checkpoint of a row.
PrefixOf(rows, row) == IF row = NoRow THEN <<>> ELSE SubSeq(rows, 1, row.rows_done)

\* The transaction moves the leads and the checkpoint by the same chunk.
LEMMA CommitData ==
  ASSUME Inv, NEW w \in Worker, CommitChunk(w)
  PROVE  DataInv'
<1> DEFINE j == at[w]
           c == Counted(w)
<1>1. FlowInv /\ DataInv
  BY DEF Inv
<1>2. /\ pc[w] = "chunk" /\ pc' = [pc EXCEPT ![w] = "show_chunk"] /\ at' = at
      /\ leads' = leads \cup ({Tenant[j]} \X Good(Chunk(w)))
      /\ local' = [local EXCEPT ![w] = c]
      /\ job' = [job EXCEPT ![j] = Row(job[j].status, c)]
  BY DEF CommitChunk, Goto
<1>3. /\ j \in Job /\ job[j] \in AnyRow /\ c \in CountType
      /\ c.rows_done \in 0 .. Len(File[j])
      /\ c.rows_failed = BadIn(SubSeq(File[j], 1, c.rows_done))
      /\ Good(SubSeq(File[j], 1, c.rows_done)) = Good(Prefix(j)) \cup Good(Chunk(w))
  BY <1>2, CountedIs
<1> HIDE DEF j, c
<1>4. /\ job'[j] \in AnyRow /\ job'[j] # NoRow
      /\ job'[j].rows_done = c.rows_done /\ job'[j].rows_failed = c.rows_failed
      /\ Counts(job'[j]) = c
      /\ \A i \in Job \ {j} : job'[i] = job[i]
  BY <1>1, <1>2, <1>3, QueuedIsRow DEF FlowInv, FlowType, Row, AnyRow, Counts, CountType
<1>5. PrefixOf(File[j], job'[j]) = SubSeq(File[j], 1, c.rows_done)
  BY <1>4 DEF PrefixOf
<1>6. \A i \in Job \ {j} : PrefixOf(File[i], job'[i]) = Prefix(i)
  BY <1>4 DEF Prefix, PrefixOf
<1>7. \A i \in Job : job'[i] # NoRow =>
        job'[i].rows_done \in 0 .. Len(File[i])
        /\ job'[i].rows_failed = BadIn(PrefixOf(File[i], job'[i]))
  <2>1. \A i \in Job \ {j} : job[i] # NoRow =>
          job[i].rows_done \in 0 .. Len(File[i]) /\ job[i].rows_failed = BadIn(Prefix(i))
    BY <1>1 DEF DataInv
  <2>2. \A i \in Job \ {j} : job'[i] # NoRow =>
          job'[i].rows_done \in 0 .. Len(File[i])
          /\ job'[i].rows_failed = BadIn(PrefixOf(File[i], job'[i]))
    BY <1>4, <1>6, <2>1
  <2>3. job'[j].rows_done \in 0 .. Len(File[j])
        /\ job'[j].rows_failed = BadIn(PrefixOf(File[j], job'[j]))
    BY <1>3, <1>4, <1>5
  <2>4. ASSUME NEW i \in Job, job'[i] # NoRow
        PROVE  job'[i].rows_done \in 0 .. Len(File[i])
               /\ job'[i].rows_failed = BadIn(PrefixOf(File[i], job'[i]))
    <3>1. CASE i = j
      BY <2>3, <3>1
    <3>2. CASE i # j
      BY <2>2, <2>4, <3>2
    <3> QED BY <3>1, <3>2
  <2> QED
    BY <2>4
<1>8. /\ Good(PrefixOf(File[j], job'[j])) = Good(Prefix(j)) \cup Good(Chunk(w))
      /\ \A i \in Job \ {j} : Good(PrefixOf(File[i], job'[i])) = Good(Prefix(i))
  BY <1>3, <1>5, <1>6
<1>9. leads' = UNION {{Tenant[i]} \X Good(PrefixOf(File[i], job'[i])) : i \in Job}
  <2>1. leads = UNION {{Tenant[i]} \X Good(Prefix(i)) : i \in Job}
    BY <1>1 DEF DataInv
  <2>2. leads' = leads \cup ({Tenant[j]} \X Good(Chunk(w)))
    BY <1>2
  <2> DEFINE G(i) == Good(Prefix(i))
             H(i) == Good(PrefixOf(File[i], job'[i]))
             X == Good(Chunk(w))
  <2>3. H(j) = G(j) \cup X /\ \A i \in Job \ {j} : H(i) = G(i)
    BY <1>8
  <2>4. j \in Job /\ leads = UNION {{Tenant[i]} \X G(i) : i \in Job}
        /\ leads' = leads \cup ({Tenant[j]} \X X)
    BY <1>3, <2>1, <2>2
  <2> HIDE DEF G, H, X
  <2>5. ASSUME NEW x PROVE x \in leads' <=> \E i \in Job : x \in {Tenant[i]} \X H(i)
    <3>1. x \in leads' <=> (\E i \in Job : x \in {Tenant[i]} \X G(i)) \/ x \in {Tenant[j]} \X X
      BY <2>4
    <3>2. \A i \in Job \ {j} : {Tenant[i]} \X H(i) = {Tenant[i]} \X G(i)
      BY <2>3
    <3>3. {Tenant[j]} \X H(j) = ({Tenant[j]} \X G(j)) \cup ({Tenant[j]} \X X)
      BY <2>3
    <3> QED
      BY <2>4, <3>1, <3>2, <3>3
  <2>6. leads' = UNION {{Tenant[i]} \X H(i) : i \in Job}
    BY <2>5
  <2> QED
    BY <2>6 DEF H
<1>10. \A v \in Worker : pc'[v] \notin {"idle", "load"} => local'[v] = Counts(job'[at'[v]])
  <2>1. local'[w] = c /\ \A v \in Worker \ {w} : pc'[v] = pc[v] /\ local'[v] = local[v]
    BY <1>1, <1>2 DEF FlowInv, FlowType
  <2>2. \A v \in Worker \ {w} : Busy(v) => at[v] \in Job \ {j}
    BY <1>1, <1>2 DEF FlowInv, FlowType, OnePlace, Busy, j
  <2> QED
    BY <1>1, <1>2, <1>4, <2>1, <2>2 DEF DataInv, Busy, j
<1> QED
  BY <1>7, <1>9, <1>10 DEF DataInv, Good, BadIn, Prefix, PrefixOf

\* Each step keeps the data in agreement.
LEMMA NextData == Inv /\ [Next]_vars => DataInv'
<1> SUFFICES ASSUME Inv, [Next]_vars PROVE DataInv'
  OBVIOUS
<1>1. CASE UNCHANGED vars
  BY <1>1, SamePrefix DEF Inv, DataInv, vars
<1> QED
  BY <1>1, ApiData, TakeData, ReadData, StatusData, CommitData DEF Next, Process

\* Through every crash and resume the checkpoint and the data agree.
THEOREM InvHolds == Spec => []Inv
<1>1. Init => Inv
  BY InitFlow, InitData DEF Inv
<1>2. Inv /\ [Next]_vars => Inv'
  BY NextFlow, NextData DEF Inv
<1> QED
  BY <1>1, <1>2, PTL DEF Spec

-----------------------------------------------------------------------------
(* The hash trails the row *)

\* Jobs that a step leaves alone.
LEMMA OthersShown ==
  ASSUME ShownInv, NEW J \in SUBSET Job,
         \A j \in J : /\ UNCHANGED <<progress[j], job[j], api[j]>>
                      /\ Nowhere(j) => Nowhere(j)'
  PROVE  \A j \in J : progress'[j] # NoRow =>
           /\ progress'[j].rows_done <= job'[j].rows_done
           /\ progress'[j].rows_failed <= job'[j].rows_failed
           /\ progress'[j].status = "done" =>
                job'[j] = DoneRow(j) /\ Nowhere(j)' /\ api'[j] = "accepted"
BY DEF ShownInv

\* The hash starts at zero, below any row.
LEMMA ApiShown ==
  ASSUME Inv, ShownInv, NEW j \in Job, Api(j) \/ ApiCrash(j)
  PROVE  ShownInv'
<1>1. FlowInv
  BY DEF Inv
<1>2. UNCHANGED <<pc, at, failed>> /\ api[j] # "accepted"
  BY DEF Api, InsertJob, ShowQueued, Push, ApiCrash, ApiStep
<1>3. Nowhere(j)
  BY <1>1, <1>2 DEF FlowInv, OnePlace
<1>4. \A i \in Job \ {j} : UNCHANGED <<progress[i], job[i], api[i]>>
  BY <1>1 DEF Api, InsertJob, ShowQueued, Push, ApiCrash, ApiStep, FlowInv, FlowType
<1>5. \A i \in Job \ {j} : Nowhere(i) => Nowhere(i)'
  <2>1. \A i \in Job \ {j} : i \in ToSet(queue') => i \in ToSet(queue)
    <3>1. CASE Push(j)
      BY <1>1, <3>1, PushLeft DEF Push, FlowInv, FlowType
    <3>2. CASE UNCHANGED queue
      BY <3>2
    <3> QED
      BY <3>1, <3>2 DEF Api, InsertJob, ShowQueued, ApiCrash
  <2> QED
    BY <1>2, <2>1 DEF Nowhere, Busy
<1>6. \A i \in Job \ {j} : progress'[i] # NoRow =>
        /\ progress'[i].rows_done <= job'[i].rows_done
        /\ progress'[i].rows_failed <= job'[i].rows_failed
        /\ progress'[i].status = "done" =>
             job'[i] = DoneRow(i) /\ Nowhere(i)' /\ api'[i] = "accepted"
  <2>1. Job \ {j} \in SUBSET Job
    OBVIOUS
  <2> QED
    BY <1>4, <1>5, <2>1, OthersShown
<1>7. progress'[j] # NoRow =>
        /\ progress'[j].rows_done <= job'[j].rows_done
        /\ progress'[j].rows_failed <= job'[j].rows_failed
        /\ progress'[j].status # "done"
  <2>1. progress[j] # NoRow => progress[j].status # "done"
    BY <1>2 DEF ShownInv
  <2>2. CASE InsertJob(j)
    BY <1>1, <2>2 DEF InsertJob, ApiStep, FlowInv, FlowType, OnePlace
  <2>3. CASE ShowQueued(j)
    <3>1. progress'[j] = Row("queued", Zero) /\ job' = job
      BY <1>1, <2>3 DEF ShowQueued, FlowInv, FlowType
    <3>2. job[j] # NoRow /\ job[j] \in {NoRow} \cup AnyRow
      BY <1>1, <2>3 DEF ShowQueued, ApiStep, FlowInv, FlowType, OnePlace
    <3> QED
      BY <3>1, <3>2 DEF Row, Zero, AnyRow
  <2>4. CASE Push(j) \/ ApiCrash(j)
    BY <2>1, <2>4 DEF Push, ApiCrash, ShownInv
  <2> QED
    BY <2>2, <2>3, <2>4 DEF Api
<1>8. \A w \in Worker : pc'[w] = "show_done" => job'[at'[w]] = DoneRow(at'[w])
  <2>1. \A w \in Worker : Busy(w) => at[w] \in Job \ {j}
    BY <1>1, <1>3 DEF FlowInv, FlowType, Nowhere
  <2> QED
    BY <1>2, <1>4, <2>1 DEF ShownInv, Busy
<1> QED
  BY <1>6, <1>7, <1>8 DEF ShownInv, DoneRow

\* Jobs other than a worker's own, and the other workers.
LEMMA WorkerShown ==
  ASSUME Inv, ShownInv, NEW w \in Worker,
         \A v \in Worker \ {w} : UNCHANGED <<pc[v], at[v]>>,
         UNCHANGED api,
         NEW j \in Job, Busy(w) \/ Busy(w)',
         Busy(w) => at[w] = j, Busy(w)' => at'[w] = j,
         \A i \in Job \ {j} : UNCHANGED <<progress[i], job[i]>>,
         \A v \in Worker \ {w} : Busy(v) => at[v] # j,
         ToSet(queue') \subseteq ToSet(queue), failed' \subseteq failed \cup {j},
         progress'[j] # NoRow =>
           /\ progress'[j].rows_done <= job'[j].rows_done
           /\ progress'[j].rows_failed <= job'[j].rows_failed
           /\ progress'[j].status = "done" =>
                job'[j] = DoneRow(j) /\ Nowhere(j)' /\ api'[j] = "accepted",
         pc'[w] = "show_done" => job'[j] = DoneRow(j)
  PROVE  ShownInv'
<1>1. \A i \in Job \ {j} : Nowhere(i) => Nowhere(i)'
  BY DEF Nowhere, Busy
<1>2. \A i \in Job \ {j} : progress'[i] # NoRow =>
        /\ progress'[i].rows_done <= job'[i].rows_done
        /\ progress'[i].rows_failed <= job'[i].rows_failed
        /\ progress'[i].status = "done" =>
             job'[i] = DoneRow(i) /\ Nowhere(i)' /\ api'[i] = "accepted"
  <2>1. Job \ {j} \in SUBSET Job
    OBVIOUS
  <2>2. \A i \in Job \ {j} : UNCHANGED <<progress[i], job[i], api[i]>>
    OBVIOUS
  <2> QED
    BY <1>1, <2>1, <2>2, OthersShown, ZenonT(30)
<1>3. \A v \in Worker \ {w} : Busy(v) => at[v] \in Job \ {j}
  BY DEF Inv, FlowInv, FlowType
<1>4. \A v \in Worker : pc'[v] = "show_done" => job'[at'[v]] = DoneRow(at'[v])
  BY <1>3 DEF ShownInv, Busy
<1> QED
  BY <1>2, <1>4 DEF ShownInv, DoneRow

\* A job that can be taken is not shown done.
LEMMA TakeShown ==
  ASSUME Inv, ShownInv, NEW w \in Worker, Pop(w) \/ Retry(w)
  PROVE  ShownInv'
<1> DEFINE j == at'[w]
<1>1. FlowInv
  BY DEF Inv
<1>2. /\ pc[w] = "idle" /\ ~ Busy(w) /\ Busy(w)' /\ pc'[w] = "load"
      /\ UNCHANGED <<api, job, progress>>
      /\ \A v \in Worker \ {w} : UNCHANGED <<pc[v], at[v]>>
  BY <1>1 DEF Pop, Retry, Goto, FlowInv, FlowType, Busy
<1>3. /\ j \in Job /\ ~ Nowhere(j)
      /\ ToSet(queue') \subseteq ToSet(queue) /\ failed' \subseteq failed
      /\ \A v \in Worker \ {w} : Busy(v) => at[v] # j
  <2>1. CASE Pop(w)
    <3>1. /\ Last(queue) \in Job /\ queue' = Front(queue)
          /\ ToSet(queue) = {Last(queue)} \cup ToSet(Front(queue))
      BY <1>1, <2>1, PopRight DEF Pop, FlowInv, FlowType
    <3>2. j = Last(queue) /\ failed' = failed
      BY <1>1, <2>1 DEF Pop, FlowInv, FlowType
    <3> QED
      BY <1>1, <3>1, <3>2 DEF FlowInv, OnePlace, Nowhere
  <2>2. CASE Retry(w)
    <3>1. j \in failed /\ failed' \subseteq failed /\ queue' = queue
      BY <1>1, <2>2 DEF Retry, FlowInv, FlowType
    <3> QED
      BY <1>1, <3>1 DEF FlowInv, FlowType, OnePlace, Nowhere
  <2> QED BY <2>1, <2>2
<1> HIDE DEF j
<1>4. progress'[j] # NoRow =>
        /\ progress'[j].rows_done <= job'[j].rows_done
        /\ progress'[j].rows_failed <= job'[j].rows_failed
        /\ progress'[j].status # "done"
  BY <1>2, <1>3 DEF ShownInv
<1>5. at'[w] = j
  BY DEF j
<1> QED
  BY <1>2, <1>3, <1>4, <1>5, WorkerShown

\* The hash is written from counts the row already has.
LEMMA ProcessShown ==
  ASSUME Inv, ShownInv, NEW w \in Worker, Process(w) \/ Crash(w)
  PROVE  ShownInv'
<1>1. FlowInv /\ Busy(w)
  BY DEF Process, Load, ShowProcessing, CommitChunk, ShowChunk, Finish, ShowDone, Crash, Goto,
         Busy, Inv
<1>0. PICK j \in Job : j = at[w]
  BY <1>1, HasRows
<1> DEFINE p == progress[j]
           r == job[j]
<1>2. j \in Job /\ at[w] = j /\ r \in AnyRow /\ p \in AnyRow /\ NoRow \notin AnyRow
  BY <1>0, <1>1, HasRows, QueuedIsRow
<1>3. /\ p.rows_done \in Nat /\ p.rows_failed \in Nat /\ r.rows_done \in Nat
         /\ r.rows_failed \in Nat
      /\ p.rows_done <= r.rows_done /\ p.rows_failed <= r.rows_failed
      /\ p.status # "done" /\ p.status \in Statuses /\ r.status \in Statuses
      /\ p = Row(p.status, Counts(p)) /\ r = Row(r.status, Counts(r))
  BY <1>1, <1>2 DEF ShownInv, AnyRow, Nowhere, Row, Counts
<1>4. /\ \A v \in Worker \ {w} : UNCHANGED <<pc[v], at[v]>>
      /\ \A v \in Worker \ {w} : Busy(v) => at[v] # j
      /\ \A i \in Job \ {j} : UNCHANGED <<progress[i], job[i]>>
  BY <1>1, <1>2
  DEF Process, Load, ShowProcessing, CommitChunk, ShowChunk, Finish, ShowDone, Crash, Goto,
      FlowInv, FlowType, OnePlace
<1>5. UNCHANGED <<api, queue>>
  BY DEF Process, Load, ShowProcessing, CommitChunk, ShowChunk, Finish, ShowDone, Crash
<1>6. failed' \subseteq failed \cup {j}
  BY <1>2 DEF Process, Load, ShowProcessing, CommitChunk, ShowChunk, Finish, ShowDone, Crash
<1>7. /\ pc \in [Worker -> {"idle", "load", "show_processing", "chunk", "show_chunk", "show_done"}]
      /\ at \in [Worker -> Job \cup {NoJob}]
  BY <1>1 DEF FlowInv, FlowType
<1>8. (Busy(w) => at[w] = j) /\ (Busy(w)' => at'[w] = j)
  BY <1>1, <1>2, <1>7
  DEF Process, Load, ShowProcessing, CommitChunk, ShowChunk, Finish, ShowDone, Crash, Goto, Busy
<1>9. /\ progress'[j] # NoRow =>
           /\ progress'[j].rows_done <= job'[j].rows_done
           /\ progress'[j].rows_failed <= job'[j].rows_failed
           /\ progress'[j].status = "done" =>
                job'[j] = DoneRow(j) /\ Nowhere(j)' /\ api'[j] = "accepted"
      /\ pc'[w] = "show_done" => job'[j] = DoneRow(j)
  <2> USE <1>1, <1>2, <1>7
  <2>1. CASE Load(w) \/ ShowProcessing(w)
    <3>1. /\ job'[j] = Row(job'[j].status, Counts(r))
             /\ progress'[j] = Row(progress'[j].status, Counts(p))
          /\ progress'[j].status # "done" /\ pc'[w] # "show_done"
      <4>1. CASE Load(w)
        <5>1. job'[j] = [r EXCEPT !.status = "processing"] /\ progress'[j] = p
              /\ pc'[w] # "show_done"
          BY <4>1 DEF Load, Goto, FlowInv, FlowType
        <5> QED
          BY <1>3, <5>1 DEF Row, Counts, AnyRow
      <4>2. CASE ShowProcessing(w)
        <5>1. progress'[j] = [p EXCEPT !.status = "processing"] /\ job'[j] = r
              /\ pc'[w] # "show_done"
          BY <4>2 DEF ShowProcessing, Goto, FlowInv, FlowType
        <5> QED
          BY <1>3, <5>1 DEF Row, Counts, AnyRow
      <4> QED
        BY <2>1, <4>1, <4>2
    <3> QED
      BY <1>3, <3>1 DEF Row, Counts
  <2>2. CASE CommitChunk(w)
    <3>1. /\ Counted(w) \in CountType /\ local[w] = Counts(r)
          /\ Counted(w).rows_done >= local[w].rows_done
          /\ Counted(w).rows_failed >= local[w].rows_failed
      BY <2>2, CountedIs DEF CommitChunk, Goto
    <3>2. job'[j] = Row(r.status, Counted(w)) /\ progress'[j] = p /\ pc'[w] # "show_done"
      BY <2>2 DEF CommitChunk, Goto, FlowInv, FlowType
    <3> QED
      BY <1>3, <3>1, <3>2 DEF Row, Counts, CountType
  <2>3. CASE ShowChunk(w)
    <3>1. local[w] = Counts(r)
      BY <2>3 DEF ShowChunk, Goto, Inv, DataInv
    <3>2. progress'[j] = Row(p.status, local[w]) /\ job'[j] = r /\ pc'[w] # "show_done"
      BY <2>3 DEF ShowChunk, Goto, FlowInv, FlowType
    <3> QED
      BY <1>3, <3>1, <3>2 DEF Row, Counts
  <2>4. CASE Finish(w)
    <3>1. job'[j] = Row("done", Counts(r)) /\ progress'[j] = p
      BY <1>3, <2>4 DEF Finish, FlowInv, FlowType, Row, Counts
    <3>2. r.rows_done = Len(File[j]) /\ r.rows_failed = BadIn(Prefix(j)) /\ r # NoRow
      BY <2>4, CountedIs DEF Finish, Goto, Inv, DataInv
    <3>3. Prefix(j) = File[j]
      <4>1. File[j] \in Seq(Email \cup {Bad})
        BY FileAssumption
      <4>2. SubSeq(File[j], 1, Len(File[j])) = File[j]
        BY <4>1, SubSeqFull
      <4> QED
        BY <3>2, <4>2 DEF Prefix
    <3>4. job'[j] = DoneRow(j)
      BY <3>1, <3>2, <3>3 DEF DoneRow, Row, Counts
    <3> QED
      BY <1>3, <3>1, <3>4 DEF Row, Counts
  <2>5. CASE ShowDone(w)
    <3>1. r = DoneRow(j) /\ job' = job /\ pc' = [pc EXCEPT ![w] = "idle"]
      BY <2>5 DEF ShowDone, Goto, ShownInv
    <3>2. progress'[j] = Row("done", Counts(p))
      BY <1>3, <2>5 DEF ShowDone, FlowInv, FlowType, Row, Counts
    <3>3. api[j] = "accepted"
      BY DEF FlowInv, OnePlace, Nowhere
    <3>4. j \notin ToSet(queue') \cup failed'
      BY <1>5, <2>5 DEF ShowDone, FlowInv, OnePlace
    <3>5. \A v \in Worker : pc'[v] # "idle" => at'[v] # j
      BY <1>4, <3>1 DEF Busy
    <3>6. Nowhere(j)'
      BY <3>4, <3>5, <1>4, <1>5, <2>5, <3>1 DEF Nowhere, Busy, ShowDone, FlowInv, OnePlace
    <3> QED
      BY <1>3, <1>5, <3>1, <3>2, <3>3, <3>6 DEF Row, Counts, DoneRow
  <2>6. CASE Crash(w)
    <3>1. progress' = progress /\ job' = job /\ pc'[w] # "show_done"
      BY <2>6 DEF Crash
    <3> QED
      BY <1>3, <3>1
  <2> QED
    BY <2>1, <2>2, <2>3, <2>4, <2>5, <2>6 DEF Process
<1>10. ToSet(queue') \subseteq ToSet(queue)
  BY <1>5
<1> QED
  BY <1>1, <1>2, <1>4, <1>5, <1>6, <1>8, <1>9, <1>10, WorkerShown

-----------------------------------------------------------------------------
(* Theorems *)

\* The row, the leads and the hash, through every crash and resume.
THEOREM ShownHolds == Spec => [](Inv /\ ShownInv)
<1>1. Init => Inv /\ ShownInv
  <2>1. Init => ShownInv
    BY DEF Init, ShownInv, NoRow
  <2> QED
    BY <2>1, InitFlow, InitData DEF Inv
<1>2. ASSUME Inv, ShownInv, [Next]_vars PROVE Inv' /\ ShownInv'
  <2>1. Inv'
    BY <1>2, NextFlow, NextData DEF Inv
  <2>2. CASE UNCHANGED vars
    <3>1. \A j \in Job : Nowhere(j)' <=> Nowhere(j)
      BY <2>2 DEF vars, Nowhere, Busy
    <3>2. UNCHANGED <<api, job, progress, pc, at>>
      BY <2>2 DEF vars
    <3>3. \A j \in Job : progress'[j] # NoRow =>
            /\ progress'[j].rows_done <= job'[j].rows_done
            /\ progress'[j].rows_failed <= job'[j].rows_failed
            /\ progress'[j].status = "done" =>
                 job'[j] = DoneRow(j) /\ Nowhere(j)' /\ api'[j] = "accepted"
      BY <1>2, <3>1, <3>2 DEF ShownInv
    <3>4. \A w \in Worker : pc'[w] = "show_done" => job'[at'[w]] = DoneRow(at'[w])
      BY <1>2, <3>2 DEF ShownInv
    <3> QED
      BY <2>1, <3>3, <3>4 DEF ShownInv, DoneRow
  <2>3. ASSUME NEW j \in Job, Api(j) \/ ApiCrash(j) PROVE ShownInv'
    BY <1>2, <2>3, ApiShown
  <2>4. ASSUME NEW w \in Worker, Pop(w) \/ Retry(w) PROVE ShownInv'
    BY <1>2, <2>4, TakeShown
  <2>5. ASSUME NEW w \in Worker, Process(w) \/ Crash(w) PROVE ShownInv'
    BY <1>2, <2>5, ProcessShown
  <2> QED
    BY <1>2, <2>1, <2>2, <2>3, <2>4, <2>5 DEF Next
<1> QED
  BY <1>1, <1>2, PTL DEF Spec

\* A worker's job is its own, with its row and its hash, and is counted from the
\* row's checkpoint, which stays within the file.
THEOREM TypeCorrect == Spec => []TypeOK
<1>1. Inv /\ ShownInv => TypeOK
  <2> SUFFICES ASSUME Inv, ShownInv PROVE TypeOK
    OBVIOUS
  <2>1. FlowInv /\ DataInv
    BY DEF Inv
  <2>2. \A j \in Job : File[j] \in Seq(Email \cup {Bad}) /\ Len(File[j]) \in Nat
    BY FileAssumption, LenProperties
  <2>3. ASSUME NEW j \in Job, job[j] # NoRow PROVE job[j] \in RowType(j)
    <3>1. /\ job[j] \in AnyRow /\ job[j].rows_done \in 0 .. Len(File[j])
          /\ job[j].rows_failed = BadIn(Prefix(j))
      BY <2>1, <2>3 DEF FlowInv, FlowType, DataInv
    <3> DEFINE n == job[j].rows_done
               S == Email \cup {Bad}
    <3>2. Prefix(j) \in Seq(S) /\ Len(Prefix(j)) <= Len(File[j]) /\ Len(Prefix(j)) \in Nat
      <4>1. \A i \in 1 .. n : File[j][i] \in S
        BY <2>2, <3>1, ElementOfSeq
      <4>2. 1 \in Int /\ n \in Int
        BY <3>1
      <4> HIDE DEF n, S
      <4>3. /\ SubSeq(File[j], 1, n) \in Seq(S)
            /\ Len(SubSeq(File[j], 1, n)) = IF 1 <= n THEN n - 1 + 1 ELSE 0
        BY <4>1, <4>2, SubSeqProperties
      <4> QED
        BY <2>2, <2>3, <3>1, <4>3 DEF Prefix, n
    <3> HIDE DEF S
    <3>3. BadIn(Prefix(j)) \in 0 .. Len(Prefix(j))
      BY <3>2, BadBounds
    <3>4. job[j].rows_failed \in 0 .. Len(File[j])
      BY <2>2, <3>1, <3>2, <3>3
    <3> QED
      BY <3>1, <3>4 DEF AnyRow, RowType
  <2>4. ASSUME NEW j \in Job, progress[j] # NoRow PROVE progress[j] \in RowType(j)
    <3>1. progress[j] \in AnyRow
      BY <2>1, <2>4 DEF FlowInv, FlowType
    <3>2. job[j] # NoRow
      BY <2>1, <2>4 DEF FlowInv, OnePlace
    <3>3. job[j] \in RowType(j)
      BY <2>3, <3>2
    <3>4. /\ progress[j].rows_done <= job[j].rows_done
          /\ progress[j].rows_failed <= job[j].rows_failed
      BY <2>4 DEF ShownInv
    <3> QED
      BY <2>2, <3>1, <3>3, <3>4 DEF AnyRow, RowType
  <2>5. \A w \in Worker : at[w] \in IF pc[w] = "idle" THEN {NoJob} ELSE Job
    BY <2>1 DEF FlowInv, FlowType, Busy
  <2>6. ASSUME NEW w \in Worker, pc[w] # "idle"
        PROVE  /\ job[at[w]] # NoRow /\ progress[at[w]] # NoRow
               /\ at[w] \notin ToSet(queue) \cup failed
               /\ \A v \in Worker \ {w} : pc[v] # "idle" => at[v] # at[w]
               /\ pc[w] # "load" => local[w] = Counts(job[at[w]])
    <3>1. job[at[w]] # NoRow /\ progress[at[w]] # NoRow
      BY <2>1, <2>6, HasRows, QueuedIsRow DEF Busy
    <3> QED
      BY <2>1, <2>6, <3>1 DEF FlowInv, OnePlace, DataInv, Busy
  <2> QED
    BY <2>1, <2>3, <2>4, <2>5, <2>6 DEF TypeOK, FlowInv, FlowType
<1> QED
  BY <1>1, ShownHolds, PTL

\* The leads are exactly the good rows before the checkpoints, and rows_failed
\* counts the bad ones (line 138), however often workers die and jobs are retried.
THEOREM CheckpointHolds == Spec => []CheckpointMatchesData
<1>1. Inv => CheckpointMatchesData
  BY DEF Inv, DataInv, CheckpointMatchesData
<1> QED
  BY <1>1, ShownHolds, PTL

\* What a client polls is never ahead of the database.
THEOREM TrailsHolds == Spec => []ProgressTrailsDatabase
<1>1. ShownInv => ProgressTrailsDatabase
  BY DEF ShownInv, ProgressTrailsDatabase, DoneRow
<1> QED
  BY <1>1, ShownHolds, PTL

\* A client that polls never sees counts shrink, nor a done job queued again.
THEOREM NeverGoesBackHolds == Spec => ProgressNeverGoesBack
<1> DEFINE Kept(j) ==
      /\ progress'[j].rows_done >= progress[j].rows_done
      /\ progress'[j].rows_failed >= progress[j].rows_failed
      /\ progress[j].status = "done" => progress'[j].status = "done"
<1>1. ASSUME Inv, ShownInv, [Next]_vars, NEW j \in Job, progress[j] # NoRow
      PROVE  Kept(j)
  <2>1. FlowInv
    BY <1>1 DEF Inv
  <2>2. progress[j] \in AnyRow
    BY <1>1, <2>1 DEF FlowInv, FlowType
  <2>3. progress[j].rows_done \in Nat /\ progress[j].rows_failed \in Nat
    BY <2>2 DEF AnyRow
  <2>4. CASE progress'[j] = progress[j]
    BY <2>3, <2>4
  <2>5. CASE UNCHANGED progress
    BY <2>4, <2>5
  <2>6. ASSUME NEW i \in Job, Api(i) PROVE Kept(j)
    <3>1. CASE ShowQueued(i)
      <4>1. i # j
        BY <1>1, <2>1, <3>1 DEF ShowQueued, ApiStep, FlowInv, OnePlace
      <4> QED
        BY <2>4, <3>1, <4>1 DEF ShowQueued
    <3>2. CASE InsertJob(i) \/ Push(i)
      BY <2>5, <3>2 DEF InsertJob, Push
    <3> QED
      BY <2>6, <3>1, <3>2 DEF Api
  <2>7. ASSUME NEW w \in Worker, Process(w) PROVE Kept(j)
    <3>1. CASE at[w] # j
      <4>1. progress'[j] = progress[j]
        <5>1. progress \in [Job -> {NoRow} \cup AnyRow]
          BY <2>1 DEF FlowInv, FlowType
        <5>2. CASE ShowProcessing(w) \/ ShowChunk(w) \/ ShowDone(w)
          BY <3>1, <5>1, <5>2 DEF ShowProcessing, ShowChunk, ShowDone
        <5> QED
          BY <2>7, <5>2 DEF Process, Load, CommitChunk, Finish
      <4> QED
        BY <2>4, <4>1
    <3>2. CASE at[w] = j
      <4>1. progress[j].status # "done"
        <5>1. Busy(w)
          BY <2>7 DEF Process, Load, ShowProcessing, CommitChunk, ShowChunk, Finish, ShowDone,
                      Goto, Busy
        <5> QED
          BY <1>1, <3>2, <5>1 DEF ShownInv, Nowhere
      <4>2. CASE ShowChunk(w)
        <5>1. local[w] = Counts(job[j])
          BY <1>1, <3>2, <4>2 DEF ShowChunk, Goto, Inv, DataInv
        <5>2. progress'[j] = Row(progress[j].status, local[w])
          BY <2>1, <3>2, <4>2 DEF ShowChunk, FlowInv, FlowType
        <5>3. /\ progress[j].rows_done <= job[j].rows_done
              /\ progress[j].rows_failed <= job[j].rows_failed
          BY <1>1 DEF ShownInv
        <5>4. job[j] \in AnyRow
          BY <1>1, <2>1 DEF FlowInv, FlowType, OnePlace
        <5> QED
          BY <2>3, <4>1, <5>1, <5>2, <5>3, <5>4 DEF Row, Counts, AnyRow
      <4>3. CASE ShowProcessing(w) \/ ShowDone(w)
        <5>1. PICK s : progress'[j] = [progress[j] EXCEPT !.status = s]
          BY <2>1, <3>2, <4>3 DEF ShowProcessing, ShowDone, FlowInv, FlowType
        <5> QED
          BY <2>2, <2>3, <4>1, <5>1 DEF AnyRow
      <4>4. CASE Load(w) \/ CommitChunk(w) \/ Finish(w)
        BY <2>5, <4>4 DEF Load, CommitChunk, Finish
      <4> QED
        BY <2>7, <4>2, <4>3, <4>4 DEF Process
    <3> QED
      BY <3>1, <3>2
  <2>8. CASE (\E i \in Job : ApiCrash(i)) \/ \E w \in Worker : Pop(w) \/ Retry(w) \/ Crash(w)
    BY <2>5, <2>8 DEF ApiCrash, Pop, Retry, Crash
  <2>9. CASE UNCHANGED vars
    BY <2>5, <2>9 DEF vars
  <2> QED
    BY <1>1, <2>6, <2>7, <2>8, <2>9 DEF Next
<1>2. Inv /\ ShownInv /\ [Next]_vars =>
        [\A j \in Job : progress[j] # NoRow => Kept(j)]_vars
  BY <1>1
<1> QED
  BY <1>2, ShownHolds, PTL DEF Spec, ProgressNeverGoesBack
=============================================================================
