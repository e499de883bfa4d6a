-------------------------- MODULE ApiLogStoreProofs --------------------------
(***************************************************************************)
(* Proofs about ApiLogStore.  On the types rest three invariants, each of  *)
(* which says who still has to act when a property does not hold yet: an   *)
(* insertion that is about to evict, for a record without an index entry   *)
(* the task that indexes or deletes it, and for a call that is missing     *)
(* from a box the newer ones that took its place.                          *)
(***************************************************************************)
EXTENDS ApiLogStore, CollectionLemmas

-----------------------------------------------------------------------------
(* Sets of ids *)

NewerIn(ids, i) == {x \in ids : x > i}

\* As many newer ids as the cap lets in.
Outdated(ids, c, i) == Cardinality(NewerIn(ids, i)) >= c

\* The newer ids are finitely many, and more with more ids.
LEMMA NewerFinite ==
  ASSUME NEW S \in SUBSET Nat, IsFiniteSet(S), NEW i
  PROVE  /\ IsFiniteSet(NewerIn(S, i)) /\ Cardinality(NewerIn(S, i)) \in Nat
         /\ Cardinality(NewerIn(S, i)) <= Cardinality(S)
<1>1. NewerIn(S, i) \subseteq S
  BY DEF NewerIn
<1> QED
  BY <1>1, FS_Subset, FS_CardinalityType

\* An id that was outdated is so after an insertion.
LEMMA InsertKeeps ==
  ASSUME NEW S \in SUBSET Nat, IsFiniteSet(S), NEW c \in Nat, NEW i, NEW k \in Nat,
         Outdated(S, c, i)
  PROVE  Outdated(S \cup {k}, c, i)
<1>1. IsFiniteSet(S \cup {k}) /\ S \cup {k} \in SUBSET Nat
  BY FS_AddElement
<1> DEFINE T == S \cup {k}
<1>2. NewerIn(S, i) \subseteq NewerIn(T, i)
  BY DEF NewerIn
<1> HIDE DEF T
<1>3. IsFiniteSet(NewerIn(T, i)) /\ Cardinality(NewerIn(T, i)) \in Nat
  BY <1>1, NewerFinite DEF T
<1>4. Cardinality(NewerIn(S, i)) <= Cardinality(NewerIn(T, i)) /\ Cardinality(NewerIn(S, i)) \in Nat
  BY <1>2, <1>3, NewerFinite, FS_Subset
<1> QED
  BY <1>3, <1>4 DEF Outdated, T

\* Evicting the oldest of too many ids outdates it, and leaves what was outdated so.
LEMMA EvictKeeps ==
  ASSUME NEW S \in SUBSET Nat, IsFiniteSet(S), NEW c \in Nat, Cardinality(S) > c
  PROVE  LET m == Min(S)
         IN  /\ m \in S
             /\ Outdated(S \ {m}, c, m)
             /\ \A i \in Nat : Outdated(S, c, i) => Outdated(S \ {m}, c, i)
<1> DEFINE m == Min(S)
           T == S \ {m}
<1>1. S # {}
  BY FS_EmptySet
<1>2. m \in S /\ \A x \in S : m =< x
  BY <1>1, MinOfNaturals
<1>3. IsFiniteSet(T) /\ Cardinality(T) = Cardinality(S) - 1 /\ T \in SUBSET Nat
  BY <1>2, FS_RemoveElement
<1>4. Cardinality(S) \in Nat
  BY FS_CardinalityType
<1> HIDE DEF m, T
<1>5. ASSUME NEW i \in Nat, i <= m PROVE Outdated(T, c, i)
  <2>1. \A x \in T : x \in Nat /\ x > m /\ m \in Nat
    BY <1>2 DEF T
  <2>2. NewerIn(T, i) = T
    BY <1>5, <2>1 DEF NewerIn
  <2> QED
    BY <1>3, <1>4, <2>2 DEF Outdated
<1>6. ASSUME NEW i \in Nat, ~ i <= m, Outdated(S, c, i) PROVE Outdated(T, c, i)
  <2>1. NewerIn(T, i) = NewerIn(S, i)
    BY <1>2, <1>6 DEF NewerIn, T
  <2> QED
    BY <1>6, <2>1 DEF Outdated
<1>7. m \in Nat /\ m <= m
  BY <1>2
<1> QED
  BY <1>2, <1>5, <1>6, <1>7 DEF m, T

\* When every id is in the set or outdated, and the set is within the cap, it
\* holds the newest ids.
LEMMA NewestIds ==
  ASSUME NEW n \in Nat, NEW S \in SUBSET (1 .. n), NEW c \in Nat, Cardinality(S) <= c,
         \A i \in 1 .. n : i \in S \/ Outdated(S, c, i)
  PROVE  S = {i \in 1 .. n : i > n - c}
<1>1. IsFiniteSet(1 .. n) /\ Cardinality(1 .. n) = n
  BY FS_Interval
<1>2. IsFiniteSet(S) /\ S \in SUBSET Nat /\ Cardinality(S) \in Nat
  <2>1. IsFiniteSet(S)
    BY <1>1, FS_Subset
  <2>2. 1 .. n \subseteq Nat
    OBVIOUS
  <2> QED
    BY <2>1, <2>2, FS_CardinalityType
<1>3. CASE S = 1 .. n
  BY <1>1, <1>3
<1>4. CASE S # 1 .. n
  <2> DEFINE Out == (1 .. n) \ S
             Mirror == {n - i : i \in Out}
  <2>1. Out # {} /\ Out \subseteq 1 .. n
    BY <1>4
  <2>2. PICK k \in Out : \A i \in Out : i <= k
    <3>1. Mirror \subseteq Nat /\ Mirror # {}
      BY <2>1
    <3>2. PICK d \in Mirror : \A e \in Mirror : d =< e
      BY <3>1, LeastOf
    <3>3. PICK k \in Out : d = n - k
      OBVIOUS
    <3>4. \A i \in Out : n - k =< n - i /\ i \in Nat /\ k \in Nat
      <4>1. \A i \in Out : n - i \in Mirror /\ i \in Nat
        OBVIOUS
      <4> QED
        BY <3>2, <3>3, <4>1
    <3>5. \A i \in Out : i <= k
      BY <3>4
    <3> QED BY <3>5
  <2>3. Outdated(S, c, k) /\ k \in 1 .. n
    BY <2>1, <2>2
  <2>4. NewerIn(S, k) \subseteq S /\ Cardinality(NewerIn(S, k)) <= Cardinality(S)
    BY <1>2, NewerFinite DEF NewerIn
  <2>5. Cardinality(NewerIn(S, k)) \in Nat
    BY <1>2, NewerFinite
  <2>6. Cardinality(NewerIn(S, k)) = c /\ Cardinality(S) = c
    BY <1>2, <2>3, <2>4, <2>5 DEF Outdated
  <2>7. NewerIn(S, k) = S
    BY <1>2, <2>4, <2>6, FS_Subset
  <2>8. S = k + 1 .. n
    <3>1. \A i \in S : i > k
      BY <2>7 DEF NewerIn
    <3>2. \A i \in 1 .. n : i > k => i \in S
      BY <2>2, <2>3
    <3>3. \A i \in S : i \in k + 1 .. n
      BY <2>3, <3>1
    <3>4. \A i \in k + 1 .. n : i \in S
      BY <2>3, <3>2
    <3> QED
      BY <3>3, <3>4
  <2>9. Cardinality(S) = n - k
    BY <2>3, <2>8, FS_Interval
  <2> QED
    BY <2>3, <2>6, <2>8, <2>9
<1> QED
  BY <1>3, <1>4

-----------------------------------------------------------------------------
(* Invariants *)

UpsertTask == [op : {"upsert"}, id : 1 .. calls, by : {"request", "response"},
               at : {"index", "cap", "evict"}, victim : 0 .. calls]
DeleteTask == [op : {"delete"}, id : 1 .. calls]
PurgeTask == [op : {"purge"}, ids : SUBSET (1 .. calls)]

Types ==
  /\ phase \in {"down", "purging", "up"}
  /\ calls \in 0 .. MaxCalls /\ cap \in Caps /\ upsets \in 0 .. MaxUpsets
  /\ box \subseteq 1 .. calls /\ index \subseteq 1 .. calls
  /\ open \subseteq 1 .. calls /\ orphaned \subseteq 1 .. calls
  /\ armed \in BOOLEAN /\ fresh \in BOOLEAN /\ overdue \in BOOLEAN
  /\ Shown \/ timeline = "closed" => phase = "up"
  /\ tasks \subseteq UpsertTask \cup DeleteTask \cup {Clear} \cup PurgeTask
  /\ \A t \in tasks : t.op = "upsert" => (t.victim # 0 <=> t.at = "evict")
  /\ phase = "down" => tasks = {}
  /\ phase = "purging" => tasks # {} /\ \A s, t \in tasks : s = t /\ t.op = "purge"
  /\ phase = "up" => \A t \in tasks : t.op # "purge"

Evicting(t) == t.op = "upsert" /\ t.at \in {"cap", "evict"}
Indexing(t, i) == t.op = "upsert" /\ t.at = "index" /\ t.id = i
Removing(t, i) ==
  \/ t.op = "upsert" /\ t.at = "evict" /\ t.victim = i
  \/ t.op = "purge" /\ i \in t.ids

\* Who went over the cap is still evicting.
CapInv == overdue \/ Cardinality(index) <= cap \/ \E t \in tasks : Evicting(t)

\* A record without an index entry was orphaned, or is about to get one, or to go.
OrphanInv ==
  \A i \in box \ index : i \in orphaned \/ \E t \in tasks : Indexing(t, i) \/ Removing(t, i)

\* Before the first upset a call that is missing from the index, once it was in
\* it, or from the records is outdated.
NewestInv == upsets = 0 =>
  /\ orphaned = {} /\ ~overdue
  /\ phase # "up" => calls = 0
  /\ \A t \in tasks : t.op \in {"upsert", "purge"}
  /\ \A i \in 1 .. calls :
       \/ i \in index \/ Outdated(index, cap, i)
       \/ \E t \in tasks : Indexing(t, i)
  /\ \A i \in (1 .. calls) \ box : Outdated(index, cap, i)
  /\ \A t \in tasks : t.op = "upsert" /\ t.at = "evict" => Outdated(index, cap, t.victim)

\* A task is what its operation says.
LEMMA TaskIs ==
  ASSUME Types, NEW t \in tasks
  PROVE  /\ t.op \in {"upsert", "delete", "clear", "purge"}
         /\ t.op = "upsert" => t \in UpsertTask
         /\ t.op = "delete" => t \in DeleteTask
         /\ t.op = "clear" => t = Clear
         /\ t.op = "purge" => t \in PurgeTask /\ phase = "purging" /\ tasks = {t}
         /\ t.op # "purge" => phase = "up"
BY DEF Types, UpsertTask, DeleteTask, PurgeTask, Clear

\* The boxes are finite, and the cap counts something.
LEMMA Finite ==
  ASSUME Types
  PROVE  /\ IsFiniteSet(index) /\ index \in SUBSET Nat /\ Cardinality(index) \in Nat
         /\ cap \in Nat \ {0} /\ calls \in Nat
<1>1. calls \in Nat /\ IsFiniteSet(1 .. calls) /\ index \subseteq 1 .. calls
  BY FS_Interval, BoundsAssumption DEF Types
<1>2. IsFiniteSet(index)
  BY <1>1, FS_Subset
<1>3. index \subseteq Nat
  BY <1>1
<1> QED
  BY <1>1, <1>2, <1>3, FS_CardinalityType, CapsAssumption DEF Types

\* The least id of an index that is over the cap.
LEMMA VictimIs ==
  ASSUME Types, Cardinality(index) > cap
  PROVE  Min(index) \in index /\ Min(index) \in 1 .. calls
<1>1. Min(index) \in index
  BY Finite, EvictKeeps
<1> QED
  BY <1>1 DEF Types

\* The upserts that a step adds or moves on.
LEMMA UpsertIs ==
  ASSUME NEW n \in Nat, NEW i \in 1 .. n, NEW by \in {"request", "response"},
         NEW at \in {"index", "cap", "evict"}, NEW v \in 0 .. n
  PROVE  [op |-> "upsert", id |-> i, by |-> by, at |-> at, victim |-> v]
           \in [op : {"upsert"}, id : 1 .. n, by : {"request", "response"},
                at : {"index", "cap", "evict"}, victim : 0 .. n]
OBVIOUS

\* At the start the store is empty and nothing runs.
LEMMA InitTypes == Init => Types
<1> SUFFICES ASSUME Init PROVE Types
  OBVIOUS
<1>1. calls \in 0 .. MaxCalls /\ upsets \in 0 .. MaxUpsets
  BY BoundsAssumption DEF Init
<1> QED
  BY <1>1 DEF Init, Types, Shown

Look == Rebuild \/ OpenTimeline \/ CloseTimeline

\* To look at the timeline changes nothing that the store keeps.
LEMMA LookKeeps ==
  ASSUME Types, Look
  PROVE  /\ UNCHANGED <<phase, box, index, cap, tasks, calls, open, orphaned, overdue, upsets>>
         /\ armed' \in BOOLEAN /\ fresh' \in BOOLEAN
         /\ (Shown \/ timeline = "closed" => phase = "up")'
<1>1. CASE Rebuild
  BY <1>1 DEF Rebuild, Types, Shown, boxes, host, ghosts
<1>2. CASE OpenTimeline
  BY <1>2 DEF OpenTimeline, Types, Shown, boxes, host, ghosts
<1>3. CASE CloseTimeline
  BY <1>3 DEF CloseTimeline, Types, Shown, boxes, host, ghosts
<1> QED
  BY <1>1, <1>2, <1>3 DEF Look

\* Steps of the app and the interceptor.
LEMMA HostTypes ==
  ASSUME Types, Start \/ Request \/ (\E i \in Call : Respond(i)) \/ Look \/ Kill
  PROVE  Types'
<1>1. CASE Start
  <2>1. PICK cutoff \in 0 .. calls :
          LET old == {i \in index : i <= cutoff}
          IN  index' = index \ old /\ tasks' = {Purge(old)}
    BY <1>1 DEF Start
  <2> DEFINE old == {i \in index : i <= cutoff}
  <2>2. old \subseteq 1 .. calls
    BY DEF Types
  <2> HIDE DEF old
  <2>3. index' = index \ old /\ tasks' = {Purge(old)}
    BY <2>1 DEF old
  <2>4. Purge(old) \in PurgeTask' /\ Purge(old).op = "purge"
    BY <1>1, <2>2 DEF Purge, PurgeTask, Start, host
  <2> QED
    BY <1>1, <2>3, <2>4 DEF Start, Types, Shown, host, view, ghosts
<1>2. CASE Request
  <2>1. calls' = calls + 1 /\ calls' \in 0 .. MaxCalls /\ calls \in Nat
    BY <1>2, BoundsAssumption DEF Request, Types
  <2>2. /\ 1 .. calls \subseteq 1 .. calls' /\ 0 .. calls \subseteq 0 .. calls'
        /\ calls' \in 1 .. calls'
    BY <2>1
  <2>3. /\ UpsertTask \subseteq UpsertTask' /\ DeleteTask \subseteq DeleteTask'
        /\ PurgeTask \subseteq PurgeTask'
    BY <2>2 DEF UpsertTask, DeleteTask, PurgeTask
  <2>4. Upsert(calls', "request", "index") \in UpsertTask'
    BY <2>1, <2>2, UpsertIs DEF UpsertTask, Upsert
  <2>5. tasks' = tasks \cup {Upsert(calls', "request", "index")}
    BY <1>2 DEF Request
  <2>6. \A t \in tasks' : t.op = "upsert" => (t.victim # 0 <=> t.at = "evict")
    BY <2>5 DEF Types, Upsert
  <2>7. \A t \in tasks' : t.op # "purge"
    BY <1>2, <2>5 DEF Types, Upsert, Request
  <2> QED
    BY <1>2, <2>1, <2>2, <2>3, <2>4, <2>5, <2>6, <2>7 DEF Request, Types, ghosts
<1>3. ASSUME NEW i \in Call, Respond(i) PROVE Types'
  <2>1. i \in 1 .. calls /\ calls \in Nat /\ calls' = calls
    BY <1>3, BoundsAssumption DEF Respond, Types
  <2>2. Upsert(i, "response", "index") \in UpsertTask
    BY <2>1, UpsertIs DEF UpsertTask, Upsert
  <2>3. UpsertTask' = UpsertTask /\ DeleteTask' = DeleteTask /\ PurgeTask' = PurgeTask
    BY <2>1 DEF UpsertTask, DeleteTask, PurgeTask
  <2>4. /\ tasks' \in {tasks, tasks \cup {Upsert(i, "response", "index")}}
        /\ phase' = "up" /\ phase = "up"
    BY <1>3 DEF Respond
  <2>5. \A t \in tasks' : t.op = "upsert" => (t.victim # 0 <=> t.at = "evict")
    BY <2>4 DEF Types, Upsert
  <2>6. \A t \in tasks' : t.op # "purge"
    BY <2>4 DEF Types, Upsert
  <2>7. tasks' \subseteq UpsertTask' \cup DeleteTask' \cup {Clear} \cup PurgeTask'
    BY <2>2, <2>3, <2>4 DEF Types
  <2> QED
    BY <1>3, <2>1, <2>4, <2>5, <2>6, <2>7 DEF Respond, Types, ghosts
<1>4. CASE Look
  BY <1>4, LookKeeps DEF Types, UpsertTask, DeleteTask, PurgeTask
<1>5. CASE Kill
  <2>1. upsets' \in 0 .. MaxUpsets
    BY <1>5, BoundsAssumption DEF Kill, Upset, Types
  <2>2. fresh' \in BOOLEAN /\ armed' \in BOOLEAN /\ overdue' \in BOOLEAN
    BY <1>5 DEF Kill
  <2> QED
    BY <1>5, <2>1, <2>2 DEF Kill, Types, Shown, boxes
<1> QED
  BY <1>1, <1>2, <1>3, <1>4, <1>5

\* Steps of the screens.
LEMMA ScreenTypes ==
  ASSUME Types,
         (\E i \in Call : DeleteRecord(i)) \/ ClearRecords \/ \E c \in Caps : UpdateRetention(c)
  PROVE  Types'
<1>1. UpsertTask' = UpsertTask /\ DeleteTask' = DeleteTask /\ PurgeTask' = PurgeTask
  BY DEF UpsertTask, DeleteTask, PurgeTask, DeleteRecord, ClearRecords, UpdateRetention, host
<1>2. upsets' \in 0 .. MaxUpsets
  BY BoundsAssumption DEF Types, Upset, DeleteRecord, ClearRecords, UpdateRetention
<1>3. ASSUME NEW i \in Call, DeleteRecord(i) PROVE Types'
  <2>1. Delete(i) \in DeleteTask /\ Delete(i).op = "delete"
    BY <1>3 DEF DeleteTask, Delete, DeleteRecord
  <2> QED
    BY <1>1, <1>2, <1>3, <2>1 DEF DeleteRecord, Types, host, ghosts
<1>4. CASE ClearRecords
  <2>1. tasks' = tasks \cup {Clear} /\ Clear.op = "clear" /\ phase = "up" /\ phase' = "up"
    BY <1>4 DEF ClearRecords, Clear
  <2>2. \A t \in tasks' : t.op # "purge" /\ (t.op = "upsert" => (t.victim # 0 <=> t.at = "evict"))
    BY <2>1 DEF Types
  <2>3. tasks' \subseteq UpsertTask' \cup DeleteTask' \cup {Clear} \cup PurgeTask'
    BY <1>1, <2>1 DEF Types
  <2> QED
    BY <1>2, <1>4, <2>1, <2>2, <2>3 DEF ClearRecords, Types, host, ghosts
<1>5. ASSUME NEW c \in Caps, UpdateRetention(c) PROVE Types'
  BY <1>1, <1>2, <1>5 DEF UpdateRetention, Types, boxes, host, view
<1> QED
  BY <1>3, <1>4, <1>5

\* A task goes on, and what follows it is of its kind.
LEMMA ContinuationTypes ==
  ASSUME Types, Continuation
  PROVE  Types'
<1>1. PICK t \in tasks : \/ PurgeBox(t) \/ IndexRecord(t) \/ EvictIndex(t) \/ EvictRecord(t)
                         \/ DeleteIndex(t) \/ ClearIndex(t)
  BY DEF Continuation
<1>2. calls' = calls /\ upsets' = upsets /\ cap' = cap /\ open' = open
  BY <1>1 DEF PurgeBox, IndexRecord, EvictIndex, EvictRecord, DeleteIndex, ClearIndex, host
<1>3. UpsertTask' = UpsertTask /\ DeleteTask' = DeleteTask /\ PurgeTask' = PurgeTask
  BY <1>2 DEF UpsertTask, DeleteTask, PurgeTask
<1>4. CASE PurgeBox(t)
  BY <1>2, <1>3, <1>4, TaskIs DEF PurgeBox, Types, Shown, view, ghosts
<1>5. ASSUME t.op # "purge", phase' = phase,
             armed' \in BOOLEAN, fresh' \in BOOLEAN, overdue' \in BOOLEAN, timeline' = timeline,
             box' \subseteq box, index' \subseteq index \cup ({t.id} \cap 1 .. calls),
             orphaned' \subseteq orphaned \cup box,
             NEW new \in SUBSET UpsertTask, \A n \in new : n.victim # 0 <=> n.at = "evict",
             tasks' = (tasks \ {t}) \cup new
      PROVE  Types'
  <2>1. phase = "up"
    BY <1>5, TaskIs
  <2>2. \A n \in new : n.op = "upsert"
    BY DEF UpsertTask
  <2>3. \A s \in tasks' : s \in tasks \/ s \in new
    BY <1>5
  <2>4. \A s \in tasks' : s.op # "purge" /\ (s.op = "upsert" => (s.victim # 0 <=> s.at = "evict"))
    BY <1>5, <2>1, <2>2, <2>3 DEF Types
  <2>5. tasks' \subseteq UpsertTask' \cup DeleteTask' \cup {Clear} \cup PurgeTask'
    BY <1>3, <2>3 DEF Types
  <2> QED
    BY <1>2, <1>5, <2>1, <2>4, <2>5 DEF Types
<1>7. armed \in BOOLEAN /\ fresh \in BOOLEAN /\ overdue \in BOOLEAN /\ calls \in Nat
  BY Finite DEF Types
<1>8. CASE IndexRecord(t)
  <2>1. t \in UpsertTask /\ t.victim = 0
    BY <1>8, TaskIs DEF IndexRecord, Types
  <2>3. [t EXCEPT !.at = "cap"] \in UpsertTask /\ [t EXCEPT !.at = "cap"].at = "cap"
        /\ [t EXCEPT !.at = "cap"].victim = 0
    BY <2>1 DEF UpsertTask
  <2>4. t.id \in 1 .. calls
    BY <2>1 DEF UpsertTask
  <2>5. t.op # "purge" /\ UNCHANGED <<phase, box, timeline, fresh, overdue>>
    BY <1>8 DEF IndexRecord, EndTask, Continue, view
  <2>6. CASE t.id \in index
    <3>1. /\ tasks' = (tasks \ {t}) \cup {} /\ {} \in SUBSET UpsertTask /\ armed' \in BOOLEAN
          /\ UNCHANGED <<index, orphaned>>
      BY <1>8, <2>6 DEF IndexRecord, EndTask
    <3>2. \A n \in {} : n.victim # 0 <=> n.at = "evict"
      OBVIOUS
    <3> QED
      BY <1>5, <1>7, <2>5, <3>1, <3>2
  <2>7. CASE t.id \notin index
    <3> DEFINE new == {[t EXCEPT !.at = "cap"]}
    <3>1. /\ tasks' = (tasks \ {t}) \cup new /\ armed' = armed
          /\ index' = index \cup {t.id} /\ orphaned' = orphaned \ {t.id}
      BY <1>8, <2>7 DEF IndexRecord, Continue, view
    <3>2. new \in SUBSET UpsertTask /\ \A n \in new : n.victim # 0 <=> n.at = "evict"
      BY <2>3
    <3> HIDE DEF new
    <3> QED
      BY <1>5, <1>7, <2>4, <2>5, <3>1, <3>2
  <2> QED
    BY <2>6, <2>7
<1>9. CASE EvictIndex(t)
  <2>1. t \in UpsertTask
    BY <1>9, TaskIs DEF EvictIndex
  <2>2. CASE Cardinality(index) > cap
    <3>1. Min(index) \in 0 .. calls /\ Min(index) # 0
      BY <2>2, VictimIs
    <3>2. /\ index' = index \ {Min(index)}
          /\ tasks' = (tasks \ {t}) \cup {[t EXCEPT !.at = "evict", !.victim = Min(index)]}
      BY <1>9, <2>2 DEF EvictIndex, Continue
    <3> DEFINE next == [t EXCEPT !.at = "evict", !.victim = Min(index)]
               new == {next}
    <3>3. new \in SUBSET UpsertTask /\ \A n \in new : n.victim # 0 <=> n.at = "evict"
      <4>1. next \in UpsertTask /\ next.at = "evict" /\ next.victim # 0
        BY <2>1, <3>1 DEF UpsertTask
      <4> HIDE DEF next
      <4> QED
        BY <4>1
    <3>5. tasks' = (tasks \ {t}) \cup new
      BY <3>2
    <3> HIDE DEF new
    <3>4. UNCHANGED <<phase, timeline, armed, fresh, overdue, box, orphaned>> /\ t.op # "purge"
      BY <1>9, <2>2 DEF EvictIndex, Continue, view
    <3> QED
      BY <1>5, <1>7, <3>2, <3>3, <3>4, <3>5
  <2>3. CASE ~ Cardinality(index) > cap
    <3>1. /\ tasks' = (tasks \ {t}) \cup {} /\ {} \in SUBSET UpsertTask
          /\ armed' \in BOOLEAN /\ UNCHANGED <<timeline, fresh>> /\ overdue' = FALSE
          /\ UNCHANGED <<phase, index, box, orphaned>> /\ t.op # "purge"
      BY <1>9, <2>3 DEF EvictIndex, EndTask
    <3>2. \A n \in {} : n.victim # 0 <=> n.at = "evict"
      OBVIOUS
    <3> QED
      BY <1>5, <1>7, <3>1, <3>2
  <2> QED
    BY <2>2, <2>3
<1>10. CASE EvictRecord(t)
  <2>1. t \in UpsertTask
    BY <1>10, TaskIs DEF EvictRecord
  <2> DEFINE next == [t EXCEPT !.at = "cap", !.victim = 0]
             new == {next}
  <2>2. new \in SUBSET UpsertTask /\ \A n \in new : n.victim # 0 <=> n.at = "evict"
    <3>1. 0 \in 0 .. calls
      BY <1>7
    <3>2. next \in UpsertTask /\ next.at = "cap" /\ next.victim = 0
      BY <2>1, <3>1 DEF UpsertTask
    <3> HIDE DEF next
    <3> QED
      BY <3>2
  <2>3. /\ tasks' = (tasks \ {t}) \cup new /\ t.op # "purge"
        /\ box' \subseteq box /\ fresh' = FALSE
        /\ UNCHANGED <<phase, index, timeline, armed, orphaned, overdue>>
    BY <1>10 DEF EvictRecord, ghosts
  <2> HIDE DEF new
  <2> QED
    BY <1>5, <1>7, <2>2, <2>3
<1>11. CASE DeleteIndex(t) \/ ClearIndex(t)
  <2>1. /\ tasks' = (tasks \ {t}) \cup {} /\ {} \in SUBSET UpsertTask /\ t.op # "purge"
        /\ armed' \in BOOLEAN /\ index' \subseteq index /\ orphaned' \subseteq orphaned \cup box
        /\ UNCHANGED <<phase, box, timeline, fresh, overdue>>
    BY <1>11 DEF DeleteIndex, ClearIndex, EndTask
  <2>2. \A n \in {} : n.victim # 0 <=> n.at = "evict"
    OBVIOUS
  <2> QED
    BY <1>5, <1>7, <2>1, <2>2
<1> QED
  BY <1>1, <1>4, <1>8, <1>9, <1>10, <1>11

-----------------------------------------------------------------------------
(* Who went over the cap is still evicting *)

\* An insertion is an eviction under way, and only the cap ends it.
LEMMA CapStep == ASSUME Types, CapInv, Next PROVE CapInv'
<1>1. Cardinality(index) \in Nat /\ cap \in Nat /\ IsFiniteSet(index)
  BY Finite
<1>2. ASSUME index' \subseteq index
      PROVE  Cardinality(index') \in Nat /\ Cardinality(index') <= Cardinality(index)
  BY <1>1, <1>2, FS_Subset, FS_CardinalityType
<1>3. CASE Start
  <2>1. overdue' = overdue /\ cap' = cap /\ index' \subseteq index /\ tasks = {}
    BY <1>3 DEF Start, Types, ghosts
  <2> QED
    BY <1>1, <1>2, <2>1 DEF CapInv
<1>4. CASE UNCHANGED <<index, cap, overdue>> /\ tasks \subseteq tasks'
  BY <1>4 DEF CapInv
<1>5. CASE Request \/ (\E i \in Call : Respond(i)) \/ Look
           \/ (\E i \in Call : DeleteRecord(i)) \/ ClearRecords
  <2>1. UNCHANGED <<index, cap, overdue>> /\ tasks \subseteq tasks'
    BY <1>5, LookKeeps DEF Request, Respond, DeleteRecord, ClearRecords, boxes, ghosts
  <2> QED BY <1>4, <2>1
<1>6. CASE Kill
  BY <1>6 DEF Kill, CapInv
<1>7. ASSUME NEW c \in Caps, UpdateRetention(c) PROVE CapInv'
  <2>1. /\ cap' = c /\ c \in Nat /\ overdue' = (overdue \/ c < cap)
        /\ index' = index /\ tasks' = tasks
    BY <1>7, CapsAssumption DEF UpdateRetention, boxes
  <2>2. CASE overdue'
    BY <2>2 DEF CapInv
  <2>3. CASE ~ overdue'
    <3>1. ~ overdue /\ ~ c < cap
      BY <2>1, <2>3
    <3>2. Cardinality(index) <= cap => Cardinality(index') <= cap'
      BY <1>1, <2>1, <3>1
    <3> QED
      BY <2>1, <3>1, <3>2 DEF CapInv
  <2> QED BY <2>2, <2>3
<1>8. ASSUME NEW t \in tasks,
             \/ PurgeBox(t) \/ IndexRecord(t) \/ EvictIndex(t) \/ EvictRecord(t)
             \/ DeleteIndex(t) \/ ClearIndex(t)
      PROVE  CapInv'
  <2>1. cap' = cap
    BY <1>8 DEF PurgeBox, IndexRecord, EvictIndex, EvictRecord, DeleteIndex, ClearIndex
  <2>2. ASSUME ~ Evicting(t), tasks' = tasks \ {t}, overdue' = overdue, index' \subseteq index
        PROVE  CapInv'
    BY <1>1, <1>2, <2>1, <2>2 DEF CapInv
  <2>3. CASE PurgeBox(t) \/ DeleteIndex(t) \/ ClearIndex(t)
    <3>1. /\ ~ Evicting(t) /\ tasks' = tasks \ {t} /\ overdue' = overdue /\ index' \subseteq index
      BY <2>3 DEF PurgeBox, DeleteIndex, ClearIndex, Evicting, EndTask, ghosts
    <3> QED BY <2>2, <3>1
  <2>4. CASE IndexRecord(t)
    <3>1. CASE t.id \in index
      <4>1. ~ Evicting(t) /\ tasks' = tasks \ {t} /\ overdue' = overdue /\ index' = index
        BY <2>4, <3>1 DEF IndexRecord, EndTask, Evicting
      <4> QED BY <2>2, <4>1
    <3>2. CASE t.id \notin index
      <4>1. t \in UpsertTask
        BY <2>4, TaskIs DEF IndexRecord
      <4>2. Evicting([t EXCEPT !.at = "cap"])
        BY <4>1 DEF Evicting, UpsertTask
      <4>3. [t EXCEPT !.at = "cap"] \in tasks'
        BY <2>4, <3>2 DEF IndexRecord, Continue
      <4> QED
        BY <4>2, <4>3 DEF CapInv
    <3> QED BY <3>1, <3>2
  <2>5. CASE EvictIndex(t)
    <3>1. CASE Cardinality(index) > cap
      <4>1. t \in UpsertTask
        BY <2>5, TaskIs DEF EvictIndex
      <4>2. Evicting([t EXCEPT !.at = "evict", !.victim = Min(index)])
        BY <4>1 DEF Evicting, UpsertTask
      <4>3. [t EXCEPT !.at = "evict", !.victim = Min(index)] \in tasks'
        BY <2>5, <3>1 DEF EvictIndex, Continue
      <4> QED
        BY <4>2, <4>3 DEF CapInv
    <3>2. CASE ~ Cardinality(index) > cap
      <4>1. index' = index
        BY <2>5, <3>2 DEF EvictIndex
      <4>2. Cardinality(index') <= cap'
        BY <1>1, <2>1, <3>2, <4>1
      <4> QED
        BY <4>2 DEF CapInv
    <3> QED BY <3>1, <3>2
  <2>6. CASE EvictRecord(t)
    <3>1. t \in UpsertTask
      BY <2>6, TaskIs DEF EvictRecord
    <3>2. Evicting([t EXCEPT !.at = "cap", !.victim = 0])
      BY <3>1 DEF Evicting, UpsertTask
    <3>3. [t EXCEPT !.at = "cap", !.victim = 0] \in tasks'
      BY <2>6 DEF EvictRecord
    <3> QED
      BY <3>2, <3>3 DEF CapInv
  <2> QED BY <1>8, <2>3, <2>4, <2>5, <2>6
<1> QED
  BY <1>3, <1>5, <1>6, <1>7, <1>8 DEF Next, Continuation, Look

-----------------------------------------------------------------------------
(* A record without an index entry is explained *)

\* An id leaves the index only with a task that removes its record, or as orphaned.
LEMMA OrphanStep == ASSUME Types, OrphanInv, Next PROVE OrphanInv'
<1>1. CASE Start
  <2>1. PICK cutoff \in 0 .. calls :
          LET old == {i \in index : i <= cutoff}
          IN  index' = index \ old /\ tasks' = {Purge(old)}
    BY <1>1 DEF Start
  <2> DEFINE old == {i \in index : i <= cutoff}
  <2>2. index' = index \ old /\ tasks' = {Purge(old)}
    BY <2>1
  <2> HIDE DEF old
  <2>3. tasks = {} /\ box' = box /\ orphaned' = orphaned
    BY <1>1 DEF Start, Types, ghosts
  <2>4. \A i \in old : Removing(Purge(old), i)
    BY DEF Removing, Purge
  <2> QED
    BY <2>2, <2>3, <2>4 DEF OrphanInv
<1>2. CASE Request
  <2>1. Indexing(Upsert(calls', "request", "index"), calls')
    BY DEF Indexing, Upsert
  <2> QED
    BY <1>2, <2>1 DEF Request, OrphanInv, ghosts
<1>3. CASE /\ box' \subseteq box /\ tasks \subseteq tasks'
           /\ UNCHANGED <<index, orphaned>>
  BY <1>3 DEF OrphanInv
<1>4. CASE (\E i \in Call : Respond(i)) \/ Look \/ (\E i \in Call : DeleteRecord(i))
           \/ ClearRecords \/ \E c \in Caps : UpdateRetention(c)
  <2>1. /\ box' \subseteq box /\ tasks \subseteq tasks'
        /\ UNCHANGED <<index, orphaned>>
    BY <1>4, LookKeeps DEF Respond, DeleteRecord, ClearRecords, UpdateRetention, boxes, ghosts
  <2> QED BY <1>3, <2>1
<1>5. CASE Kill
  BY <1>5 DEF Kill, OrphanInv, boxes
<1>6. ASSUME NEW t \in tasks,
             \/ PurgeBox(t) \/ IndexRecord(t) \/ EvictIndex(t) \/ EvictRecord(t)
             \/ DeleteIndex(t) \/ ClearIndex(t),
             NEW i \in box' \ index'
      PROVE  i \in orphaned' \/ \E s \in tasks' : Indexing(s, i) \/ Removing(s, i)
  <2>1. i \in box /\ tasks \ {t} \subseteq tasks'
    BY <1>6 DEF PurgeBox, IndexRecord, EvictIndex, EvictRecord, DeleteIndex, ClearIndex,
                EndTask, Continue
  <2>2. ASSUME i \notin index, ~ Indexing(t, i), ~ Removing(t, i), i \in orphaned => i \in orphaned'
        PROVE  i \in orphaned' \/ \E s \in tasks' : Indexing(s, i) \/ Removing(s, i)
    BY <2>1, <2>2 DEF OrphanInv
  <2>3. CASE PurgeBox(t)
    <3>1. i \notin index /\ ~ Indexing(t, i) /\ ~ Removing(t, i) /\ orphaned' = orphaned
      BY <1>6, <2>3 DEF PurgeBox, Indexing, Removing, ghosts
    <3> QED BY <2>2, <3>1
  <2>4. CASE IndexRecord(t)
    <3>1. i \notin index /\ i # t.id /\ orphaned \ {t.id} \subseteq orphaned'
      BY <1>6, <2>4 DEF IndexRecord
    <3>2. ~ Indexing(t, i) /\ ~ Removing(t, i)
      BY <2>4, <3>1 DEF IndexRecord, Indexing, Removing
    <3> QED BY <2>2, <3>1, <3>2
  <2>5. CASE EvictIndex(t)
    <3>1. orphaned' = orphaned /\ ~ Indexing(t, i) /\ ~ Removing(t, i)
      BY <2>5 DEF EvictIndex, Indexing, Removing
    <3>2. CASE i \notin index
      BY <2>2, <3>1, <3>2
    <3>3. CASE i \in index
      <4>1. t \in UpsertTask
        BY <2>5, TaskIs DEF EvictIndex
      <4>2. i = Min(index) /\ [t EXCEPT !.at = "evict", !.victim = Min(index)] \in tasks'
        BY <1>6, <2>5, <3>3 DEF EvictIndex, Continue
      <4>3. Removing([t EXCEPT !.at = "evict", !.victim = Min(index)], Min(index))
        BY <4>1 DEF Removing, UpsertTask
      <4> QED
        BY <4>2, <4>3
    <3> QED BY <3>2, <3>3
  <2>6. CASE EvictRecord(t)
    <3>1. i \notin index /\ i # t.victim /\ orphaned' = orphaned
      BY <1>6, <2>6 DEF EvictRecord, ghosts
    <3>2. ~ Indexing(t, i) /\ ~ Removing(t, i)
      BY <2>6, <3>1 DEF EvictRecord, Indexing, Removing
    <3> QED BY <2>2, <3>1, <3>2
  <2>7. CASE DeleteIndex(t)
    <3>1. ~ Indexing(t, i) /\ ~ Removing(t, i) /\ orphaned' = orphaned \cup ({t.id} \cap box)
          /\ index' = index \ {t.id}
      BY <2>7 DEF DeleteIndex, Indexing, Removing
    <3> QED
      BY <1>6, <2>1, <2>2, <3>1
  <2>8. CASE ClearIndex(t)
    BY <2>1, <2>8 DEF ClearIndex
  <2> QED BY <1>6, <2>3, <2>4, <2>5, <2>6, <2>7, <2>8
<1> QED
  BY <1>1, <1>2, <1>4, <1>5, <1>6 DEF Next, Continuation, Look, OrphanInv

-----------------------------------------------------------------------------
(* Before the first upset the boxes hold the newest calls *)

\* Only outdated ids are evicted, and they stay outdated.
LEMMA NewestStep == ASSUME Types, NewestInv, Next PROVE NewestInv'
<1> SUFFICES ASSUME upsets' = 0 PROVE NewestInv'
  BY DEF NewestInv
<1>1. /\ IsFiniteSet(index) /\ index \in SUBSET Nat /\ Cardinality(index) \in Nat
      /\ cap \in Nat \ {0} /\ calls \in Nat
  BY Finite
<1>2. ~ Upset
  BY BoundsAssumption DEF Upset, Types
<1>3. upsets = 0
  BY <1>2 DEF Next, Start, Request, Respond, Continuation, PurgeBox, IndexRecord, EvictIndex,
              EvictRecord, DeleteIndex, ClearIndex, Rebuild, OpenTimeline, CloseTimeline, Kill,
              DeleteRecord, ClearRecords, UpdateRetention
<1>4. /\ orphaned = {} /\ ~overdue
      /\ phase # "up" => calls = 0
      /\ \A t \in tasks : t.op \in {"upsert", "purge"}
      /\ \A i \in 1 .. calls :
           i \in index \/ Outdated(index, cap, i) \/ \E t \in tasks : Indexing(t, i)
      /\ \A i \in (1 .. calls) \ box : Outdated(index, cap, i)
      /\ \A t \in tasks : t.op = "upsert" /\ t.at = "evict" => Outdated(index, cap, t.victim)
  BY <1>3 DEF NewestInv
<1>5. CASE Start
  <2>1. PICK old : tasks' = {Purge(old)}
    BY <1>5 DEF Start
  <2>2. calls = 0 /\ calls' = 0 /\ orphaned' = {} /\ ~ overdue'
    BY <1>4, <1>5 DEF Start, host, ghosts
  <2>3. \A t \in tasks' : t.op = "purge"
    BY <2>1 DEF Purge
  <2>4. 1 .. calls' = {}
    BY <2>2
  <2> QED
    BY <2>2, <2>3, <2>4 DEF NewestInv
<1>6. CASE Request
  <2> DEFINE new == Upsert(calls', "request", "index")
  <2>1. new.op = "upsert" /\ new.at = "index" /\ Indexing(new, calls')
    BY DEF Upsert, Indexing
  <2>2. /\ calls' = calls + 1 /\ tasks' = tasks \cup {new} /\ box' = box \cup {calls'}
        /\ UNCHANGED <<phase, index, cap, orphaned, overdue>> /\ phase = "up"
    BY <1>6 DEF Request, ghosts
  <2>3. \A i \in 1 .. calls' : i \in 1 .. calls \/ i = calls'
    BY <1>1, <2>2
  <2> HIDE DEF new
  <2>4. \A i \in 1 .. calls' :
          i \in index' \/ Outdated(index', cap', i) \/ \E t \in tasks' : Indexing(t, i)
    BY <1>4, <2>1, <2>2, <2>3
  <2>5. \A i \in (1 .. calls') \ box' : Outdated(index', cap', i)
    BY <1>4, <2>2, <2>3
  <2>6. \A t \in tasks' : /\ t.op \in {"upsert", "purge"}
                          /\ t.op = "upsert" /\ t.at = "evict" => Outdated(index', cap', t.victim)
    BY <1>4, <2>1, <2>2
  <2> QED
    BY <1>4, <2>2, <2>4, <2>5, <2>6 DEF NewestInv
<1>7. ASSUME NEW i \in Call, Respond(i) PROVE NewestInv'
  <2> DEFINE new == Upsert(i, "response", "index")
  <2>1. new.op = "upsert" /\ new.at = "index"
    BY DEF Upsert
  <2>2. /\ tasks' \in {tasks, tasks \cup {new}} /\ box' = box
        /\ UNCHANGED <<phase, index, cap, calls, orphaned, overdue>>
    BY <1>7 DEF Respond, ghosts
  <2> HIDE DEF new
  <2>3. tasks \subseteq tasks'
    BY <2>2
  <2>4. \A t \in tasks' : /\ t.op \in {"upsert", "purge"}
                          /\ t.op = "upsert" /\ t.at = "evict" => Outdated(index', cap', t.victim)
    BY <1>4, <2>1, <2>2
  <2> QED
    BY <1>4, <2>2, <2>3, <2>4 DEF NewestInv
<1>8. CASE Look
  BY <1>4, <1>8, LookKeeps DEF NewestInv
<1>9. ASSUME NEW t \in tasks, t.op = "upsert",
             UNCHANGED <<phase, cap, calls>>, orphaned' = {}, ~ overdue',
             index' \in SUBSET Nat,
             \A i \in Nat : Outdated(index, cap, i) => Outdated(index', cap, i),
             NEW new \in SUBSET UpsertTask, tasks' = (tasks \ {t}) \cup new,
             \A n \in new : n.at = "evict" => Outdated(index', cap, n.victim),
             \A i \in 1 .. calls : i \in index => i \in index' \/ Outdated(index', cap, i),
             \A i \in 1 .. calls : Indexing(t, i) => i \in index',
             \A i \in box \ box' : Outdated(index', cap, i)
      PROVE  NewestInv'
  <2>1. \A n \in new : n.op = "upsert"
    BY DEF UpsertTask
  <2>2. \A s \in tasks : s.op = "upsert" => s.victim \in Nat
    BY <1>1, TaskIs DEF UpsertTask
  <2>3. 1 .. calls \subseteq Nat
    BY <1>1
  <2>4. \A i \in 1 .. calls :
          i \in index' \/ Outdated(index', cap, i) \/ \E s \in tasks' : Indexing(s, i)
    BY <1>4, <1>9, <2>3
  <2>5. \A i \in (1 .. calls) \ box' : Outdated(index', cap, i)
    BY <1>4, <1>9, <2>3
  <2>6. \A s \in tasks' : s.op \in {"upsert", "purge"}
    BY <1>4, <1>9, <2>1
  <2>7. \A s \in tasks' : s.op = "upsert" /\ s.at = "evict" => Outdated(index', cap, s.victim)
    BY <1>4, <1>9, <2>2
  <2> QED
    BY <1>4, <1>9, <2>4, <2>5, <2>6, <2>7 DEF NewestInv
<1>10. ASSUME NEW t \in tasks, PurgeBox(t) PROVE NewestInv'
  <2>1. tasks = {t} /\ calls = 0 /\ calls' = 0
    BY <1>4, <1>10, TaskIs DEF PurgeBox, host
  <2>2. tasks' = {} /\ 1 .. calls' = {} /\ phase' = "up" /\ orphaned' = {} /\ ~ overdue'
    BY <1>4, <1>10, <2>1 DEF PurgeBox, ghosts
  <2> QED
    BY <2>2 DEF NewestInv
<1>11. ASSUME NEW t \in tasks, IndexRecord(t) PROVE NewestInv'
  <2>1. t \in UpsertTask /\ t.op = "upsert" /\ t.at = "index" /\ t.id \in Nat
    BY <1>1, <1>11, TaskIs DEF IndexRecord, UpsertTask
  <2>2. /\ UNCHANGED <<phase, cap, calls, box>> /\ orphaned' = {} /\ ~ overdue'
    BY <1>4, <1>11 DEF IndexRecord, host
  <2>3. \A i \in 1 .. calls : Indexing(t, i) => i \in index'
    BY <1>11 DEF IndexRecord, Indexing
  <2>4. CASE t.id \in index
    <3>1. index' = index /\ tasks' = (tasks \ {t}) \cup {} /\ {} \in SUBSET UpsertTask
      BY <1>11, <2>4 DEF IndexRecord, EndTask
    <3>2. \A n \in {} : n.at = "evict" => Outdated(index', cap, n.victim)
      OBVIOUS
    <3> QED
      BY <1>1, <1>9, <2>1, <2>2, <2>3, <3>1, <3>2
  <2>5. CASE t.id \notin index
    <3> DEFINE next == [t EXCEPT !.at = "cap"]
               new == {next}
    <3>1. index' = index \cup {t.id} /\ tasks' = (tasks \ {t}) \cup new
      BY <1>11, <2>5 DEF IndexRecord, Continue
    <3>2. next \in UpsertTask /\ next.at = "cap"
      BY <2>1 DEF UpsertTask
    <3> HIDE DEF next
    <3>3. /\ new \in SUBSET UpsertTask
          /\ \A n \in new : n.at = "evict" => Outdated(index', cap, n.victim)
      BY <3>2
    <3> HIDE DEF new
    <3>4. \A i \in Nat : Outdated(index, cap, i) => Outdated(index', cap, i)
      BY <1>1, <2>1, <3>1, InsertKeeps
    <3> QED
      BY <1>1, <1>9, <2>1, <2>2, <2>3, <3>1, <3>3, <3>4
  <2> QED BY <2>4, <2>5
<1>12. ASSUME NEW t \in tasks, EvictIndex(t) PROVE NewestInv'
  <2>1. t \in UpsertTask /\ t.op = "upsert" /\ t.at = "cap"
    BY <1>12, TaskIs DEF EvictIndex
  <2>2. \A i : ~ Indexing(t, i)
    BY <2>1 DEF Indexing
  <2>3. UNCHANGED <<phase, cap, calls, box>> /\ orphaned' = {}
    BY <1>4, <1>12 DEF EvictIndex, host
  <2>4. CASE ~ Cardinality(index) > cap
    <3>1. /\ index' = index /\ tasks' = (tasks \ {t}) \cup {} /\ {} \in SUBSET UpsertTask
          /\ ~ overdue'
      BY <1>12, <2>4 DEF EvictIndex, EndTask
    <3>2. \A n \in {} : n.at = "evict" => Outdated(index', cap, n.victim)
      OBVIOUS
    <3> QED
      BY <1>1, <1>9, <2>1, <2>2, <2>3, <3>1, <3>2
  <2>5. CASE Cardinality(index) > cap
    <3> DEFINE m == Min(index)
               next == [t EXCEPT !.at = "evict", !.victim = m]
               new == {next}
    <3>1. /\ m \in index /\ Outdated(index \ {m}, cap, m)
          /\ \A i \in Nat : Outdated(index, cap, i) => Outdated(index \ {m}, cap, i)
      BY <1>1, <2>5, EvictKeeps
    <3>2. m \in 0 .. calls
      BY <2>5, VictimIs
    <3>3. index' = index \ {m} /\ tasks' = (tasks \ {t}) \cup new /\ ~ overdue'
      BY <1>4, <1>12, <2>5 DEF EvictIndex, Continue
    <3> HIDE DEF m
    <3>4. next \in UpsertTask /\ next.victim = m
      BY <2>1, <3>2 DEF UpsertTask
    <3> HIDE DEF next
    <3>5. /\ new \in SUBSET UpsertTask
          /\ \A n \in new : n.at = "evict" => Outdated(index', cap, n.victim)
      BY <3>1, <3>3, <3>4
    <3> HIDE DEF new
    <3>6. \A i \in 1 .. calls : i \in index => i \in index' \/ Outdated(index', cap, i)
      BY <3>1, <3>3
    <3>7. index' \in SUBSET Nat
      BY <1>1, <3>3
    <3> QED
      BY <1>9, <2>1, <2>2, <2>3, <3>1, <3>3, <3>5, <3>6, <3>7
  <2> QED BY <2>4, <2>5
<1>13. ASSUME NEW t \in tasks, EvictRecord(t) PROVE NewestInv'
  <2>1. t \in UpsertTask /\ t.op = "upsert" /\ t.at = "evict"
    BY <1>13, TaskIs DEF EvictRecord
  <2>2. \A i : ~ Indexing(t, i)
    BY <2>1 DEF Indexing
  <2> DEFINE next == [t EXCEPT !.at = "cap", !.victim = 0]
             new == {next}
  <2>3. /\ UNCHANGED <<phase, cap, calls, index>> /\ orphaned' = {} /\ ~ overdue'
        /\ box' = box \ {t.victim} /\ tasks' = (tasks \ {t}) \cup new
    BY <1>4, <1>13 DEF EvictRecord, host, ghosts
  <2>4. 0 \in 0 .. calls
    BY <1>1
  <2>5. next \in UpsertTask /\ next.at = "cap"
    BY <2>1, <2>4 DEF UpsertTask
  <2> HIDE DEF next
  <2>6. /\ new \in SUBSET UpsertTask
        /\ \A n \in new : n.at = "evict" => Outdated(index', cap, n.victim)
    BY <2>5
  <2> HIDE DEF new
  <2>7. \A i \in box \ box' : Outdated(index', cap, i)
    BY <1>4, <2>1, <2>3
  <2> QED
    BY <1>1, <1>9, <2>1, <2>2, <2>3, <2>6, <2>7
<1>14. ASSUME NEW t \in tasks, DeleteIndex(t) \/ ClearIndex(t) PROVE FALSE
  BY <1>4, <1>14 DEF DeleteIndex, ClearIndex
<1> QED
  BY <1>2, <1>5, <1>6, <1>7, <1>8, <1>10, <1>11, <1>12, <1>13, <1>14
  DEF Next, Continuation, Look, Kill, DeleteRecord, ClearRecords, UpdateRetention

-----------------------------------------------------------------------------
(* Theorems *)

Inv == Types /\ CapInv /\ OrphanInv /\ NewestInv

\* What the tasks and the boxes are, and who still has to act.
THEOREM InvHolds == Spec => []Inv
<1>1. Init => Inv
  <2> SUFFICES ASSUME Init PROVE Inv
    OBVIOUS
  <2>1. Types
    BY InitTypes
  <2>2. Cardinality(index) <= cap
    BY <2>1, Finite, FS_EmptySet DEF Init
  <2>3. 1 .. calls = {}
    BY DEF Init
  <2> QED
    BY <2>1, <2>2, <2>3 DEF Init, Inv, CapInv, OrphanInv, NewestInv
<1>2. ASSUME Inv, [Next]_vars PROVE Inv'
  <2>1. CASE Next
    BY <1>2, <2>1, HostTypes, ScreenTypes, ContinuationTypes, CapStep, OrphanStep, NewestStep
    DEF Next, Look, Inv
  <2>2. CASE UNCHANGED vars
    BY <1>2, <2>2
    DEF Inv, vars, boxes, host, view, ghosts, Types, Shown, CapInv, OrphanInv, NewestInv,
        UpsertTask, DeleteTask, PurgeTask
  <2> QED
    BY <1>2, <2>1, <2>2
<1> QED
  BY <1>1, <1>2, PTL DEF Spec

\* The tasks that run are those of init() while it runs, and of the store after it.
THEOREM TypeCorrect == Spec => []TypeOK
<1>1. Types => TypeOK
  <2> SUFFICES ASSUME Types PROVE TypeOK
    OBVIOUS
  <2>1. \A t \in tasks : /\ (t.op = "purge") <=> (phase = "purging")
                         /\ t.op = "upsert" => t.id \in 1 .. calls
    BY TaskIs DEF UpsertTask
  <2>2. phase = "purging" <=> tasks # {} /\ \A t \in tasks : t.op = "purge"
    BY TaskIs DEF Types
  <2> QED
    BY <2>1, <2>2 DEF Types, TypeOK
<1> QED
  BY <1>1, InvHolds, PTL DEF Inv

\* When nothing runs the index is within the cap, unless the cap was lowered, or
\* a kill hit, after the last insertion (lines 80-83 and 99-108).
THEOREM IndexBoundedHolds == Spec => []IndexBounded
<1>1. CapInv => IndexBounded
  BY DEF CapInv, IndexBounded, AtRest
<1> QED
  BY <1>1, InvHolds, PTL DEF Inv

\* Concurrent upserts and evictions leave no record without an index entry.
THEOREM OrphansHold == Spec => []OrphansExplained
<1>1. OrphanInv => OrphansExplained
  BY DEF OrphanInv, OrphansExplained, AtRest
<1> QED
  BY <1>1, InvHolds, PTL DEF Inv

\* However the tails of concurrent upserts interleave, the boxes come to hold
\* exactly the newest cap calls (lines 45-48 and 103-107).
THEOREM KeepsNewestHolds == Spec => []KeepsNewest
<1>1. Inv => KeepsNewest
  <2> SUFFICES ASSUME Inv, phase = "up", tasks = {}, upsets = 0
               PROVE  box = {i \in 1 .. calls : i > calls - cap}
    BY DEF KeepsNewest, AtRest
  <2>1. /\ index \in SUBSET (1 .. calls) /\ box \subseteq 1 .. calls /\ calls \in Nat
        /\ cap \in Nat /\ IsFiniteSet(index) /\ index \in SUBSET Nat
    BY Finite DEF Inv, Types
  <2>2. Cardinality(index) <= cap /\ orphaned = {}
    BY DEF Inv, CapInv, NewestInv
  <2>3. \A i \in 1 .. calls : i \in index \/ Outdated(index, cap, i)
    BY DEF Inv, NewestInv
  <2>4. index = {i \in 1 .. calls : i > calls - cap}
    BY <2>1, <2>2, <2>3, NewestIds
  <2>5. box \subseteq index
    BY <2>2 DEF Inv, OrphanInv
  <2>6. ASSUME NEW i \in index, i \notin box PROVE FALSE
    <3>1. Outdated(index, cap, i) /\ i \in Nat
      BY <2>1, <2>6 DEF Inv, NewestInv
    <3>2. IsFiniteSet(index \ {i}) /\ Cardinality(index \ {i}) = Cardinality(index) - 1
      BY <2>1, FS_RemoveElement
    <3>3. NewerIn(index, i) \subseteq index \ {i}
      BY <3>1 DEF NewerIn
    <3>4. /\ Cardinality(NewerIn(index, i)) <= Cardinality(index \ {i})
          /\ Cardinality(NewerIn(index, i)) \in Nat /\ Cardinality(index) \in Nat
      BY <2>1, <3>2, <3>3, FS_Subset, FS_CardinalityType
    <3> QED
      BY <2>1, <2>2, <3>1, <3>2, <3>4 DEF Outdated
  <2> QED
    BY <2>4, <2>5, <2>6
<1> QED
  BY <1>1, InvHolds, PTL
=============================================================================
