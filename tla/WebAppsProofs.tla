---------------------------- MODULE WebAppsProofs ----------------------------
(***************************************************************************)
(* The safety properties of the two FastAPI programs and of the caches,    *)
(* for any number of tenants, users, leads, imports, requests and callers. *)
(* The invariants follow the state's division: the rows of the leads, the  *)
(* walks through their pages, the import jobs and what was reported of     *)
(* them, the lab's gauges, and the calls on a cache.                       *)
(*                                                                         *)
(* The pages need the most: a set of ids can be put in order (by induction *)
(* over finite sets), the list so obtained has every id, and a page of it  *)
(* leaves out only what comes after its last id, the next cursor.          *)
(***************************************************************************)
EXTENDS WebApps, CollectionLemmas

\* Where a request can be.
LabPlaces == {"idle", "socket", "entered", "leaving", "raising", "blocking", "sleeping",
              "submitted", "threaded", "acquiring", "querying"}
\* What the in_flight gauge counts: the middleware leaves /metrics out.
Inside == {r \in Request : at[r] \notin {"idle", "socket"} /\ kind[r] # "metrics"}
\* What pool_in_use counts when a scrape sets it.
Querying == {r \in Request : at[r] = "querying"}

\* GaugesTrue, with a pool that is never overdrawn behind the sampled gauge.
LabInv ==
  /\ at \in [Request -> LabPlaces]
  /\ kind \in [Request -> Lab!Kind]
  /\ in_flight = Cardinality(Inside)
  /\ Cardinality(Querying) <= DB_POOL_SIZE /\ pool_in_use <= DB_POOL_SIZE

\* The requests counted are finitely many; the lab counts the same ones.
LEMMA LabCounted ==
  /\ IsFiniteSet(Inside) /\ Cardinality(Inside) \in Nat
  /\ IsFiniteSet(Querying) /\ Cardinality(Querying) \in Nat
  /\ Lab!Cardinality(Lab!Those("querying")) = Cardinality(Querying)
<1>1. Inside \in SUBSET Request /\ Querying \in SUBSET Request
  BY DEF Inside, Querying
<1>2. IsFiniteSet(Inside) /\ IsFiniteSet(Querying)
  BY <1>1, LabAssumption, FS_Subset
<1>3. ASSUME NEW S PROVE Lab!Cardinality(S) = Cardinality(S)
  BY DEF Lab!Cardinality, Cardinality
<1>4. Lab!Those("querying") = Querying
  BY DEF Lab!Those, Querying
<1> QED
  BY <1>2, <1>3, <1>4, FS_CardinalityType

\* A handler's move from one place to another leaves the gauge alone, and the
\* move to a query needs a free connection.
LEMMA LabMoves ==
  ASSUME LabInv, NEW r \in Request, NEW from \in LabPlaces \ Lab!Outside,
         NEW to \in LabPlaces \ Lab!Outside,
         Lab!Move(r, from, to),
         to = "querying" => Cardinality(Querying) < DB_POOL_SIZE
  PROVE  LabInv'
<1> USE DEF Lab!Move, Lab!Goto, Lab!Outside
<1>1. at' \in [Request -> LabPlaces] /\ UNCHANGED <<kind, in_flight, pool_in_use>>
  BY DEF LabInv
<1>2. Inside' = Inside
  BY DEF LabInv, Inside
<1>3. Cardinality(Querying') <= DB_POOL_SIZE
  <2>1. CASE to = "querying"
    <3>1. Querying' = Querying \cup {r}
      BY <2>1 DEF LabInv, Querying
    <3>2. Cardinality(Querying') <= Cardinality(Querying) + 1
      <4>1. Cardinality(Querying') = IF r \in Querying THEN Cardinality(Querying)
                                     ELSE Cardinality(Querying) + 1
        BY <3>1, LabCounted, FS_AddElement
      <4> QED
        BY <4>1, LabCounted
    <3>3. Cardinality(Querying') \in Nat
      BY <3>1, LabCounted, FS_AddElement, FS_CardinalityType
    <3> QED
      BY <2>1, <3>2, <3>3, LabCounted, LabAssumption
  <2>2. CASE to # "querying"
    <3>1. Querying' \in SUBSET Querying
      BY <2>2 DEF LabInv, Querying
    <3>2. Cardinality(Querying') <= Cardinality(Querying) /\ Cardinality(Querying') \in Nat
      BY <3>1, LabCounted, FS_Subset, FS_CardinalityType
    <3> QED
      BY <3>2, LabCounted, LabAssumption DEF LabInv
  <2> QED
    BY <2>1, <2>2
<1> QED
  BY <1>1, <1>2, <1>3 DEF LabInv

\* Every callback, thread, query and the kill keeps the gauges true.
LEMMA LabStep ==
  LabInv /\ (Lab!Next \/ UNCHANGED lab) => LabInv'
<1> SUFFICES ASSUME LabInv, Lab!Next \/ UNCHANGED lab
             PROVE  LabInv'
  OBVIOUS
<1>1. ASSUME NEW r \in Request, NEW k \in Lab!Kind, Lab!Connect(r, k)
      PROVE  LabInv'
  <2>1. Inside' = Inside /\ Querying' = Querying
    BY <1>1 DEF Lab!Connect, Lab!Goto, LabInv, Inside, Querying
  <2> QED
    BY <1>1, <2>1 DEF Lab!Connect, Lab!Goto, LabInv, LabPlaces
<1>2. ASSUME NEW r \in Request, Lab!Enter(r)
      PROVE  LabInv'
  <2>1. /\ Inside' = IF kind[r] = "metrics" THEN Inside ELSE Inside \cup {r}
        /\ r \notin Inside /\ Querying' = Querying
    BY <1>2 DEF Lab!Enter, Lab!Goto, LabInv, Inside, Querying
  <2>2. in_flight' = Cardinality(Inside')
    BY <1>2, <2>1, LabCounted, FS_AddElement DEF Lab!Enter, LabInv
  <2> QED
    BY <1>2, <2>1, <2>2 DEF Lab!Enter, Lab!Goto, LabInv, LabPlaces
<1>3. ASSUME NEW r \in Request, Lab!Leave(r)
      PROVE  LabInv'
  <2>1. /\ Inside' = IF kind[r] = "metrics" THEN Inside ELSE Inside \ {r}
        /\ kind[r] # "metrics" => r \in Inside
        /\ Querying' = Querying
    BY <1>3 DEF Lab!Leave, Lab!Close, Lab!Goto, LabInv, Inside, Querying
  <2>2. in_flight' = Cardinality(Inside')
    BY <1>3, <2>1, LabCounted, FS_RemoveElement DEF Lab!Leave, LabInv
  <2> QED
    BY <1>3, <2>1, <2>2 DEF Lab!Leave, Lab!Close, Lab!Goto, LabInv, LabPlaces, Lab!Kind
<1>4. ASSUME NEW r \in Request, Lab!Metrics(r)
      PROVE  LabInv'
  <2>1. Inside' = Inside /\ Querying' = Querying
    BY <1>4 DEF Lab!Metrics, Lab!Starts, Lab!Goto, LabInv, Inside, Querying
  <2> QED
    BY <1>4, <2>1, LabCounted DEF Lab!Metrics, Lab!Starts, Lab!Goto, LabInv, LabPlaces
<1>5. ASSUME NEW r \in Request, Lab!Leak(r)
      PROVE  LabInv'
  <2>1. Inside' = Inside /\ Querying' = Querying
    BY <1>5 DEF Lab!Leak, Lab!Starts, Lab!Goto, LabInv, Inside, Querying
  <2> QED
    BY <1>5, <2>1 DEF Lab!Leak, Lab!Starts, Lab!Goto, LabInv, LabPlaces
<1>6. ASSUME NEW r \in Request,
             Lab!Health(r) \/ Lab!Block(r) \/ Lab!Unblock(r) \/ Lab!Sleep(r) \/ Lab!Wake(r)
             \/ Lab!Submit(r) \/ Lab!RunThread(r) \/ Lab!ThreadDone(r) \/ Lab!Query(r)
             \/ Lab!Acquire(r) \/ Lab!Fetched(r) \/ Lab!Raise(r)
      PROVE  LabInv'
  <2>1. \E from, to \in LabPlaces \ Lab!Outside :
           Lab!Move(r, from, to) /\ (to = "querying" => Cardinality(Querying) < DB_POOL_SIZE)
    BY <1>6, LabCounted
    DEF Lab!Health, Lab!Block, Lab!Unblock, Lab!Sleep, Lab!Wake, Lab!Submit, Lab!RunThread,
        Lab!ThreadDone, Lab!Query, Lab!Acquire, Lab!Fetched, Lab!Raise, LabPlaces, Lab!Outside
  <2> QED
    BY <2>1, LabMoves
<1>7. CASE Lab!Kill
  <2>1. Inside' = {} /\ Querying' = {}
    BY <1>7 DEF Lab!Kill, Inside, Querying
  <2> QED
    BY <1>7, <2>1, FS_EmptySet, LabAssumption DEF Lab!Kill, LabInv, LabPlaces, Lab!Kind
<1>8. CASE UNCHANGED lab
  <2>1. Inside' = Inside /\ Querying' = Querying
    BY <1>8 DEF lab, Inside, Querying
  <2> QED
    BY <1>8, <2>1 DEF lab, LabInv
<1> QED
  BY <1>1, <1>2, <1>3, <1>4, <1>5, <1>6, <1>7, <1>8
  DEF Lab!Next, Lab!LoopStep, Lab!Handler

-----------------------------------------------------------------------------
\* Where a call on a cache can be, and what it holds there.
CallType ==
  call \in [Caller -> [at : {"idle", "load", "set", "del", "put"}, ver : Int, late : BOOLEAN]]

\* Who is about to SET something else than the table was overtaken by a write.
OvertakenKnowIt ==
  \A c \in Caller : call[c].at \in {"set", "put"} => call[c].late \/ call[c].ver = db

\* The caches: StaleCopiesExplained, with what is known of a call between its
\* statements behind it.
CacheInv ==
  /\ CallType /\ db \in Int /\ writes \in Int
  /\ OvertakenKnowIt
  /\ Cache!StaleCopiesExplained

\* At first there is no copy and no call.
LEMMA CacheInit == Cache!Init => CacheInv
BY DEF Cache!Init, CacheInv, CallType, OvertakenKnowIt, Cache!StaleCopiesExplained, Cache!Fresh,
       Cache!Idle, Cache!None, Cache!Miss

\* A call that goes to a statement keeps the types, and what others know.
LEMMA LookupInv == ASSUME CacheInv, NEW c \in Caller, Cache!Lookup(c) PROVE CacheInv'
BY DEF CacheInv, CallType, OvertakenKnowIt, Cache!StaleCopiesExplained, Cache!Fresh, Cache!Lookup,
       Cache!At, Cache!Goto, Cache!None, Cache!Miss

\* What a miss is about to store is the table's.
LEMMA LoadInv == ASSUME CacheInv, NEW c \in Caller, Cache!Load(c) PROVE CacheInv'
<1>1. call' = [call EXCEPT ![c] = [at |-> "set", ver |-> db, late |-> FALSE]]
      \/ call' = [call EXCEPT ![c] = Cache!Idle]
  BY DEF Cache!Load, Cache!LoadClass, Cache!LoadSimple, Cache!LoadFastApi, Cache!Goto, Cache!Return
<1>2. call[c].at = "load" /\ UNCHANGED <<db, cache, writes, tainted>>
  BY DEF Cache!Load, Cache!At
<1>3. CallType' /\ OvertakenKnowIt'
  <2>1. CASE call' = [call EXCEPT ![c] = [at |-> "set", ver |-> db, late |-> FALSE]]
    BY <1>2, <2>1 DEF CacheInv, CallType, OvertakenKnowIt
  <2>2. CASE call' = [call EXCEPT ![c] = Cache!Idle]
    BY <1>2, <2>2 DEF CacheInv, CallType, OvertakenKnowIt, Cache!Idle, Cache!None
  <2> QED
    BY <1>1, <2>1, <2>2
<1>4. Cache!StaleCopiesExplained'
  <2>1. \A d \in Caller \ {c} : call'[d] = call[d]
    BY <1>1 DEF CacheInv, CallType
  <2> QED
    BY <1>2, <2>1 DEF CacheInv, Cache!StaleCopiesExplained, Cache!Fresh
<1> QED
  BY <1>2, <1>3, <1>4 DEF CacheInv

\* A SET stores the table's version, or was overtaken and says so.
LEMMA SetInv == ASSUME CacheInv, NEW c \in Caller, Cache!Set(c) PROVE CacheInv'
<1>1. CallType' /\ OvertakenKnowIt' /\ db' \in Int /\ writes' \in Int
  BY DEF CacheInv, CallType, OvertakenKnowIt, Cache!Set, Cache!Return, Cache!Idle, Cache!None
<1>2. Cache!Fresh' \/ tainted'
  BY DEF CacheInv, CallType, OvertakenKnowIt, Cache!Fresh, Cache!Set, Cache!WithTtl
<1> QED
  BY <1>1, <1>2 DEF CacheInv, Cache!StaleCopiesExplained

\* A write overtakes whoever is about to SET, and will drop or replace the copy.
LEMMA WriteInv ==
  ASSUME CacheInv, NEW c \in Caller, NEW v \in Int, NEW next \in {"del", "put"},
         Cache!Write(c, v, next)
  PROVE  CacheInv'
<1>1. /\ db' = v /\ writes' = writes + 1
      /\ call' = [d \in Caller |->
           IF d = c THEN [at |-> next, ver |-> v, late |-> FALSE]
           ELSE [call[d] EXCEPT !.late = call[d].at \in {"set", "put"}]]
  BY DEF Cache!Write
<1>2. CallType'
  <2> SUFFICES ASSUME NEW d \in Caller
      PROVE  (IF d = c THEN [at |-> next, ver |-> v, late |-> FALSE]
              ELSE [call[d] EXCEPT !.late = call[d].at \in {"set", "put"}])
             \in [at : {"idle", "load", "set", "del", "put"}, ver : Int, late : BOOLEAN]
    BY <1>1 DEF CallType
  <2>1. CASE d = c
    BY <2>1
  <2>2. CASE d # c
    <3> DEFINE b == call[d].at \in {"set", "put"}
    <3>1. call[d] \in [at : {"idle", "load", "set", "del", "put"}, ver : Int, late : BOOLEAN]
      BY DEF CacheInv, CallType
    <3>2. b \in BOOLEAN
      OBVIOUS
    <3>3. [call[d] EXCEPT !.late = b]
          \in [at : {"idle", "load", "set", "del", "put"}, ver : Int, late : BOOLEAN]
      <4> HIDE DEF b
      <4> QED
        BY <3>1, <3>2
    <3> QED
      BY <2>2, <3>3
  <2> QED
    BY <2>1, <2>2
<1>3. OvertakenKnowIt'
  <2> SUFFICES ASSUME NEW d \in Caller, call'[d].at \in {"set", "put"}
      PROVE  call'[d].late \/ call'[d].ver = db'
    BY DEF OvertakenKnowIt
  <2>1. CASE d = c
    BY <1>1, <2>1
  <2>2. CASE d # c
    <3>1. call'[d] = [call[d] EXCEPT !.late = call[d].at \in {"set", "put"}]
      BY <1>1, <2>2
    <3> QED
      BY <3>1 DEF CacheInv, CallType
  <2> QED
    BY <2>1, <2>2
<1>4. call'[c].at \in {"del", "put"}
  BY <1>1
<1> QED
  BY <1>1, <1>2, <1>3, <1>4 DEF CacheInv, Cache!StaleCopiesExplained

\* A DEL leaves no copy to be stale.
LEMMA DelInv == ASSUME CacheInv, NEW c \in Caller, Cache!Del(c) PROVE CacheInv'
<1>1. CallType' /\ OvertakenKnowIt' /\ db' \in Int /\ writes' \in Int
  BY DEF CacheInv, CallType, OvertakenKnowIt, Cache!Del, Cache!Return, Cache!Idle, Cache!None
<1>2. Cache!Fresh'
  BY DEF Cache!Fresh, Cache!Del
<1> QED
  BY <1>1, <1>2 DEF CacheInv, Cache!StaleCopiesExplained

\* Nor does the end of a copy's time.
LEMMA ExpireInv == ASSUME CacheInv, Cache!Expire PROVE CacheInv'
BY DEF CacheInv, CallType, OvertakenKnowIt, Cache!StaleCopiesExplained, Cache!Fresh, Cache!Expire

\* The death of a writer leaves its mark, unless there is no copy to be stale.
LEMMA CrashInv == ASSUME CacheInv, NEW c \in Caller, Cache!Crash(c) PROVE CacheInv'
<1>1. CallType' /\ OvertakenKnowIt' /\ db' \in Int /\ writes' \in Int
  BY DEF CacheInv, CallType, OvertakenKnowIt, Cache!Crash, Cache!Return, Cache!Idle, Cache!None
<1>2. Cache!StaleCopiesExplained'
  <2>1. CASE call[c].at \in {"del", "put"}
    BY <2>1 DEF Cache!StaleCopiesExplained, Cache!Fresh, Cache!Crash
  <2>2. CASE call[c].at \notin {"del", "put"}
    BY <2>2
    DEF CacheInv, CallType, Cache!StaleCopiesExplained, Cache!Fresh, Cache!Crash, Cache!Return
  <2> QED
    BY <2>1, <2>2
<1> QED
  BY <1>1, <1>2 DEF CacheInv

\* Every step of a call on a cache keeps the invariant.
LEMMA CacheStep == CacheInv /\ (Cache!Next \/ UNCHANGED user) => CacheInv'
<1> SUFFICES ASSUME CacheInv, Cache!Next \/ UNCHANGED user
             PROVE  CacheInv'
  OBVIOUS
<1>1. ASSUME NEW c \in Caller, Cache!Lookup(c) \/ Cache!Step(c) \/ Cache!Crash(c)
      PROVE  CacheInv'
  BY <1>1, LookupInv, LoadInv, SetInv, DelInv, CrashInv DEF Cache!Step
<1>2. ASSUME NEW c \in Caller,
             Cache!UpdateAge(c) \/ Cache!ReplaceUser(c) \/ Cache!DeleteUser(c)
      PROVE  CacheInv'
  <2>1. writes + 1 \in Int /\ Cache!None \in Int
    BY DEF CacheInv, Cache!None
  <2> QED
    BY <1>2, <2>1, WriteInv DEF Cache!UpdateAge, Cache!ReplaceUser, Cache!DeleteUser
<1>3. CASE UNCHANGED user
  BY <1>3
  DEF user, CacheInv, CallType, OvertakenKnowIt, Cache!StaleCopiesExplained, Cache!Fresh
<1> QED
  BY <1>1, <1>2, <1>3, ExpireInv DEF Cache!Next

\* For any callers, programs and bounds: the inductive invariant of the caches.
THEOREM CacheHolds == FairSpec => []CacheInv
<1>1. Init => CacheInv
  BY CacheInit DEF Init
<1>2. CacheInv /\ [Next]_vars => CacheInv'
  BY CacheStep DEF Next, vars
<1> QED
  BY <1>1, <1>2, PTL DEF FairSpec

\* For any callers, programs and bounds: a copy in Redis differs from the table
\* only while the write that drops or replaces it is under way, after a write
\* overtook the call that stored it, or after its writer died.
THEOREM StaleCopiesHold == FairSpec => []StaleCopiesExplained
<1>1. CacheInv => StaleCopiesExplained
  BY DEF CacheInv, StaleCopiesExplained
<1> QED
  BY <1>1, CacheHolds, PTL

\* The oldest version a program stores: only the class caches that there is no row.
Lowest == IF program = "class" THEN 0 ELSE 1

\* TypeOK, with the versions given so far and what is about to be stored.
CacheTypes ==
  /\ Cache!TypeOK
  /\ writes \in 1 .. MaxWrites + 1
  /\ \A c \in Caller : call[c].at \in {"set", "put"} => call[c].ver >= Lowest

\* Where a call can be.
CallRange == [at : {"idle", "load", "set", "del", "put"}, ver : 0 .. MaxWrites + 1, late : BOOLEAN]

\* At first.
LEMMA CacheTypesInit == Cache!Init => CacheTypes
<1> SUFFICES ASSUME Cache!Init PROVE CacheTypes
  OBVIOUS
<1>1. Cache!Idle \in CallRange /\ Cache!Idle.at = "idle"
  BY CacheAssumption DEF Cache!Idle, Cache!None, CallRange
<1>2. call \in [Caller -> CallRange] /\ \A c \in Caller : call[c].at = "idle"
  BY <1>1 DEF Cache!Init
<1>3. Cache!TypeOK
  <2>1. db \in 0 .. MaxWrites + 1
    BY CacheAssumption DEF Cache!Init, Cache!None
  <2> QED
    BY <1>2, <2>1 DEF Cache!Init, Cache!TypeOK, CallRange
<1> QED
  BY <1>2, <1>3, CacheAssumption DEF Cache!Init, CacheTypes

\* A step of one call, which may store what it holds or drop the copy.
Becomes(c, r) ==
  /\ call' = [call EXCEPT ![c] = r]
  /\ program' = program /\ db' = db /\ writes' = writes
  /\ r \in CallRange /\ (r.at \in {"set", "put"} => r.ver >= Lowest)
  /\ \/ cache' \in {cache, Cache!Miss}
     \/ cache' = Cache!WithTtl(call[c].ver) /\ call[c].at \in {"set", "put"}
  /\ tainted' \in BOOLEAN

\* Such a step keeps the types.
LEMMA OneCallTypes == ASSUME CacheTypes, NEW c \in Caller, NEW r, Becomes(c, r) PROVE CacheTypes'
<1> USE DEF Becomes
<1>1. call \in [Caller -> CallRange]
  BY DEF CacheTypes, Cache!TypeOK, CallRange
<1>2. call' \in [Caller -> CallRange]
  BY <1>1
<1>3. cache' \in {Cache!Miss} \cup [ver : Lowest .. MaxWrites + 1, expires : {TRUE}]
  <2>1. CASE cache' \in {cache, Cache!Miss}
    BY <2>1 DEF CacheTypes, Cache!TypeOK, Lowest
  <2>2. CASE cache' = Cache!WithTtl(call[c].ver) /\ call[c].at \in {"set", "put"}
    <3>1. call[c].ver \in 0 .. MaxWrites + 1 /\ call[c].ver >= Lowest
      BY <1>1, <2>2 DEF CacheTypes, CallRange
    <3>2. call[c].ver \in Lowest .. MaxWrites + 1
      BY <3>1, CacheAssumption DEF Lowest
    <3> QED
      BY <2>2, <3>2 DEF Cache!WithTtl
  <2> QED
    BY <2>1, <2>2
<1>4. \A d \in Caller : call'[d].at \in {"set", "put"} => call'[d].ver >= Lowest
  BY <1>1 DEF CacheTypes
<1>5. Cache!TypeOK'
  BY <1>2, <1>3 DEF CacheTypes, Cache!TypeOK, CallRange, Lowest
<1> QED
  BY <1>4, <1>5 DEF CacheTypes, Lowest

\* A write gives the row a version of its own, or takes it away.
LEMMA WriteTypes ==
  ASSUME CacheTypes, NEW c \in Caller, NEW v \in 0 .. writes + 1, NEW next \in {"del", "put"},
         Cache!Write(c, v, next), v = 0 => next = "del"
  PROVE  CacheTypes'
<1>1. writes' = writes + 1 /\ writes' \in 1 .. MaxWrites + 1 /\ v \in 0 .. MaxWrites + 1
  BY CacheAssumption DEF CacheTypes, Cache!Write
<1>2. call \in [Caller -> CallRange]
  BY DEF CacheTypes, Cache!TypeOK, CallRange
<1>3. /\ call' = [d \in Caller |->
                    IF d = c THEN [at |-> next, ver |-> v, late |-> FALSE]
                    ELSE [call[d] EXCEPT !.late = call[d].at \in {"set", "put"}]]
      /\ db' = v /\ UNCHANGED <<program, cache, tainted>>
  BY DEF Cache!Write
<1>4. ASSUME NEW d \in Caller
      PROVE  call'[d] \in CallRange /\ (call'[d].at \in {"set", "put"} => call'[d].ver >= Lowest)
  <2>1. CASE d = c
    BY <1>1, <1>3, <2>1 DEF CallRange, CacheTypes, Lowest
  <2>2. CASE d # c
    <3> DEFINE b == call[d].at \in {"set", "put"}
    <3>1. call'[d] = [call[d] EXCEPT !.late = b] /\ b \in BOOLEAN
      BY <1>3, <2>2
    <3> HIDE DEF b
    <3>2. /\ call[d] \in CallRange
          /\ call[d].at \in {"set", "put"} => call[d].ver >= Lowest
      BY <1>2 DEF CacheTypes
    <3> QED
      BY <3>1, <3>2 DEF CallRange
  <2> QED
    BY <2>1, <2>2
<1>5. call' \in [Caller -> CallRange]
  BY <1>3, <1>4
<1>6. Cache!TypeOK'
  BY <1>1, <1>3, <1>5 DEF CacheTypes, Cache!TypeOK, CallRange
<1> QED
  BY <1>1, <1>3, <1>4, <1>6 DEF CacheTypes, Lowest

\* Every step of a call keeps the types.
LEMMA CacheTypesStep == CacheTypes /\ (Cache!Next \/ UNCHANGED user) => CacheTypes'
<1> SUFFICES ASSUME CacheTypes, Cache!Next \/ UNCHANGED user
             PROVE  CacheTypes'
  OBVIOUS
<1>1. Cache!Idle \in CallRange /\ Cache!Idle.at = "idle" /\ Cache!Idle.ver = 0
  BY CacheAssumption DEF Cache!Idle, Cache!None, CallRange
<1>2. tainted \in BOOLEAN /\ db \in 0 .. MaxWrites + 1
  BY DEF CacheTypes, Cache!TypeOK
<1>3. ASSUME NEW c \in Caller, Cache!Lookup(c) PROVE CacheTypes'
  <2>1. [at |-> "load", ver |-> 0, late |-> FALSE] \in CallRange
    BY CacheAssumption DEF CallRange
  <2>2. Becomes(c, [at |-> "load", ver |-> 0, late |-> FALSE])
    BY <1>2, <1>3, <2>1 DEF Becomes, Cache!Lookup, Cache!Goto, Cache!None
  <2> QED
    BY <2>2, OneCallTypes
<1>4. ASSUME NEW c \in Caller, Cache!Load(c) PROVE CacheTypes'
  <2> DEFINE r == [at |-> "set", ver |-> db, late |-> FALSE]
  <2>1. r \in CallRange
    BY <1>2 DEF CallRange
  <2>2. \/ call' = [call EXCEPT ![c] = r] /\ db >= Lowest
        \/ call' = [call EXCEPT ![c] = Cache!Idle]
    BY <1>2, <1>4 DEF Cache!Load, Cache!LoadClass, Cache!LoadSimple, Cache!LoadFastApi, Cache!Goto,
                      Cache!Return, Cache!None, Lowest
  <2>3. UNCHANGED <<program, db, cache, writes, tainted>>
    BY <1>4 DEF Cache!Load
  <2>4. Becomes(c, r) \/ Becomes(c, Cache!Idle)
    BY <1>1, <1>2, <2>1, <2>2, <2>3 DEF Becomes
  <2> QED
    BY <2>4, OneCallTypes
<1>5. ASSUME NEW c \in Caller, Cache!Set(c) PROVE CacheTypes'
  <2>1. tainted' \in BOOLEAN
    BY <1>5 DEF Cache!Set, CacheTypes, Cache!TypeOK
  <2>2. Becomes(c, Cache!Idle)
    BY <1>1, <1>5, <2>1 DEF Becomes, Cache!Set, Cache!Return
  <2> QED
    BY <2>2, OneCallTypes
<1>6. ASSUME NEW c \in Caller, Cache!Del(c) PROVE CacheTypes'
  <2>1. Becomes(c, Cache!Idle)
    BY <1>1, <1>6 DEF Becomes, Cache!Del, Cache!Return
  <2> QED
    BY <2>1, OneCallTypes
<1>7. ASSUME NEW c \in Caller, Cache!Crash(c) PROVE CacheTypes'
  <2>1. tainted' \in BOOLEAN
    BY <1>7 DEF Cache!Crash
  <2>2. Becomes(c, Cache!Idle)
    BY <1>1, <1>7, <2>1 DEF Becomes, Cache!Crash, Cache!Return
  <2> QED
    BY <2>2, OneCallTypes
<1>8. ASSUME NEW c \in Caller, Cache!UpdateAge(c) \/ Cache!ReplaceUser(c) \/ Cache!DeleteUser(c)
      PROVE  CacheTypes'
  <2>1. \/ Cache!Write(c, writes + 1, "del")
        \/ Cache!Write(c, writes + 1, "put")
        \/ Cache!Write(c, 0, "del")
    BY <1>8 DEF Cache!UpdateAge, Cache!ReplaceUser, Cache!DeleteUser, Cache!None
  <2> writes \in Nat /\ writes + 1 \in 0 .. writes + 1 /\ 0 \in 0 .. writes + 1 /\ writes + 1 # 0
    BY CacheAssumption DEF CacheTypes
  <2>2. ASSUME Cache!Write(c, writes + 1, "del") PROVE CacheTypes'
    BY <2>2, WriteTypes
  <2>3. ASSUME Cache!Write(c, writes + 1, "put") PROVE CacheTypes'
    BY <2>3, WriteTypes
  <2>4. ASSUME Cache!Write(c, 0, "del") PROVE CacheTypes'
    BY <2>4, WriteTypes
  <2> QED
    BY <2>1, <2>2, <2>3, <2>4
<1>9. CASE Cache!Expire
  BY <1>9 DEF Cache!Expire, CacheTypes, Cache!TypeOK, Lowest
<1>10. CASE UNCHANGED user
  BY <1>10 DEF user, CacheTypes, Cache!TypeOK, Lowest
<1> QED
  BY <1>3, <1>4, <1>5, <1>6, <1>7, <1>8, <1>9, <1>10 DEF Cache!Next, Cache!Step

\* For any callers, programs and bounds: versions stay in their range, and only the
\* class ever stores that there is no row (null); the others store rows only.
THEOREM CacheTypesHold == FairSpec => []Cache!TypeOK
<1>1. Init => CacheTypes
  BY CacheTypesInit DEF Init
<1>2. CacheTypes /\ [Next]_vars => CacheTypes'
  BY CacheTypesStep DEF Next, vars
<1>3. CacheTypes => Cache!TypeOK
  BY DEF CacheTypes
<1> QED
  BY <1>1, <1>2, <1>3, PTL DEF FairSpec

-----------------------------------------------------------------------------
\* What the job says after its task's t-th step.
Progress(t) == IF t = 0 THEN 0 ELSE 25 * (t - 1)
Status(t) == IF t = 0 THEN "queued" ELSE IF t = 5 THEN "done" ELSE "running"

\* The status and progress of a job are those of its task's step, and what was
\* reported last is those of an earlier step or of this one.  Its tenant has an
\* admin, who started it.
ImportsInv ==
  /\ tasks \in [JobId -> 0 .. 5]
  /\ DOMAIN work = JobId /\ DOMAIN reported = JobId
  /\ \A j \in JobId :
       /\ \/ work[j] = Demo!NoJob /\ tasks[j] = 0
             /\ reported[j] = [status |-> "none", progress |-> 0]
          \/ /\ work[j] # Demo!NoJob
             /\ work[j] = [tenant |-> work[j].tenant, status |-> Status(tasks[j]),
                           progress |-> Progress(tasks[j])]
             /\ \E u \in User : Demo!IsAdmin(u) /\ Demo!Tenant(u) = work[j].tenant
             /\ \/ reported[j] = [status |-> "none", progress |-> 0]
                \/ \E t \in 0 .. tasks[j] :
                     reported[j] = [status |-> Status(t), progress |-> Progress(t)]

\* The order the four statuses have.
LEMMA RanksAre ==
  /\ Demo!Rank("none") = 0 /\ Demo!Rank("queued") = 1
  /\ Demo!Rank("running") = 2 /\ Demo!Rank("done") = 3
<1> DEFINE names == <<"none", "queued", "running", "done">>
<1>1. /\ names[1] = "none" /\ names[2] = "queued" /\ names[3] = "running" /\ names[4] = "done"
  OBVIOUS
<1> HIDE DEF names
<1>2. 0 .. 3 = {0, 1, 2, 3} /\ 0 + 1 = 1 /\ 1 + 1 = 2 /\ 2 + 1 = 3 /\ 3 + 1 = 4
  OBVIOUS
<1>3. \A i \in 0 .. 3 : /\ "none" = names[i + 1] <=> i = 0
                        /\ "queued" = names[i + 1] <=> i = 1
                        /\ "running" = names[i + 1] <=> i = 2
                        /\ "done" = names[i + 1] <=> i = 3
  BY <1>1, <1>2
<1>4. /\ (CHOOSE i \in 0 .. 3 : "none" = names[i + 1]) = 0
      /\ (CHOOSE i \in 0 .. 3 : "queued" = names[i + 1]) = 1
      /\ (CHOOSE i \in 0 .. 3 : "running" = names[i + 1]) = 2
      /\ (CHOOSE i \in 0 .. 3 : "done" = names[i + 1]) = 3
  BY <1>2, <1>3
<1> QED
  BY <1>4 DEF Demo!Rank, names

\* Starting, working on and asking for an import keep them so.
LEMMA ImportsStep ==
  ImportsInv /\ (Demo!ImportsNext \/ UNCHANGED <<work, tasks, reported>>) => ImportsInv'
<1> SUFFICES ASSUME ImportsInv, Demo!ImportsNext \/ UNCHANGED <<work, tasks, reported>>
             PROVE  ImportsInv'
  OBVIOUS
<1> USE DEF ImportsInv, Demo!NoJob, Status, Progress
<1>1. ASSUME NEW u \in User, NEW j \in JobId, Demo!StartImport(u, j)
      PROVE  ImportsInv'
  BY <1>1 DEF Demo!StartImport
<1>2. ASSUME NEW u \in User, NEW j \in JobId, Demo!ImportStatus(u, j)
      PROVE  ImportsInv'
  BY <1>2, SMTT(30) DEF Demo!ImportStatus
<1>3. ASSUME NEW j \in JobId, Demo!FakeWorker(j)
      PROVE  ImportsInv'
  <2> HIDE DEF Status, Progress
  <2>1. PICK t, tenant :
          /\ t \in 0 .. 4 /\ tasks[j] = t
          /\ work[j] = [tenant |-> tenant, status |-> Status(t),
                                       progress |-> Progress(t)]
          /\ \E u \in User : Demo!IsAdmin(u) /\ Demo!Tenant(u) = tenant
    BY <1>3 DEF Demo!FakeWorker, Demo!Steps
  <2>2. tasks' = [tasks EXCEPT ![j] = t + 1] /\ UNCHANGED reported
    BY <1>3, <2>1 DEF Demo!FakeWorker
  <2>3. /\ work'[j] = [tenant |-> tenant, status |-> Status(t + 1), progress |-> Progress(t + 1)]
        /\ DOMAIN work' = JobId
        /\ \A k \in JobId \ {j} : work'[k] = work[k]
    <3>1. work' = [work EXCEPT ![j].progress = 25 * t,
                               ![j].status = IF t = 4 THEN "done" ELSE "running"]
      BY <1>3, <2>1 DEF Demo!FakeWorker, Demo!Steps
    <3>2. PICK status, progress : status = Status(t + 1) /\ progress = Progress(t + 1)
      OBVIOUS
    <3>3. status = (IF t = 4 THEN "done" ELSE "running") /\ progress = 25 * t
      BY <2>1, <3>2 DEF Status, Progress
    <3>4. work' = [work EXCEPT ![j].progress = progress, ![j].status = status]
      BY <3>1, <3>3
    <3>5. PICK s, p : work[j] = [tenant |-> tenant, status |-> s, progress |-> p]
      BY <2>1
    <3>6. /\ work'[j] = [tenant |-> tenant, status |-> status, progress |-> progress]
          /\ DOMAIN work' = DOMAIN work
          /\ \A k \in DOMAIN work \ {j} : work'[k] = work[k]
      <4>1. j \in DOMAIN work
        OBVIOUS
      <4> HIDE DEF ImportsInv
      <4>2. PICK f, g : f = work /\ g = work'
        OBVIOUS
      <4>3. /\ j \in DOMAIN f /\ f[j] = [tenant |-> tenant, status |-> s, progress |-> p]
            /\ g = [f EXCEPT ![j].progress = progress, ![j].status = status]
        BY <3>4, <3>5, <4>1, <4>2
      <4> DEFINE r == [tenant |-> tenant, status |-> s, progress |-> progress]
                 h == [f EXCEPT ![j].progress = progress]
      <4>4. [f[j] EXCEPT !.progress = progress] = r
        BY <4>3
      <4>5. h = [f EXCEPT ![j] = r]
        BY <4>3, <4>4
      <4>6. g = [h EXCEPT ![j].status = status]
        BY <4>3
      <4>7. [r EXCEPT !.status = status]
              = [tenant |-> tenant, status |-> status, progress |-> progress]
        OBVIOUS
      <4> HIDE DEF r, h
      <4>8. h[j] = r /\ DOMAIN h = DOMAIN f /\ \A k \in DOMAIN f \ {j} : h[k] = f[k]
        BY <4>3, <4>5
      <4>9. g = [h EXCEPT ![j] = [r EXCEPT !.status = status]]
        BY <4>3, <4>6, <4>8
      <4>10. /\ g[j] = [tenant |-> tenant, status |-> status, progress |-> progress]
             /\ DOMAIN g = DOMAIN f /\ \A k \in DOMAIN f \ {j} : g[k] = f[k]
        BY <4>3, <4>7, <4>8, <4>9
      <4> QED
        BY <4>2, <4>10
    <3> QED
      BY <3>2, <3>6
  <2>4. ASSUME NEW k \in JobId, k # j
        PROVE  work'[k] = work[k] /\ tasks'[k] = tasks[k] /\ reported'[k] = reported[k]
    BY <2>2, <2>3, <2>4
  <2>5. tasks'[j] = t + 1 /\ reported'[j] = reported[j] /\ work'[j].tenant = tenant
        /\ work'[j] # [tenant |-> "none", status |-> "none", progress |-> 0]
    <3>1. Status(t + 1) # "none"
      BY DEF Status
    <3>2. work'[j].tenant = tenant /\ work'[j].status = Status(t + 1)
      BY <2>3
    <3>3. tasks'[j] = t + 1 /\ reported'[j] = reported[j]
      BY <2>2
    <3> HIDE DEF ImportsInv
    <3> QED
      BY <3>1, <3>2, <3>3
  <2>6. \/ reported'[j] = [status |-> "none", progress |-> 0]
        \/ \E s \in 0 .. t + 1 : reported'[j] = [status |-> Status(s), progress |-> Progress(s)]
    BY <1>3, <2>1, <2>2 DEF Demo!FakeWorker
  <2>7. /\ tasks' \in [JobId -> 0 .. 5]
        /\ DOMAIN work' = JobId /\ DOMAIN reported' = JobId
    BY <2>1, <2>2, <2>3
  <2> QED
    BY <2>1, <2>3, <2>4, <2>5, <2>6, <2>7
<1>4. CASE UNCHANGED <<work, tasks, reported>>
  BY <1>4
<1> QED
  BY <1>1, <1>2, <1>3, <1>4 DEF Demo!ImportsNext

-----------------------------------------------------------------------------
\* A finite set of numbers that is not empty has a greatest one.
LEMMA GreatestOf ==
  ASSUME NEW D, IsFiniteSet(D), D \subseteq Nat, D # {}
  PROVE  \E m \in D : \A y \in D : y <= m
<1> DEFINE G == {s \in SUBSET D : s = {} \/ \E m \in s : \A y \in s : y <= m}
<1>1. ASSUME NEW s \in SUBSET D, \A x \in s : s \ {x} \in G
      PROVE  s \in G
  <2>1. CASE s = {}
    BY <2>1
  <2>2. CASE s # {}
    <3>1. PICK x \in s : TRUE
      BY <2>2
    <3>2. CASE s \ {x} = {}
      BY <3>1, <3>2
    <3>3. CASE s \ {x} # {}
      <4>1. PICK m \in s \ {x} : \A y \in s \ {x} : y <= m
        BY <1>1, <3>1, <3>3
      <4>2. m \in Nat /\ x \in Nat
        OBVIOUS
      <4>3. CASE x <= m
        BY <4>1, <4>2, <4>3
      <4>4. CASE m < x
        <5>1. \A y \in s : y <= x
          BY <4>1, <4>2, <4>4
        <5> QED
          BY <3>1, <5>1
      <4> QED
        BY <4>2, <4>3, <4>4
    <3> QED
      BY <3>2, <3>3
  <2> QED
    BY <2>1, <2>2
<1>2. D \in G
  <2> HIDE DEF G
  <2> QED BY <1>1, SubsetsAll
<1> QED
  BY <1>2

\* A finite set of numbers can be listed in increasing order: its greatest
\* number behind the list of the others.
LEMMA CanBeSorted ==
  ASSUME NEW D, IsFiniteSet(D), D \subseteq Nat
  PROVE  \E f \in [1 .. Cardinality(D) -> D] : \A i \in 2 .. Cardinality(D) : f[i - 1] < f[i]
<1> DEFINE Sorted(s) == \E f \in [1 .. Cardinality(s) -> s] :
                          \A i \in 2 .. Cardinality(s) : f[i - 1] < f[i]
           G == {s \in SUBSET D : Sorted(s)}
<1>1. ASSUME NEW s \in SUBSET D, \A x \in s : s \ {x} \in G
      PROVE  s \in G
  <2>1. IsFiniteSet(s) /\ Cardinality(s) \in Nat
    BY FS_Subset, FS_CardinalityType
  <2>2. CASE s = {}
    <3>1. Cardinality(s) = 0
      BY <2>2, FS_EmptySet
    <3>2. 1 .. Cardinality(s) = {} /\ 2 .. Cardinality(s) = {}
      BY <3>1
    <3>3. [i \in 1 .. Cardinality(s) |-> 0] \in [1 .. Cardinality(s) -> s]
      BY <3>2
    <3> QED
      BY <3>2, <3>3
  <2>3. CASE s # {}
    <3>1. PICK m \in s : \A y \in s : y <= m
      BY <2>1, <2>3, GreatestOf
    <3>2. PICK n : n = Cardinality(s)
      OBVIOUS
    <3>3. n \in Nat \ {0} /\ Cardinality(s \ {m}) = n - 1
      BY <2>1, <2>3, <3>2, FS_RemoveElement, FS_EmptySet
    <3>4. PICK f \in [1 .. n - 1 -> s \ {m}] : \A i \in 2 .. n - 1 : f[i - 1] < f[i]
      BY <1>1, <3>1, <3>3
    <3> DEFINE g == [i \in 1 .. n |-> IF i = n THEN m ELSE f[i]]
    <3>5. g \in [1 .. n -> s]
      BY <3>1, <3>3, <3>4
    <3>6. ASSUME NEW i \in 2 .. n
          PROVE  g[i - 1] < g[i]
      <4>1. i - 1 \in 1 .. n - 1 /\ g[i - 1] = f[i - 1]
        BY <3>3
      <4>2. f[i - 1] \in s /\ f[i - 1] # m
        BY <3>4, <4>1
      <4>3. CASE i = n
        <5>1. g[i] = m /\ m \in Nat /\ f[i - 1] \in Nat
          <6>1. i \in 1 .. n /\ g[i] = m
            BY <3>3, <4>3
          <6>2. \A y \in s : y \in Nat
            OBVIOUS
          <6> QED
            BY <3>1, <4>2, <6>1, <6>2
        <5>2. f[i - 1] <= m
          BY <3>1, <4>2
        <5> QED
          BY <4>1, <4>2, <5>1, <5>2
      <4>4. CASE i # n
        BY <3>3, <3>4, <4>1, <4>4
      <4> QED
        BY <4>3, <4>4
    <3> HIDE DEF g
    <3>7. Sorted(s)
      BY <3>2, <3>5, <3>6
    <3> QED
      BY <3>7
  <2> QED
    BY <2>2, <2>3
<1>2. D \in G
  <2> HIDE DEF G
  <2> QED BY <1>1, SubsetsAll
<1> QED
  BY <1>2

\* A list whose neighbours increase increases throughout.
LEMMA SortedIsMonotone ==
  ASSUME NEW n \in Nat, NEW f \in [1 .. n -> Nat], \A i \in 2 .. n : f[i - 1] < f[i]
  PROVE  \A i, j \in 1 .. n : i < j => f[i] < f[j]
<1> DEFINE G == {d \in Nat : \A i \in 1 .. n : i + d + 1 <= n => f[i] < f[i + d + 1]}
<1>1. 0 \in G
  <2>1. ASSUME NEW i \in 1 .. n, i + 1 <= n
        PROVE  f[i] < f[i + 1]
    <3>1. i + 1 \in 2 .. n /\ (i + 1) - 1 = i
      BY <2>1
    <3> QED
      BY <3>1
  <2> QED
    BY <2>1
<1>2. ASSUME NEW d \in Nat, d \in G
      PROVE  d + 1 \in G
  <2>1. ASSUME NEW i \in 1 .. n, i + (d + 1) + 1 <= n
        PROVE  f[i] < f[i + (d + 1) + 1]
    <3>1. /\ i + (d + 1) + 1 \in 2 .. n
          /\ (i + (d + 1) + 1) - 1 = i + d + 1 /\ i + d + 1 \in 1 .. n
      BY <2>1
    <3>2. f[i + d + 1] < f[i + (d + 1) + 1]
      BY <3>1
    <3>3. f[i] < f[i + d + 1]
      BY <1>2, <2>1, <3>1
    <3>4. f[i] \in Nat /\ f[i + d + 1] \in Nat /\ f[i + (d + 1) + 1] \in Nat
      BY <3>1
    <3> QED
      BY <3>2, <3>3, <3>4
  <2> QED
    BY <2>1
<1>3. Nat \subseteq G
  <2> HIDE DEF G
  <2> QED BY <1>1, <1>2, NaturalsAll
<1>4. ASSUME NEW i \in 1 .. n, NEW j \in 1 .. n, i < j
      PROVE  f[i] < f[j]
  <2>1. j - i - 1 \in Nat /\ i + (j - i - 1) + 1 = j
    BY <1>4
  <2>2. j - i - 1 \in G
    BY <1>3, <2>1
  <2> QED
    BY <2>1, <2>2
<1> QED
  BY <1>4

\* An increasing list as long as the set it takes its numbers from has them all.
LEMMA SortedHasAll ==
  ASSUME NEW D, IsFiniteSet(D), D \subseteq Nat, NEW f \in [1 .. Cardinality(D) -> D],
         \A i \in 2 .. Cardinality(D) : f[i - 1] < f[i]
  PROVE  \A x \in D : \E i \in 1 .. Cardinality(D) : f[i] = x
<1> DEFINE n == Cardinality(D)
<1>1. n \in Nat /\ IsFiniteSet(1 .. n) /\ Cardinality(1 .. n) = n
  BY FS_CardinalityType, FS_Interval
<1>2. \A i, j \in 1 .. n : i < j => f[i] < f[j]
  <2>1. f \in [1 .. n -> Nat]
    OBVIOUS
  <2> HIDE DEF n
  <2> QED
    BY <1>1, <2>1, SortedIsMonotone DEF n
<1>3. \A i, j \in 1 .. n : f[i] = f[j] => i = j
  <2> SUFFICES ASSUME NEW i \in 1 .. n, NEW j \in 1 .. n, f[i] = f[j], i # j
               PROVE  FALSE
    OBVIOUS
  <2>1. f[i] \in Nat /\ f[j] \in Nat
    OBVIOUS
  <2> HIDE DEF n
  <2>2. i < j \/ j < i
    BY <1>1
  <2> QED
    BY <1>2, <2>1, <2>2
<1>4. f \in Injection(1 .. n, D)
  BY <1>3 DEF Injection, IsInjective
<1>5. f \in Surjection(1 .. n, D)
  BY <1>1, <1>4, FS_Injection
<1> QED
  BY <1>5 DEF Surjection

-----------------------------------------------------------------------------
\* The operators the demo's instance brings along are the ones here.
LEMMA DemoLists ==
  ASSUME NEW s
  PROVE  /\ Demo!ToSet(s) = ToSet(s) /\ Demo!Last(s) = Last(s)
         /\ Demo!Cardinality(s) = Cardinality(s)
<1>1. Demo!ToSet(s) = ToSet(s) /\ Demo!Last(s) = Last(s)
  BY DEF Demo!ToSet, ToSet, Demo!Last, Last
<1>2. Demo!Cardinality(s) = Cardinality(s)
  BY DEF Demo!Cardinality, Cardinality
<1> QED
  BY <1>1, <1>2

\* Increasing, between any two places.
Ascending(s) == \A i, j \in 1 .. Len(s) : i < j => s[i] < s[j]

\* sorted() lists exactly the set it is given, in order.
LEMMA ByIdSorts ==
  ASSUME NEW D, IsFiniteSet(D), D \subseteq Nat
  PROVE  /\ Demo!ById(D) \in Seq(Nat) /\ Len(Demo!ById(D)) = Cardinality(D)
         /\ Ascending(Demo!ById(D)) /\ ToSet(Demo!ById(D)) = D
<1> DEFINE n == Cardinality(D)
           f == Demo!ById(D)
<1>1. n \in Nat /\ Demo!Cardinality(D) = n
  BY FS_CardinalityType, DemoLists
<1>2. \A s \in [1 .. n -> D] : Len(s) = n /\ s \in Seq(Nat)
  <2> SUFFICES ASSUME NEW s \in [1 .. n -> D]
               PROVE  Len(s) = n /\ s \in Seq(Nat)
    OBVIOUS
  <2>1. s \in [1 .. n -> Nat] /\ DOMAIN s = 1 .. n
    OBVIOUS
  <2> HIDE DEF n
  <2>2. s \in Seq(Nat)
    BY <1>1, <2>1, SeqDef
  <2>3. Len(s) \in Nat /\ DOMAIN s = 1 .. Len(s)
    BY <2>2, LenProperties
  <2> QED
    BY <1>1, <2>1, <2>2, <2>3
<1>3. f = CHOOSE s \in [1 .. n -> D] : \A i \in 2 .. Len(s) : s[i - 1] < s[i]
  BY <1>1 DEF Demo!ById, Demo!Increasing
<1>4. \E s \in [1 .. n -> D] : \A i \in 2 .. Len(s) : s[i - 1] < s[i]
  <2>1. PICK s \in [1 .. n -> D] : \A i \in 2 .. n : s[i - 1] < s[i]
    BY CanBeSorted
  <2> QED
    BY <1>2, <2>1
<1>5. f \in [1 .. n -> D] /\ \A i \in 2 .. Len(f) : f[i - 1] < f[i]
  <2> HIDE DEF f, n
  <2> QED BY <1>3, <1>4
<1> HIDE DEF f
<1>6. f \in Seq(Nat) /\ Len(f) = n
  BY <1>2, <1>5
<1>7. Ascending(f)
  <2>1. f \in [1 .. n -> Nat] /\ \A i \in 2 .. n : f[i - 1] < f[i]
    BY <1>5, <1>6
  <2> HIDE DEF n
  <2> QED
    BY <1>1, <1>6, <2>1, SortedIsMonotone DEF Ascending
<1>8. ToSet(f) = D
  <2>1. \A x \in D : \E i \in 1 .. n : f[i] = x
    BY <1>5, <1>6, SortedHasAll
  <2> HIDE DEF n
  <2> QED
    BY <1>5, <2>1 DEF ToSet
<1> QED
  BY <1>6, <1>7, <1>8 DEF f

\* A page of n after a cursor: in order, only ids beyond the cursor, and an id it
\* leaves out lies beyond its last one, and then the page is full.
PageOf(page, ids, after, n) ==
  /\ page \in Seq(Nat) /\ Ascending(page)
  /\ ToSet(page) \subseteq {i \in ids : i > after}
  /\ Len(page) = n => page # <<>>
  /\ \A i \in ids : i > after => i \in ToSet(page) \/ (Len(page) = n /\ i > Last(page))

\* The query's answer is such a page.
LEMMA PageIs ==
  ASSUME NEW u, NEW after \in Nat, NEW n \in Nat \ {0},
         IsFiniteSet(Demo!IdsOf(Demo!Tenant(u))), Demo!IdsOf(Demo!Tenant(u)) \subseteq Nat
  PROVE  PageOf(Demo!PageFrom(u, after, n), Demo!IdsOf(Demo!Tenant(u)), after, n)
<1> PICK page, D : page = Demo!PageFrom(u, after, n) /\ D = Demo!IdsOf(Demo!Tenant(u))
  OBVIOUS
<1> DEFINE S == {i \in D : i > after}
<1>1. S \subseteq Nat /\ IsFiniteSet(S)
  BY FS_Subset
<1>2. PICK ids : ids = Demo!ById(S)
  OBVIOUS
<1>3. /\ ids \in Seq(Nat) /\ Len(ids) = Cardinality(S) /\ Ascending(ids) /\ ToSet(ids) = S
  <2> HIDE DEF S
  <2> QED
    BY <1>1, <1>2, ByIdSorts
<1>4. PICK k : k = IF Len(ids) < n THEN Len(ids) ELSE n
  OBVIOUS
<1>5. page = SubSeq(ids, 1, k)
  BY <1>2, <1>4 DEF Demo!PageFrom, Demo!Beyond
<1> HIDE DEF S
<1>6. PICK m \in Nat : m = Len(ids)
  BY <1>3, LenProperties
<1>7. DOMAIN ids = 1 .. m /\ \A i \in 1 .. m : ids[i] \in Nat
  BY <1>3, <1>6, LenProperties
<1>8. k \in Nat /\ k <= m /\ (k = m \/ k = n)
  BY <1>4, <1>6
<1>9. /\ page \in Seq(Nat) /\ Len(page) = k /\ DOMAIN page = 1 .. k
      /\ \A i \in 1 .. k : page[i] = ids[i]
  <2>1. \A i \in 1 .. k : ids[i] \in Nat
    BY <1>7, <1>8
  <2>2. SubSeq(ids, 1, k) \in Seq(Nat) /\ Len(SubSeq(ids, 1, k)) = k
        /\ \A i \in 1 .. k : SubSeq(ids, 1, k)[i] = ids[i]
    BY <1>8, <2>1, SubSeqProperties
  <2> QED
    BY <1>5, <2>2, LenProperties
<1>10. Ascending(page)
  BY <1>3, <1>9, <1>6, <1>8 DEF Ascending
<1>11. ToSet(page) \subseteq S
  <2>1. ToSet(page) = {page[i] : i \in 1 .. k} /\ S = {ids[i] : i \in 1 .. m}
    BY <1>3, <1>9, <1>7 DEF ToSet
  <2>2. ASSUME NEW i \in 1 .. k PROVE i \in 1 .. m /\ page[i] = ids[i]
    BY <1>9, <1>8
  <2> QED
    BY <2>1, <2>2
<1>12. ASSUME NEW x \in S, x \notin ToSet(page)
      PROVE  Len(page) = n /\ x > Last(page)
  <2>1. PICK i \in 1 .. m : ids[i] = x
    BY <1>3, <1>7 DEF ToSet
  <2>2. \A j \in 1 .. k : ids[j] \in ToSet(page)
    BY <1>9 DEF ToSet
  <2>3. i > k
    BY <1>12, <1>8, <2>1, <2>2
  <2>4. k = n /\ n \in 1 .. m
    BY <1>8, <2>1, <2>3
  <2>5. Last(page) = ids[n]
    BY <1>9, <2>4 DEF Last
  <2>6. ids[n] < ids[i] /\ ids[n] \in Nat /\ ids[i] \in Nat
    BY <1>3, <1>6, <1>7, <2>1, <2>3, <2>4 DEF Ascending
  <2> QED
    BY <1>9, <2>1, <2>4, <2>5, <2>6
<1>13. Len(page) = n => page # <<>>
  BY <1>9
<1> QED
  BY <1>9, <1>10, <1>11, <1>12, <1>13 DEF S, PageOf

-----------------------------------------------------------------------------
\* TenantsApart for the leads.  An id belongs to one row of one tenant, and one
\* tenant has an address once.
RowsInv ==
  /\ ~ strayed
  /\ \A r \in rows : r.id \in LeadId /\ \E raw \in Raw : r.email = Demo!Normalised(raw)
  /\ \A r, s \in rows : r.id = s.id => r = s
  /\ \A r, s \in rows : r.tenant = s.tenant /\ r.email.address = s.email.address => r = s

\* A walk, however far it is.
Walk == [on : BOOLEAN, after : Nat, limit : Nat \ {0}, got : Seq(Nat), first : SUBSET Nat]

\* PagesComplete; what a walk in progress has seen is no greater than its cursor,
\* so that the next page continues it in order, and rows are never taken away.
WalksInv ==
  /\ walk \in [Walker -> Walk]
  /\ \A u \in Walker :
       /\ Ascending(walk[u].got)
       /\ walk[u].on => \A i \in ToSet(walk[u].got) : i <= walk[u].after
       /\ walk[u].first \subseteq Demo!IdsOf(Demo!Tenant(u))
       /\ \A i \in walk[u].first :
            i \in ToSet(walk[u].got) \/ (walk[u].on /\ i > walk[u].after)

\* Lower-casing leaves one spelling of an address.
LEMMA EmailsAgree ==
  ASSUME NEW r \in Raw, NEW s \in Raw,
         Demo!Normalised(r).address = Demo!Normalised(s).address
  PROVE  Demo!Normalised(r) = Demo!Normalised(s)
BY DemoAssumption DEF Demo!Normalised

\* A tenant's ids are finitely many positive numbers.
LEMMA IdsAre ==
  ASSUME RowsInv, NEW t
  PROVE  /\ Demo!IdsOf(t) \subseteq LeadId
         /\ Demo!IdsOf(t) \subseteq Nat \ {0}
         /\ IsFiniteSet(Demo!IdsOf(t))
<1>1. Demo!IdsOf(t) \subseteq LeadId
  BY DEF Demo!IdsOf, RowsInv
<1> QED
  BY <1>1, DemoAssumption, FS_Subset

\* Whoever asks for ids of its own tenant is shown rows of its own tenant.
LEMMA OwnOnly ==
  ASSUME RowsInv, NEW t, NEW ids, ids \subseteq Demo!IdsOf(t)
  PROVE  {r.tenant : r \in {s \in rows : s.id \in ids}} \subseteq {t}
<1>1. ASSUME NEW r \in rows, r.id \in ids
      PROVE  r.tenant = t
  <2>1. PICK s \in rows : s.tenant = t /\ s.id = r.id
    BY <1>1 DEF Demo!IdsOf
  <2> QED
    BY <2>1 DEF RowsInv
<1> QED
  BY <1>1

\* Creating a lead takes a new id and an address the tenant does not have, and
\* only adds to what a walk has to get.
LEMMA CreateKeeps ==
  ASSUME RowsInv, WalksInv, NEW u \in User, NEW raw \in Raw, NEW id \in LeadId,
         Demo!Create(u, raw, id)
  PROVE  RowsInv' /\ WalksInv'
<1>1. PICK new : new = [id |-> id, tenant |-> Demo!Tenant(u), email |-> Demo!Normalised(raw)]
  OBVIOUS
<1>2. /\ rows' = rows \cup {new} /\ UNCHANGED <<walk, strayed>>
      /\ id \notin {r.id : r \in rows} /\ ~ Demo!Taken(Demo!Tenant(u), Demo!Normalised(raw))
  BY <1>1 DEF Demo!Create
<1>3. /\ new.id = id /\ new.tenant = Demo!Tenant(u) /\ new.email = Demo!Normalised(raw)
  BY <1>1
<1>4. ASSUME NEW r \in rows
      PROVE  r.id # new.id /\ ~ (r.tenant = new.tenant /\ r.email.address = new.email.address)
  <2>1. r.id # new.id
    BY <1>2, <1>3
  <2>2. PICK other \in Raw : r.email = Demo!Normalised(other)
    BY DEF RowsInv
  <2>3. ASSUME r.tenant = new.tenant, r.email.address = new.email.address
        PROVE  FALSE
    <3>1. r.email = new.email
      BY <1>3, <2>2, <2>3, EmailsAgree
    <3> QED
      BY <1>2, <1>3, <2>3, <3>1 DEF Demo!Taken
  <2> QED
    BY <2>1, <2>3
<1>5. RowsInv'
  <2>1. \A r \in rows' : r.id \in LeadId /\ \E s \in Raw : r.email = Demo!Normalised(s)
    BY <1>2, <1>3 DEF RowsInv
  <2>2. \A r, s \in rows' : r.id = s.id => r = s
    BY <1>2, <1>4 DEF RowsInv
  <2>3. \A r, s \in rows' : r.tenant = s.tenant /\ r.email.address = s.email.address => r = s
    BY <1>2, <1>4 DEF RowsInv
  <2>4. ~ strayed'
    BY <1>2 DEF RowsInv
  <2> HIDE <1>2, <1>3, <1>4
  <2> QED
    BY <2>1, <2>2, <2>3, <2>4 DEF RowsInv, Demo!Normalised
<1>6. WalksInv'
  <2>1. \A t : Demo!IdsOf(t) \subseteq Demo!IdsOf(t)'
    BY <1>2 DEF Demo!IdsOf
  <2>2. \A v \in Walker : Demo!IdsOf(Demo!Tenant(v)) \subseteq Demo!IdsOf(Demo!Tenant(v))'
    BY <2>1 DEF Demo!Tenant
  <2> QED
    BY <1>2, <2>2 DEF WalksInv
<1> QED
  BY <1>5, <1>6

\* Reading one lead shows the reader's own.
LEMMA GetKeeps ==
  ASSUME RowsInv, WalksInv, NEW u \in User, NEW id \in LeadId, Demo!Get(u, id)
  PROVE  RowsInv' /\ WalksInv'
<1>1. UNCHANGED <<rows, walk>>
  BY DEF Demo!Get, Demo!leadVars
<1>2. {r.tenant : r \in {s \in rows : s.id = id}} \subseteq {Demo!Tenant(u)}
  <2>1. {id} \subseteq Demo!IdsOf(Demo!Tenant(u))
    BY DEF Demo!Get, Demo!Found
  <2>2. {s \in rows : s.id = id} = {s \in rows : s.id \in {id}}
    OBVIOUS
  <2> QED
    BY <2>1, <2>2, OwnOnly
<1>3. ~ strayed'
  BY <1>2 DEF Demo!Get, Demo!Show, RowsInv
<1> QED
  BY <1>1, <1>3 DEF RowsInv, WalksInv, Demo!IdsOf, Demo!Normalised

\* A walk begins before every id there is.
LEMMA StartKeeps ==
  ASSUME RowsInv, WalksInv, NEW u \in Walker, NEW n \in Limit, Demo!StartWalk(u, n)
  PROVE  RowsInv' /\ WalksInv'
<1>1. UNCHANGED <<rows, strayed>>
  BY DEF Demo!StartWalk
<1>2. RowsInv'
  BY <1>1 DEF RowsInv, Demo!Normalised
<1>3. PICK w : w = [Demo!NoWalk EXCEPT !.on = TRUE, !.limit = n,
                                       !.first = Demo!IdsOf(Demo!Tenant(u))]
  OBVIOUS
<1>4. walk' = [walk EXCEPT ![u] = w]
  BY <1>3 DEF Demo!StartWalk
<1>5. PICK ids : ids = Demo!IdsOf(Demo!Tenant(u))
  OBVIOUS
<1>6. ids \in SUBSET (Nat \ {0}) /\ n \in Nat \ {0}
  BY <1>5, IdsAre, DemoAssumption
<1>7. w.on /\ w.after = 0 /\ w.limit = n /\ w.got = <<>> /\ w.first = ids /\ w \in Walk
  <2>1. PICK a : a = Demo!NoWalk
    OBVIOUS
  <2>2. PICK b : b = [a EXCEPT !.on = TRUE]
    OBVIOUS
  <2>3. PICK c : c = [b EXCEPT !.limit = n]
    OBVIOUS
  <2>4. w = [c EXCEPT !.first = ids]
    BY <1>3, <1>5, <2>1, <2>2, <2>3
  <2>5. a \in Walk /\ a.after = 0 /\ a.got = <<>>
    BY <2>1 DEF Demo!NoWalk, Walk
  <2>6. b \in Walk /\ b.after = 0 /\ b.got = <<>> /\ b.on
    BY <2>2, <2>5 DEF Walk
  <2>7. c \in Walk /\ c.after = 0 /\ c.got = <<>> /\ c.on /\ c.limit = n
    BY <1>6, <2>3, <2>6 DEF Walk
  <2>8. ids \in SUBSET Nat
    BY <1>6
  <2> QED
    BY <1>6, <2>4, <2>7, <2>8 DEF Walk
<1>8. \A v \in Walker : Demo!IdsOf(Demo!Tenant(v))' = Demo!IdsOf(Demo!Tenant(v))
  BY <1>1 DEF Demo!IdsOf, Demo!Tenant
<1>9. Ascending(w.got) /\ ToSet(w.got) = {}
  BY <1>7 DEF Ascending, ToSet
<1>10. WalksInv'
  BY <1>4, <1>5, <1>6, <1>7, <1>8, <1>9 DEF WalksInv
<1> QED
  BY <1>2, <1>10

\* Two increasing lists, the second beyond a bound of the first, join into one.
LEMMA Joined ==
  ASSUME NEW a \in Seq(Nat), NEW b \in Seq(Nat), NEW m \in Nat, Ascending(a), Ascending(b),
         \A x \in ToSet(a) : x <= m, \A x \in ToSet(b) : x > m
  PROVE  /\ a \o b \in Seq(Nat) /\ Ascending(a \o b)
         /\ ToSet(a \o b) = ToSet(a) \cup ToSet(b)
<1>1. PICK k \in Nat, n \in Nat : k = Len(a) /\ n = Len(b)
  BY LenProperties
<1>2. /\ a \o b \in Seq(Nat) /\ Len(a \o b) = k + n /\ DOMAIN (a \o b) = 1 .. k + n
      /\ \A i \in 1 .. k + n : (a \o b)[i] = IF i <= k THEN a[i] ELSE b[i - k]
  BY <1>1, ConcatProperties, LenProperties
<1>3. /\ DOMAIN a = 1 .. k /\ \A i \in 1 .. k : a[i] \in Nat /\ a[i] <= m
      /\ DOMAIN b = 1 .. n /\ \A i \in 1 .. n : b[i] \in Nat /\ b[i] > m
  <2>1. /\ DOMAIN a = 1 .. k /\ \A i \in 1 .. k : a[i] \in Nat
        /\ DOMAIN b = 1 .. n /\ \A i \in 1 .. n : b[i] \in Nat
    BY <1>1, LenProperties
  <2> QED
    BY <2>1 DEF ToSet
<1>4. PICK c : c = a \o b
  OBVIOUS
<1>5. ASSUME NEW i \in 1 .. k + n, NEW j \in 1 .. k + n, i < j
      PROVE  c[i] < c[j]
  <2>1. CASE j <= k
    BY <1>1, <1>2, <1>4, <1>5, <2>1 DEF Ascending
  <2>2. CASE i <= k /\ k < j
    <3>1. i \in 1 .. k /\ j - k \in 1 .. n /\ c[i] = a[i] /\ c[j] = b[j - k]
      BY <1>2, <1>4, <2>2
    <3> QED
      BY <1>3, <3>1
  <2>3. CASE k < i
    <3>1. i - k \in 1 .. n /\ j - k \in 1 .. n /\ i - k < j - k /\ ~ (i <= k) /\ ~ (j <= k)
      BY <1>5, <2>3
    <3>2. c[i] = b[i - k] /\ c[j] = b[j - k]
      BY <1>2, <1>4, <3>1
    <3> QED
      BY <1>1, <3>1, <3>2 DEF Ascending
  <2> QED
    BY <1>5, <2>1, <2>2, <2>3
<1>6. ToSet(c) = ToSet(a) \cup ToSet(b)
  <2>1. /\ ToSet(a) = {a[i] : i \in 1 .. k} /\ ToSet(b) = {b[i] : i \in 1 .. n}
        /\ ToSet(c) = {c[i] : i \in 1 .. k + n}
    BY <1>2, <1>3, <1>4 DEF ToSet
  <2>2. ASSUME NEW i \in 1 .. k + n
        PROVE  c[i] \in ToSet(a) \cup ToSet(b)
    <3>1. CASE i <= k
      BY <1>2, <1>4, <2>1, <3>1
    <3>2. CASE k < i
      <4>1. i - k \in 1 .. n /\ ~ (i <= k)
        BY <3>2
      <4>2. c[i] = b[i - k]
        BY <1>2, <1>4, <4>1
      <4> QED
        BY <2>1, <4>1, <4>2
    <3> QED
      BY <3>1, <3>2
  <2>3. ASSUME NEW i \in 1 .. k
        PROVE  a[i] \in ToSet(c)
    <3>1. i \in 1 .. k + n /\ c[i] = a[i]
      BY <1>2, <1>4
    <3> QED
      BY <2>1, <3>1
  <2>4. ASSUME NEW i \in 1 .. n
        PROVE  b[i] \in ToSet(c)
    <3>1. i + k \in 1 .. k + n /\ ~ (i + k <= k) /\ (i + k) - k = i
      OBVIOUS
    <3>2. c[i + k] = b[i]
      BY <1>2, <1>4, <3>1
    <3> QED
      BY <2>1, <3>1, <3>2
  <2> QED
    BY <2>1, <2>2, <2>3, <2>4
<1>7. Ascending(c)
  BY <1>2, <1>4, <1>5 DEF Ascending
<1> QED
  BY <1>2, <1>4, <1>6, <1>7

\* The last of an increasing list is its greatest.
LEMMA LastIsGreatest ==
  ASSUME NEW s \in Seq(Nat), s # <<>>, Ascending(s)
  PROVE  Last(s) \in ToSet(s) /\ \A x \in ToSet(s) : x <= Last(s)
<1>1. PICK n \in Nat \ {0} : n = Len(s)
  BY EmptySeq, LenProperties
<1>2. DOMAIN s = 1 .. n /\ n \in 1 .. n /\ \A i \in 1 .. n : s[i] \in Nat
  BY <1>1, LenProperties
<1>3. Last(s) = s[n]
  BY <1>1 DEF Last
<1>4. ASSUME NEW i \in 1 .. n
      PROVE  s[i] <= s[n]
  BY <1>1, <1>2 DEF Ascending
<1> QED
  BY <1>2, <1>3, <1>4 DEF ToSet

\* The next page continues a walk in order; what it still misses lies beyond the
\* new cursor, and after a page that is not full it misses nothing.
LEMMA ListKeeps ==
  ASSUME RowsInv, WalksInv, NEW u \in Walker, Demo!List(u)
  PROVE  RowsInv' /\ WalksInv'
<1>1. PICK w : w = walk[u]
  OBVIOUS
<1>2. w \in Walk /\ w.on /\ w.after \in Nat /\ w.limit \in Nat \ {0} /\ w.got \in Seq(Nat)
  BY <1>1 DEF WalksInv, Walk, Demo!List
<1>3. PICK page : page = Demo!PageFrom(u, w.after, w.limit)
  OBVIOUS
<1>4. PICK ids : ids = Demo!IdsOf(Demo!Tenant(u))
  OBVIOUS
<1>5. ids \subseteq Nat /\ IsFiniteSet(ids)
  BY <1>4, IdsAre
<1>6. /\ page \in Seq(Nat) /\ Ascending(page)
      /\ ToSet(page) \subseteq {i \in ids : i > w.after}
      /\ Len(page) = w.limit => page # <<>>
      /\ \A i \in ids : i > w.after => i \in ToSet(page) \/ (Len(page) = w.limit /\ i > Last(page))
  <2>1. PageOf(page, ids, w.after, w.limit)
    BY <1>2, <1>3, <1>4, <1>5, PageIs
  <2> QED
    BY <2>1 DEF PageOf
<1>7. PICK full, after :
        /\ full \in BOOLEAN /\ (full <=> Len(page) = w.limit)
        /\ after = IF Len(page) = w.limit THEN Last(page) ELSE w.after
  OBVIOUS
<1>8. /\ walk' = [walk EXCEPT ![u] = [w EXCEPT !.got = w.got \o page, !.on = full, !.after = after]]
      /\ UNCHANGED rows
  BY <1>1, <1>3, <1>7, DemoLists DEF Demo!List
<1>9. RowsInv'
  <2>1. {r.tenant : r \in {s \in rows : s.id \in ToSet(page)}} \subseteq {Demo!Tenant(u)}
    BY <1>4, <1>6, OwnOnly
  <2>2. Demo!Show(u, {r.tenant : r \in {s \in rows : s.id \in ToSet(page)}})
    BY <1>1, <1>3, DemoLists DEF Demo!List
  <2>3. ~ strayed'
    BY <2>1, <2>2 DEF Demo!Show, RowsInv
  <2> QED
    BY <1>8, <2>3 DEF RowsInv, Demo!Normalised
<1>10. /\ w.got \o page \in Seq(Nat) /\ Ascending(w.got \o page)
       /\ ToSet(w.got \o page) = ToSet(w.got) \cup ToSet(page)
       /\ \A x \in ToSet(w.got) : x <= w.after
  <2>1. Ascending(w.got) /\ \A x \in ToSet(w.got) : x <= w.after
    BY <1>1, <1>2 DEF WalksInv
  <2>2. \A x \in ToSet(page) : x > w.after
    BY <1>6
  <2> QED
    BY <1>2, <1>6, <2>1, <2>2, Joined
<1>11. /\ after \in Nat
       /\ full => \A x \in ToSet(w.got \o page) : x <= after
  <2>1. CASE full
    <3>1. after = Last(page) /\ page # <<>>
      BY <1>6, <1>7, <2>1
    <3>2. after \in ToSet(page) /\ \A x \in ToSet(page) : x <= after
      BY <1>6, <3>1, LastIsGreatest
    <3>3. after \in Nat /\ after > w.after
      BY <1>5, <1>6, <3>2
    <3>4. \A x \in ToSet(w.got) : x <= after
      <4>1. \A x \in ToSet(w.got) : x \in Nat
        BY <1>2, LenProperties DEF ToSet
      <4> QED
        BY <1>2, <1>10, <3>3, <4>1
    <3> QED
      BY <1>10, <3>2, <3>3, <3>4
  <2>2. CASE ~ full
    BY <1>2, <1>7, <2>2
  <2> QED
    BY <2>1, <2>2
<1>12. PICK v : v = [w EXCEPT !.got = w.got \o page, !.on = full, !.after = after]
  OBVIOUS
<1>13. /\ v \in Walk /\ v.got = w.got \o page /\ (v.on <=> full) /\ v.after = after
       /\ v.first = w.first
  <2>1. PICK a : a = [w EXCEPT !.got = w.got \o page]
    OBVIOUS
  <2>2. PICK b : b = [a EXCEPT !.on = full]
    OBVIOUS
  <2>3. v = [b EXCEPT !.after = after]
    BY <1>12, <2>1, <2>2
  <2>4. a \in Walk /\ a.got = w.got \o page /\ a.first = w.first
    BY <1>2, <1>10, <2>1 DEF Walk
  <2>5. b \in Walk /\ b.got = w.got \o page /\ b.first = w.first /\ b.on = full
    BY <1>7, <2>2, <2>4 DEF Walk
  <2> QED
    BY <1>7, <1>11, <2>3, <2>5 DEF Walk
<1>14. ASSUME NEW i \in w.first
       PROVE  i \in ToSet(v.got) \/ (v.on /\ i > v.after)
  <2>1. i \in ids /\ (i \in ToSet(w.got) \/ i > w.after)
    BY <1>1, <1>4 DEF WalksInv
  <2> QED
    BY <1>6, <1>7, <1>10, <1>13, <2>1
<1>15. \A x \in Walker : Demo!IdsOf(Demo!Tenant(x))' = Demo!IdsOf(Demo!Tenant(x))
  BY <1>8 DEF Demo!IdsOf, Demo!Tenant
<1>16. walk' = [walk EXCEPT ![u] = v]
  BY <1>8, <1>12
<1>17. w.first \subseteq Demo!IdsOf(Demo!Tenant(u))
  BY <1>1 DEF WalksInv
<1>18. WalksInv'
  BY <1>10, <1>11, <1>13, <1>14, <1>15, <1>16, <1>17 DEF WalksInv
<1> QED
  BY <1>9, <1>18

-----------------------------------------------------------------------------
\* The demo's invariant.
DemoInv == RowsInv /\ WalksInv /\ ImportsInv

\* Every request and every step of an import task keeps it.
LEMMA DemoStep ==
  DemoInv /\ (Demo!LeadsNext \/ Demo!ImportsNext \/ UNCHANGED demo) => DemoInv'
<1> SUFFICES ASSUME DemoInv, Demo!LeadsNext \/ Demo!ImportsNext \/ UNCHANGED demo
             PROVE  DemoInv'
  OBVIOUS
<1> USE DEF DemoInv
<1>1. CASE Demo!LeadsNext
  <2>1. ASSUME NEW u \in User, NEW raw \in Raw, NEW id \in LeadId, Demo!Create(u, raw, id)
        PROVE  RowsInv' /\ WalksInv' /\ UNCHANGED <<work, tasks, reported>>
    BY <2>1, CreateKeeps DEF Demo!Create, Demo!importVars
  <2>2. ASSUME NEW u \in User, NEW id \in LeadId, Demo!Get(u, id)
        PROVE  RowsInv' /\ WalksInv' /\ UNCHANGED <<work, tasks, reported>>
    BY <2>2, GetKeeps DEF Demo!Get, Demo!importVars
  <2>3. ASSUME NEW u \in Walker, Demo!List(u)
        PROVE  RowsInv' /\ WalksInv' /\ UNCHANGED <<work, tasks, reported>>
    BY <2>3, ListKeeps DEF Demo!List, Demo!importVars
  <2>4. ASSUME NEW u \in Walker, NEW n \in Limit, Demo!StartWalk(u, n)
        PROVE  RowsInv' /\ WalksInv' /\ UNCHANGED <<work, tasks, reported>>
    BY <2>4, StartKeeps DEF Demo!StartWalk, Demo!importVars
  <2>5. RowsInv' /\ WalksInv' /\ UNCHANGED <<work, tasks, reported>>
    BY <1>1, <2>1, <2>2, <2>3, <2>4 DEF Demo!LeadsNext
  <2> QED
    BY <2>5, ImportsStep
<1>2. CASE Demo!ImportsNext
  <2>1. ASSUME NEW u \in User, NEW j \in JobId, Demo!StartImport(u, j)
        PROVE  UNCHANGED <<rows, walk>> /\ ~ strayed'
    BY <2>1 DEF Demo!StartImport, Demo!leadVars, RowsInv
  <2>2. ASSUME NEW u \in User, NEW j \in JobId, Demo!ImportStatus(u, j)
        PROVE  UNCHANGED <<rows, walk>> /\ ~ strayed'
    BY <2>2 DEF Demo!ImportStatus, Demo!Show, Demo!leadVars, RowsInv
  <2>3. ASSUME NEW j \in JobId, Demo!FakeWorker(j)
        PROVE  UNCHANGED <<rows, walk>> /\ ~ strayed'
    BY <2>3 DEF Demo!FakeWorker, Demo!leadVars, RowsInv
  <2>4. UNCHANGED <<rows, walk>> /\ ~ strayed'
    BY <1>2, <2>1, <2>2, <2>3 DEF Demo!ImportsNext
  <2>5. RowsInv' /\ WalksInv'
    BY <2>4 DEF RowsInv, WalksInv, Demo!Normalised, Demo!IdsOf, Demo!Tenant
  <2> QED
    BY <1>2, <2>5, ImportsStep
<1>3. CASE UNCHANGED demo
  <2>1. UNCHANGED <<rows, walk, strayed>> /\ UNCHANGED <<work, tasks, reported>>
    BY <1>3 DEF demo
  <2>2. RowsInv' /\ WalksInv'
    BY <2>1 DEF RowsInv, WalksInv, Demo!Normalised, Demo!IdsOf, Demo!Tenant
  <2> QED
    BY <2>1, <2>2, ImportsStep
<1> QED
  BY <1>1, <1>2, <1>3

\* The empty tables and the idle lab satisfy both invariants.
LEMMA InitHolds == Init => DemoInv /\ LabInv
<1> SUFFICES ASSUME Init PROVE DemoInv /\ LabInv
  OBVIOUS
<1> USE DEF Init
<1>1. RowsInv
  BY DEF Demo!Init, RowsInv
<1>2. WalksInv
  <2>1. \A u \in Walker : walk[u] = Demo!NoWalk
    BY DEF Demo!Init
  <2>2. /\ Demo!NoWalk \in Walk /\ ~ Demo!NoWalk.on /\ Demo!NoWalk.got = <<>>
        /\ Demo!NoWalk.first = {}
    BY DEF Demo!NoWalk, Walk
  <2>3. Ascending(<<>>)
    BY DEF Ascending
  <2>4. walk \in [Walker -> Walk]
    BY <2>2 DEF Demo!Init
  <2> QED
    BY <2>1, <2>2, <2>3, <2>4 DEF WalksInv
<1>3. ImportsInv
  BY DEF Demo!Init, ImportsInv
<1>4. LabInv
  <2>1. Inside = {} /\ Querying = {}
    BY DEF Lab!Init, Inside, Querying
  <2> QED
    BY <2>1, FS_EmptySet, LabAssumption DEF Lab!Init, LabInv, LabPlaces, Lab!Kind
<1> QED
  BY <1>1, <1>2, <1>3, <1>4 DEF DemoInv

\* Both invariants hold throughout, whichever program runs.
LEMMA InvHolds == FairSpec => [](DemoInv /\ LabInv)
<1>1. Init => DemoInv /\ LabInv
  BY InitHolds
<1>2. DemoInv /\ LabInv /\ [Next]_vars => DemoInv' /\ LabInv'
  <2>1. [Next]_vars => /\ Demo!LeadsNext \/ Demo!ImportsNext \/ UNCHANGED demo
                       /\ Lab!Next \/ UNCHANGED lab
    BY DEF Next, vars
  <2> QED
    BY <2>1, DemoStep, LabStep
<1> QED
  BY <1>1, <1>2, PTL DEF FairSpec

-----------------------------------------------------------------------------
\* Tenants share ids, tables and jobs and see none of each other's; a tenant has
\* an address once, however it was typed; an import was started by an admin.
THEOREM TenantsHold == FairSpec => []TenantsApart
<1>1. DemoInv => TenantsApart
  BY DEF DemoInv, RowsInv, ImportsInv, TenantsApart, Demo!TenantsApart, Demo!IsAdmin
<1> QED
  BY <1>1, InvHolds, PTL

\* A walk through the pages gets every lead that was there when it began, once
\* and in order, whatever is created meanwhile.
THEOREM PagesHold == FairSpec => []PagesComplete
<1>1. ASSUME DemoInv PROVE PagesComplete
  <2>1. ASSUME NEW u \in Walker
        PROVE  Demo!Increasing(walk[u].got)
    <3>1. walk[u].got \in Seq(Nat) /\ Ascending(walk[u].got)
      BY <1>1 DEF DemoInv, WalksInv, Walk
    <3>2. Len(walk[u].got) \in Nat
      BY <3>1, LenProperties
    <3>3. ASSUME NEW i \in 2 .. Len(walk[u].got)
          PROVE  i \in 1 .. Len(walk[u].got) /\ i - 1 \in 1 .. Len(walk[u].got) /\ i - 1 < i
      BY <3>2
    <3> QED
      BY <3>1, <3>3 DEF Ascending, Demo!Increasing
  <2> QED
    BY <1>1, <2>1, DemoLists DEF DemoInv, WalksInv, PagesComplete, Demo!PagesComplete
<1> QED
  BY <1>1, InvHolds, PTL

\* The lab's gauges: in_flight counts the requests past the middleware, and the
\* pool's never exceeds its size.
THEOREM GaugesHold == FairSpec => []GaugesTrue
<1>1. ASSUME LabInv PROVE GaugesTrue
  <2>1. ASSUME NEW S PROVE Lab!Cardinality(S) = Cardinality(S)
    BY DEF Lab!Cardinality, Cardinality
  <2>2. in_flight = Lab!Cardinality(Inside)
    BY <1>1, <2>1 DEF LabInv
  <2> QED
    BY <1>1, <2>2, LabCounted DEF LabInv, GaugesTrue, Lab!GaugesTrue, Inside, Lab!Outside
<1> QED
  BY <1>1, InvHolds, PTL

\* The t-th of the seven reports there can be; the first is none yet.
Said(report, t) ==
  IF t = 0 THEN report = [status |-> "none", progress |-> 0]
  ELSE report = [status |-> Status(t - 1), progress |-> Progress(t - 1)]

\* A later report has no lower rank and no less progress, and "done" says 100.
LEMMA SaidRanks ==
  ASSUME NEW r, NEW s, NEW t \in 0 .. 6, NEW u \in 0 .. 6, Said(r, t), Said(s, u), t <= u
  PROVE  /\ Demo!Rank(s.status) >= Demo!Rank(r.status)
         /\ s.progress >= r.progress
         /\ s.status = "done" => s.progress = 100
<1> DEFINE rank(i) == IF i = 0 THEN 0 ELSE IF i = 1 THEN 1 ELSE IF i = 6 THEN 3 ELSE 2
           part(i) == IF i <= 1 THEN 0 ELSE 25 * (i - 2)
<1>1. ASSUME NEW q, NEW i \in 0 .. 6, Said(q, i)
      PROVE  /\ Demo!Rank(q.status) = rank(i) /\ q.progress = part(i)
             /\ q.status = "done" => i = 6
  BY <1>1, RanksAre DEF Said, Status, Progress
<1>2. /\ Demo!Rank(r.status) = rank(t) /\ r.progress = part(t)
      /\ Demo!Rank(s.status) = rank(u) /\ s.progress = part(u)
      /\ s.status = "done" => u = 6
  <2> HIDE DEF rank, part
  <2> QED BY <1>1
<1> QED
  BY <1>2

\* The status and the progress a client is told of an import never go back, and
\* "done" comes with 100 percent.
THEOREM ReportsHold == FairSpec => ReportsNeverGoBack
<1> DEFINE Forward ==
      \A j \in JobId :
        /\ Demo!Rank(reported'[j].status) >= Demo!Rank(reported[j].status)
        /\ reported'[j].progress >= reported[j].progress
        /\ reported'[j].status = "done" => reported'[j].progress = 100
<1>1. ASSUME DemoInv, [Next]_vars
      PROVE  [Forward]_(Demo!demoVars)
  <2>1. ASSUME NEW j \in JobId
        PROVE  \E t \in 0 .. 6, u \in 0 .. 6 :
                 Said(reported[j], t) /\ Said(reported'[j], u) /\ t <= u
    <3>1. PICK t \in 0 .. tasks[j] + 1 : Said(reported[j], t)
      <4>1. tasks[j] \in 0 .. 5
        BY <1>1 DEF DemoInv, ImportsInv
      <4>2. CASE reported[j] = [status |-> "none", progress |-> 0]
        BY <4>1, <4>2 DEF Said
      <4>3. CASE \E s \in 0 .. tasks[j] :
                   reported[j] = [status |-> Status(s), progress |-> Progress(s)]
        <5>1. PICK s \in 0 .. tasks[j] :
                 reported[j] = [status |-> Status(s), progress |-> Progress(s)]
          BY <4>3
        <5>2. s + 1 \in 0 .. tasks[j] + 1 /\ s + 1 # 0 /\ (s + 1) - 1 = s
          BY <4>1
        <5> QED
          BY <5>1, <5>2 DEF Said
      <4> QED
        BY <1>1, <4>2, <4>3 DEF DemoInv, ImportsInv
    <3>2. tasks[j] \in 0 .. 5 /\ t \in 0 .. 6
      BY <1>1, <3>1 DEF DemoInv, ImportsInv
    <3>3. CASE reported'[j] = reported[j]
      BY <3>1, <3>2, <3>3
    <3>4. CASE \E v \in User : Demo!ImportStatus(v, j)
      <4>1. /\ reported'[j] = [status |-> work[j].status, progress |-> work[j].progress]
            /\ work[j] # Demo!NoJob
        BY <1>1, <3>4 DEF Demo!ImportStatus, DemoInv, ImportsInv
      <4>2. reported'[j] = [status |-> Status(tasks[j]), progress |-> Progress(tasks[j])]
        BY <1>1, <4>1 DEF DemoInv, ImportsInv
      <4>3. tasks[j] + 1 \in 0 .. 6 /\ tasks[j] + 1 # 0 /\ (tasks[j] + 1) - 1 = tasks[j]
            /\ t <= tasks[j] + 1
        BY <3>1, <3>2
      <4>4. Said(reported'[j], tasks[j] + 1)
        BY <4>2, <4>3 DEF Said
      <4> QED
        BY <3>1, <3>2, <4>3, <4>4
    <3>5. reported'[j] = reported[j] \/ \E v \in User : Demo!ImportStatus(v, j)
      <4>1. CASE Demo!LeadsNext \/ UNCHANGED demo
        BY <4>1 DEF Demo!LeadsNext, Demo!Create, Demo!Get, Demo!List, Demo!StartWalk,
                    Demo!importVars, demo
      <4>2. CASE Demo!ImportsNext
        BY <1>1, <4>2 DEF Demo!ImportsNext, Demo!StartImport, Demo!ImportStatus,
                          Demo!FakeWorker, DemoInv, ImportsInv
      <4> QED
        BY <1>1, <4>1, <4>2 DEF Next, vars
    <3> QED
      BY <3>3, <3>4, <3>5
  <2> QED
    BY <2>1, SaidRanks
<1>2. DemoInv /\ [Next]_vars => [Forward]_(Demo!demoVars)
  BY <1>1
<1> QED
  BY <1>2, InvHolds, PTL DEF FairSpec, ReportsNeverGoBack, Demo!ReportsNeverGoBack
==============================================================================
