------------------------------ MODULE UserCache ------------------------------
(***************************************************************************)
(* One user behind the three caches of round2: redis_cache.py (class),     *)
(* redis_cache_simple.py (simple), fastapi_cache_ratelimit.py (fastapi).   *)
(* A row is its version; 0 stands for no row, also as a cached value       *)
(* (json null).  Between two steps of a call others run: threads in the    *)
(* first two programs, coroutines in the third.                            *)
(*                                                                         *)
(* In class and simple the row is a dict updated in place, so what a miss  *)
(* stores is the row as it is at json.dumps, one step with reading it; in  *)
(* fastapi nothing awaits between the two.                                 *)
(***************************************************************************)
EXTENDS Integers

CONSTANTS
  Caller,
  Program,     \* of class, simple, fastapi
  MaxWrites,   \* bound: writes to the table
  MaxCrashes   \* bound: calls that die between two steps

VARIABLES
  program,
  db,       \* the version in the table
  cache,    \* what Redis has under user:{id}
  call,     \* of each caller: where it is, the version it will SET
  writes,   \* versions given so far
  tainted,  \* history: the cached copy was overtaken, or who should replace it died
  crashes

vars == <<program, db, cache, call, writes, tainted, crashes>>

None == 0
Miss == [ver |-> -1, expires |-> FALSE]
Idle == [at |-> "idle", ver |-> None, late |-> FALSE]

TypeOK ==
  /\ program \in Program
  /\ db \in 0 .. MaxWrites + 1
  /\ cache \in {Miss} \cup [ver : (IF program = "class" THEN 0 ELSE 1) .. MaxWrites + 1, expires : {TRUE}]
  /\ call \in [Caller -> [at : {"idle", "load", "set", "del", "put"}, ver : 0 .. MaxWrites + 1,
                          late : BOOLEAN]]
  /\ tainted \in BOOLEAN

Init ==
  /\ program \in Program
  /\ db \in {None, 1}
  /\ cache = Miss
  /\ call = [c \in Caller |-> Idle]
  /\ writes = 1
  /\ tainted = FALSE
  /\ crashes = 0

-----------------------------------------------------------------------------
At(c, s) == call[c].at = s
Goto(c, s, v) == call' = [call EXCEPT ![c] = [at |-> s, ver |-> v, late |-> FALSE]]
Return(c) == call' = [call EXCEPT ![c] = Idle]

\* SET key value EX ttl
WithoutTtl(v) == [ver |-> v, expires |-> FALSE]   \* mutant: ex= forgotten
WithTtl(v) == [ver |-> v, expires |-> TRUE]

\* GET key: a hit is answered without a trace, a miss goes to the table.
Lookup(c) ==
  /\ At(c, "idle") /\ cache = Miss
  /\ Goto(c, "load", None)
  /\ UNCHANGED <<program, db, cache, writes, tainted, crashes>>

\* A row is stored; no row is stored as null, or not at all.
LoadClass(c) == program = "class" /\ Goto(c, "set", db)
LoadSimple(c) ==
  /\ program = "simple"
  /\ IF db = None THEN Return(c) ELSE Goto(c, "set", db)
LoadFastApi(c) ==
  /\ program = "fastapi"
  /\ IF db = None THEN Return(c) ELSE Goto(c, "set", db)
Load(c) ==
  /\ At(c, "load")
  /\ LoadClass(c) \/ LoadSimple(c) \/ LoadFastApi(c)
  /\ UNCHANGED <<program, db, cache, writes, tainted, crashes>>

\* SET, of a reader or of PUT.
Set(c) ==
  /\ call[c].at \in {"set", "put"}
  /\ cache' = WithTtl(call[c].ver)
  /\ tainted' = call[c].late
  /\ Return(c)
  /\ UNCHANGED <<program, db, writes, crashes>>

\* The table gets version v; whoever has yet to SET an older one is overtaken.
Write(c, v, next) ==
  /\ At(c, "idle") /\ writes <= MaxWrites
  /\ writes' = writes + 1
  /\ db' = v
  /\ call' = [d \in Caller |->
       IF d = c THEN [at |-> next, ver |-> v, late |-> FALSE]
       ELSE [call[d] EXCEPT !.late = call[d].at \in {"set", "put"}]]
  /\ UNCHANGED <<program, cache, tainted, crashes>>

UpdateAge(c) == program \in {"class", "simple"} /\ db # None /\ Write(c, writes + 1, "del")
ReplaceUser(c) == program = "fastapi" /\ Write(c, writes + 1, "put")
DeleteUser(c) == program = "fastapi" /\ Write(c, None, "del")

\* DEL key
DelLost(c) ==   \* mutant: the key of the DEL is not the key of the SET
  /\ At(c, "del")
  /\ Return(c)
  /\ UNCHANGED <<program, db, cache, writes, tainted, crashes>>
Del(c) ==
  /\ At(c, "del")
  /\ cache' = Miss
  /\ tainted' = FALSE
  /\ Return(c)
  /\ UNCHANGED <<program, db, writes, crashes>>

Expire ==
  /\ cache.expires
  /\ cache' = Miss
  /\ tainted' = FALSE
  /\ UNCHANGED <<program, db, call, writes, crashes>>

\* The process dies, or Redis fails, within a call.
Crash(c) ==
  /\ ~At(c, "idle") /\ crashes < MaxCrashes
  /\ crashes' = crashes + 1
  /\ tainted' = (tainted \/ (call[c].at \in {"del", "put"} /\ cache # Miss))
  /\ Return(c)
  /\ UNCHANGED <<program, db, cache, writes>>

Step(c) == Load(c) \/ Set(c) \/ Del(c)

Next ==
  \/ \E c \in Caller : Lookup(c) \/ Step(c) \/ Crash(c)
                       \/ UpdateAge(c) \/ ReplaceUser(c) \/ DeleteUser(c)
  \/ Expire

Spec == Init /\ [][Next]_vars

-----------------------------------------------------------------------------
\* A cached copy differs from the table only while the write that will drop or
\* replace it is under way, or because a write overtook the call that stored
\* it between its read and its SET, or the writer died in between.  Calls that
\* do not overlap never see anything but the table.
Fresh == cache = Miss \/ cache.ver = db
StaleCopiesExplained ==
  Fresh \/ tainted \/ \E c \in Caller : call[c].at \in {"del", "put"}

\* Whatever overlapped or died, the cache comes back to the table: the copy
\* expires, and once the writes stop it stays with the table.
SettlesFresh == <>[]Fresh
=============================================================================
