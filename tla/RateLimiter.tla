----------------------------- MODULE RateLimiter -----------------------------
(***************************************************************************)
(* round2/rate_limiter.py and the limiter of fastapi_cache_ratelimit.py:   *)
(* five ways to let a user in at most LIMIT times per WINDOW.  The first   *)
(* is called from a plain def, which FastAPI runs in a pool of threads,    *)
(* which can take turns between any two operations on the deque; the       *)
(* others are called from many servers.                                    *)
(*                                                                         *)
(* Time is discrete and relative: what is stored is the age of a time, in  *)
(* ticks.  A call carries the age of the clock reading it began with, and  *)
(* ends before that is two ticks old.                                      *)
(***************************************************************************)
EXTENDS Integers, FiniteSets, SequencesExt

CONSTANTS
  User, Thread,
  LIMIT, WINDOW,
  Asks,       \* bound: which limiters (memory, tuples, lua, fixed, counter) who asks
  MaxCrashes  \* bound: deaths of the process, or Redis errors, within a call

ASSUME LimitAssumption == LIMIT \in Nat \ {0} /\ WINDOW \in Nat \ {0}
ASSUME PoolAssumption == IsFiniteSet(Thread) /\ Thread # {}
ASSUME AsksAssumption ==
  /\ User # {}
  /\ Asks \subseteq {"memory", "tuples", "lua", "fixed", "counter"} \X User

VARIABLES
  limiter,    \* the one in use
  call,       \* what each thread is at: statement, user, age of its now
  hits,       \* ages of a user's entries: the deque, the tuples, the sorted set
  count,      \* the counter of a user's (current or last) bucket or key
  ttl,        \* ticks a key has left; NoTtl if it never expires or is not there
  phase,      \* the time modulo two buckets
  granted,    \* history: how many requests of each age were let through
  forgotten,  \* history: of those, how many a popleft meant for another entry took
  promise,    \* history: ticks until the first Retry-After is over, then Expired
  short,      \* history: it was a rounded TTL, or the deque was over LIMIT then
  crashes

redis == <<count, ttl>>
answers == <<granted, promise, short>>
vars == <<limiter, call, hits, redis, phase, answers, forgotten, crashes>>

Oldest == WINDOW + 1   \* ages beyond are not told apart
NoTtl == -1
Expired == -1
NoPromise == -2
Idle == [at |-> "idle", user |-> CHOOSE u \in User : TRUE, age |-> 0]

TypeOK ==
  /\ limiter \in {a[1] : a \in Asks}
  /\ call \in [Thread -> [at : {"idle", "allow", "head", "pop", "count", "append",
                                 "retry", "first", "expire", "ttl"},
                          user : User, age : 0 .. 1]]
  /\ \A u \in User : Len(hits[u]) < LIMIT + Cardinality(Thread)
                     /\ \A i \in 1 .. Len(hits[u]) : hits[u][i] \in 0 .. Oldest
  /\ count \in [User -> [0 .. 1 -> 0 .. LIMIT + 1]]
  /\ ttl \in [User -> {NoTtl} \cup 1 .. WINDOW]
  /\ phase \in 0 .. 2 * WINDOW - 1
  /\ promise \in [User -> NoPromise .. WINDOW + 1]

Init ==
  /\ limiter \in {a[1] : a \in Asks}
  /\ call = [t \in Thread |-> Idle]
  /\ hits = [u \in User |-> <<>>]
  /\ count = [u \in User |-> [b \in 0 .. 1 |-> 0]]
  /\ ttl = [u \in User |-> NoTtl]
  /\ phase = 0
  /\ granted = [u \in User |-> [a \in 0 .. Oldest |-> 0]]
  /\ forgotten = [u \in User |-> [a \in 0 .. Oldest |-> 0]]
  /\ promise = [u \in User |-> NoPromise]
  /\ short = [u \in User |-> FALSE]
  /\ crashes = 0

-----------------------------------------------------------------------------
(* Each step belongs to a thread whose call is at a statement. *)

At(t, l, s) == limiter = l /\ call[t].at = s
Goto(t, s) == call' = [call EXCEPT ![t].at = s]
Return(t) == call' = [call EXCEPT ![t] = Idle]

\* An entry counts in the window that ends with the call's now.
InWindowEager(t, age) == age - call[t].age < WINDOW - 1  \* mutant: dropped a tick early
InWindowAtEdge(t, age) == age - call[t].age <= WINDOW    \* mutant: < for <= in line 40
InWindow(t, age) == age - call[t].age < WINDOW

Full(n) == n >= LIMIT

Grant(u, age) ==
  /\ granted' = [granted EXCEPT ![u][age] = @ + 1]
  /\ promise' = [promise EXCEPT ![u] = NoPromise]
  /\ short' = [short EXCEPT ![u] = FALSE]
Deny == UNCHANGED answers

\* A Retry-After: the earliest one stands until somebody is let through, and one
\* that can be short stands for no other.
Promise(u, left, doubt) ==
  LET new == promise[u] = NoPromise \/ short[u] \/ (~doubt /\ left < promise[u])
  IN /\ promise' = [promise EXCEPT ![u] = IF new THEN left ELSE @]
     /\ short' = [short EXCEPT ![u] = IF new THEN doubt ELSE @]
     /\ UNCHANGED granted

\* A request enters the limiter, which reads the clock.
Ask(t, u) ==
  /\ call[t].at = "idle" /\ <<limiter, u>> \in Asks
  /\ call' = [call EXCEPT ![t] = [at |-> "allow", user |-> u, age |-> 0]]
  /\ UNCHANGED <<limiter, hits, redis, phase, answers, forgotten, crashes>>

(* 1. InMemoryRateLimiter.allow *)

\* while q
Look(t) ==
  /\ At(t, "memory", "allow")
  /\ Goto(t, IF hits[call[t].user] = <<>> THEN "count" ELSE "head")
  /\ UNCHANGED <<limiter, hits, redis, phase, answers, forgotten, crashes>>

\* ... and q[0] <= now - self.window, an IndexError if it is empty by now
Test(t) ==
  LET q == hits[call[t].user] IN
  /\ At(t, "memory", "head")
  /\ \/ q = <<>> /\ Return(t)
     \/ q # <<>> /\ Goto(t, IF InWindow(t, Head(q)) THEN "count" ELSE "pop")
  /\ UNCHANGED <<limiter, hits, redis, phase, answers, forgotten, crashes>>

\* q.popleft() takes what is the first now, whichever entry was tested.
Drop(t) ==
  LET u == call[t].user IN
  /\ At(t, "memory", "pop")
  /\ \/ hits[u] = <<>> /\ Return(t) /\ UNCHANGED <<hits, forgotten>>
     \/ /\ hits[u] # <<>>
        /\ hits' = [hits EXCEPT ![u] = Tail(@)]
        /\ forgotten' = IF InWindow(t, Head(hits[u]))
                          THEN [forgotten EXCEPT ![u][Head(hits[u])] = @ + 1]
                          ELSE forgotten
        /\ Goto(t, "allow")
  /\ UNCHANGED <<limiter, redis, phase, answers, crashes>>

\* if len(q) >= self.limit, and a denied call is done with its now
Count(t) ==
  LET u == call[t].user IN
  /\ At(t, "memory", "count")
  /\ \/ /\ Full(Len(hits[u])) /\ Deny
        /\ call' = [call EXCEPT ![t].at = "retry", ![t].age = 0]
     \/ ~Full(Len(hits[u])) /\ Goto(t, "append") /\ UNCHANGED answers
  /\ UNCHANGED <<limiter, hits, redis, phase, forgotten, crashes>>

\* q.append(now)
Record(t) ==
  LET u == call[t].user IN
  /\ At(t, "memory", "append")
  /\ hits' = [hits EXCEPT ![u] = Append(@, call[t].age)]
  /\ Grant(u, call[t].age)
  /\ Return(t)
  /\ UNCHANGED <<limiter, redis, phase, forgotten, crashes>>

\* What an entry of this age has left in the window.
WaitElapsed(age) == age  \* mutant: the age itself
Wait(age) == IF age < WINDOW THEN WINDOW - age ELSE 0

\* retry_after: nothing to wait for if the deque has room again; the header is
\* int(retry_after) + 1.
RetryAfter(t) ==
  LET u == call[t].user IN
  /\ At(t, "memory", "retry")
  /\ \/ ~Full(Len(hits[u])) /\ Promise(u, 1, FALSE) /\ Return(t)
     \/ Full(Len(hits[u])) /\ Goto(t, "first") /\ UNCHANGED answers
  /\ UNCHANGED <<limiter, hits, redis, phase, forgotten, crashes>>

\* q[0], another IndexError if all are gone by now.  The clock is read after it,
\* which can only put off the end of the wait.
First(t) ==
  LET u == call[t].user IN
  /\ At(t, "memory", "first")
  /\ \/ hits[u] = <<>> /\ UNCHANGED answers
     \/ hits[u] # <<>> /\ Promise(u, Wait(Head(hits[u])) + 1, Len(hits[u]) > LIMIT)
  /\ Return(t)
  /\ UNCHANGED <<limiter, hits, redis, phase, forgotten, crashes>>

(* allow_with_tuples, and the Lua script of RedisSlidingWindow: one step *)

\* What of a list of ages the call still counts, in its order.
Kept(t, ages) ==
  LET kept[i \in 0 .. Len(ages)] ==
        IF i = 0 THEN <<>>
        ELSE IF InWindow(t, ages[i]) THEN Append(kept[i - 1], ages[i])
        ELSE kept[i - 1]
  IN  kept[Len(ages)]

\* The list comprehension drops everybody's old entries, the count is the user's.
Tuples(t) ==
  LET u == call[t].user
      log == [v \in User |-> Kept(t, hits[v])] IN
  /\ At(t, "tuples", "allow")
  /\ \/ Full(Len(log[u])) /\ hits' = log /\ Deny
     \/ ~Full(Len(log[u])) /\ hits' = [log EXCEPT ![u] = Append(@, call[t].age)]
        /\ Grant(u, call[t].age)
  /\ Return(t)
  /\ UNCHANGED <<limiter, redis, phase, forgotten, crashes>>

\* ZREMRANGEBYSCORE, ZCARD, ZADD, EXPIRE.
Script(t) ==
  LET u == call[t].user
      set == Kept(t, hits[u]) IN
  /\ At(t, "lua", "allow")
  /\ \/ /\ Full(Len(set))
        /\ hits' = [hits EXCEPT ![u] = set]
        /\ ttl' = [ttl EXCEPT ![u] = IF set = <<>> THEN NoTtl ELSE @]
        /\ Deny
     \/ /\ ~Full(Len(set))
        /\ hits' = [hits EXCEPT ![u] = Append(set, call[t].age)]
        /\ ttl' = [ttl EXCEPT ![u] = WINDOW]
        /\ Grant(u, call[t].age)
  /\ Return(t)
  /\ UNCHANGED <<limiter, count, phase, forgotten, crashes>>

(* 3. RedisFixedWindow.allow *)

\* now // window, modulo two: a bucket whose turn comes again is a new key.
Bucket(t) == ((phase + 2 * WINDOW - call[t].age) % (2 * WINDOW)) \div WINDOW

\* Beyond LIMIT + 1 the values of a counter are not told apart.
Incremented(n) == IF n > LIMIT THEN n ELSE n + 1

\* INCR and EXPIRE in one transaction; the bucket is over before its key expires.
Pipeline(t) ==
  LET u == call[t].user
      n == Incremented(count[u][Bucket(t)]) IN
  /\ At(t, "fixed", "allow")
  /\ count' = [count EXCEPT ![u][Bucket(t)] = n]
  /\ IF n <= LIMIT THEN Grant(u, call[t].age) ELSE Deny
  /\ Return(t)
  /\ UNCHANGED <<limiter, hits, ttl, phase, forgotten, crashes>>

(* rate_limit(...) of fastapi_cache_ratelimit.py: a command at a time *)

OpensAlways(n) == n >= 1   \* mutant: without "if count == 1"
Opens(n) == n = 1

Incr(t) ==
  LET u == call[t].user
      n == Incremented(count[u][0]) IN
  /\ At(t, "counter", "allow")
  /\ count' = [count EXCEPT ![u][0] = n]
  /\ IF n <= LIMIT THEN Grant(u, 0) ELSE Deny
  /\ \/ Opens(n) /\ Goto(t, "expire")
     \/ ~Opens(n) /\ n > LIMIT /\ Goto(t, "ttl")
     \/ ~Opens(n) /\ n <= LIMIT /\ Return(t)
  /\ UNCHANGED <<limiter, hits, ttl, phase, forgotten, crashes>>

Expire(t) ==
  /\ At(t, "counter", "expire")
  /\ ttl' = [ttl EXCEPT ![call[t].user] = WINDOW]
  /\ Return(t)
  /\ UNCHANGED <<limiter, hits, count, phase, answers, forgotten, crashes>>

\* TTL is the header, rounded to the nearest second: what is left of the last one
\* may not count.  It is negative if the key is gone or (nothing promised) has none.
Ttl(t) ==
  LET u == call[t].user IN
  /\ At(t, "counter", "ttl")
  /\ \/ count[u][0] = 0 /\ Promise(u, 0, FALSE)
     \/ /\ count[u][0] > 0 /\ ttl[u] # NoTtl
        /\ \E left \in {ttl[u], ttl[u] - 1} : Promise(u, left, left < ttl[u])
     \/ count[u][0] > 0 /\ ttl[u] = NoTtl /\ UNCHANGED answers
  /\ Return(t)
  /\ UNCHANGED <<limiter, hits, redis, phase, forgotten, crashes>>

\* The process dies or Redis fails within a call.
Crash(t) ==
  /\ limiter = "counter" /\ call[t].at # "idle"
  /\ crashes < MaxCrashes
  /\ crashes' = crashes + 1
  /\ Return(t)
  /\ UNCHANGED <<limiter, hits, redis, phase, answers, forgotten>>

-----------------------------------------------------------------------------
\* Between reading the clock and using it.
Dated(t) == limiter # "counter" /\ call[t].at \in {"allow", "head", "pop", "count", "append"}

Older(log) == [u \in User |-> [a \in 0 .. Oldest |-> IF a = 0 THEN 0 ELSE log[u][a - 1]]]

Expiring(u) == ttl[u] = 1

Tick ==
  /\ \A t \in Thread : Dated(t) => call[t].age = 0
  /\ call' = [t \in Thread |-> IF Dated(t) THEN [call[t] EXCEPT !.age = 1] ELSE call[t]]
  /\ hits' = [u \in User |-> IF Expiring(u) THEN <<>>
                ELSE [i \in DOMAIN hits[u] |-> IF hits[u][i] = Oldest THEN Oldest ELSE hits[u][i] + 1]]
  /\ ttl' = [u \in User |-> IF ttl[u] \in {NoTtl, 1} THEN NoTtl ELSE ttl[u] - 1]
  /\ phase' = IF limiter = "fixed" THEN (phase + 1) % (2 * WINDOW) ELSE 0
  /\ count' = [u \in User |-> [b \in 0 .. 1 |->
                IF Expiring(u) \/ (limiter = "fixed" /\ phase' = b * WINDOW) THEN 0 ELSE count[u][b]]]
  /\ granted' = Older(granted) /\ forgotten' = Older(forgotten)
  /\ promise' = [u \in User |-> IF promise[u] >= 0 THEN promise[u] - 1 ELSE promise[u]]
  /\ UNCHANGED <<limiter, short, crashes>>

Step(t) ==
  \/ Look(t) \/ Test(t) \/ Drop(t) \/ Count(t) \/ Record(t) \/ RetryAfter(t) \/ First(t)
  \/ Tuples(t) \/ Script(t) \/ Pipeline(t)
  \/ Incr(t) \/ Expire(t) \/ Ttl(t)

Next ==
  \/ \E t \in Thread : Step(t) \/ Crash(t) \/ \E u \in User : Ask(t, u)
  \/ Tick

Spec == Init /\ [][Next]_vars

\* Threads run, time passes, and every user keeps asking.
FairSpec ==
  /\ Spec
  /\ WF_vars(Tick)
  /\ \A t \in Thread : WF_vars(Step(t))
  /\ \A u \in User : SF_vars(\E t \in Thread : Ask(t, u))

-----------------------------------------------------------------------------
Recent(u, ages) == SumFunctionOnSet(granted[u], ages)

\* A limiter lets a user in at most LIMIT times in any WINDOW ticks.  The threads
\* that share the deque can each add one beyond it, and another one for each entry
\* they forget: one that still counts, taken out by a popleft that was meant for an
\* expired one which another thread had dropped first.  The buckets of the counters
\* can put two quotas next to each other.
Quota(u) ==
  CASE limiter = "memory" ->
         LIMIT + Cardinality(Thread) - 1 + SumFunctionOnSet(forgotten[u], 0 .. WINDOW - 1)
    [] limiter = "fixed" -> 2 * LIMIT
    [] limiter = "counter" -> 2 * LIMIT - 1
    [] OTHER -> LIMIT
QuotaKept == \A u \in User : Recent(u, 0 .. WINDOW - 1) <= Quota(u)

\* A call comes to its end, or to the header, without letting the request through.
Denied(t) ==
  /\ call[t].at \in {"allow", "count"} /\ call'[t].at \in {"idle", "retry", "ttl"}
  /\ UNCHANGED <<granted, crashes>>

\* Nobody is denied for what others did, for old requests or for requests that
\* were themselves denied: a denial means that LIMIT of the user's requests
\* were let through lately.  (The INCR counter, which counts the denied, is not
\* in it.)  A call whose now is a tick old denies by what was
\* recent then, and an entry behind a younger one stays in the deque for a tick.
Lately == WINDOW - 1 + (IF limiter = "memory" THEN 2 ELSE IF limiter = "fixed" THEN 2 ELSE 1)
DenialsEarned ==
  [][limiter # "counter" =>
       \A t \in Thread : Denied(t) => Recent(call[t].user, 0 .. Lately) >= LIMIT]_vars

\* A request that comes when a Retry-After is over is not refused, unless another
\* one of that user was let through since, or the header was short: Redis rounds a
\* TTL with less than half a second left down, and what retry_after says of the
\* first entry does not do for a deque that threads have filled beyond LIMIT.
Waited(t, u) == promise[u] # NoPromise /\ promise[u] + call[t].age <= 0
RetryAfterHonoured ==
  [][\A t \in Thread, u \in User :
       call[t].user = u /\ Waited(t, u) /\ Denied(t) => short[u]]_vars

\* A user who keeps asking is let in again and again, except behind a counter
\* whose EXPIRE never came: that one counts for good.
Orphaned(u) ==
  /\ limiter = "counter" /\ count[u][0] > 0 /\ ttl[u] = NoTtl
  /\ \A t \in Thread : ~(call[t].at = "expire" /\ call[t].user = u)
EventuallyAllowed ==
  \A u \in User : <<limiter, u>> \in Asks => []<>(Recent(u, 0 .. 1) > 0 \/ Orphaned(u))
=============================================================================
