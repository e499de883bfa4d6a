------------------------------- MODULE WebApps -------------------------------
(***************************************************************************)
(* The two FastAPI programs and the user caches for TLC, side by side.     *)
(* The leads and the imports of the demo, the lab and the caches share no  *)
(* state, so a behaviour is one of the part chosen at first.               *)
(***************************************************************************)
EXTENDS Integers, FiniteSets

CONSTANTS
  User, TenantOf, RoleOf, Walker, LeadId, Raw, Limit, JobId,
  Request, DB_POOL_SIZE, THREADS, MEMORY,
  Caller, Program, MaxWrites, MaxCrashes,
  Part   \* bound: which of leads, imports, lab, cache

\* Of the uuid4 ids only the order is used; a page holds at least one lead
\* (Query(ge=1)).
ASSUME DemoAssumption ==
  /\ LeadId \subseteq Nat \ {0} /\ IsFiniteSet(LeadId) /\ Limit \subseteq Nat \ {0}
  /\ Walker \subseteq User
  /\ Raw \subseteq [address : {raw.address : raw \in Raw}, lower : BOOLEAN]
ASSUME LabAssumption == IsFiniteSet(Request) /\ DB_POOL_SIZE \in Nat
ASSUME CacheAssumption == MaxWrites \in Nat /\ MaxCrashes \in Nat

VARIABLES
  app,
  rows, walk, work, tasks, strayed, reported,
  at, kind, in_flight, pool_in_use, leaked,
  program, db, cache, call, writes, tainted, crashes

Demo == INSTANCE FastApiDemo
Lab == INSTANCE ScalingLab
Cache == INSTANCE UserCache

demo == <<rows, walk, work, tasks, strayed, reported>>
lab == <<at, kind, in_flight, pool_in_use, leaked>>
user == <<program, db, cache, call, writes, tainted, crashes>>
vars == <<app, demo, lab, user>>

\* Beside another part it does not matter which cache there is, nor its row.
Init ==
  /\ app \in Part
  /\ Demo!Init /\ Lab!Init /\ Cache!Init
  /\ app # "cache" => program = (CHOOSE p \in Program : TRUE) /\ db = Cache!None

Next ==
  \/ app = "leads" /\ Demo!LeadsNext /\ UNCHANGED <<app, lab, user>>
  \/ app = "imports" /\ Demo!ImportsNext /\ UNCHANGED <<app, lab, user>>
  \/ app = "lab" /\ Lab!Next /\ UNCHANGED <<app, demo, user>>
  \/ app = "cache" /\ Cache!Next /\ UNCHANGED <<app, demo, lab>>

\* The loop's queue of ready callbacks is first in, first out, and a blocking
\* handler ends.  Threads, queries and sleeps may hang.  A call on the cache
\* that does not die goes on, and Redis removes an expired key.
FairSpec ==
  /\ Init /\ [][Next]_vars
  /\ \A r \in Request :
       /\ SF_vars(app = "lab" /\ Lab!LoopStep(r) /\ UNCHANGED <<app, demo, user>>)
       /\ WF_vars(app = "lab" /\ Lab!Unblock(r) /\ UNCHANGED <<app, demo, user>>)
  /\ \A c \in Caller : WF_vars(app = "cache" /\ Cache!Step(c) /\ UNCHANGED <<app, demo, lab>>)
  /\ WF_vars(app = "cache" /\ Cache!Expire /\ UNCHANGED <<app, demo, lab>>)

PagesComplete == Demo!PagesComplete
TenantsApart == Demo!TenantsApart
ReportsNeverGoBack == Demo!ReportsNeverGoBack
GaugesTrue == Lab!GaugesTrue
HealthAnswered == Lab!HealthAnswered
StaleCopiesExplained == Cache!StaleCopiesExplained
SettlesFresh == Cache!SettlesFresh
=============================================================================
