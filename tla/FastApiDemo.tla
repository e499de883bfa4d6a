----------------------------- MODULE FastApiDemo -----------------------------
(***************************************************************************)
(* fastapi_demo.py: leads of several tenants behind tokens, walked page by *)
(* page while others are created, and imports that a background task works *)
(* off.  No handler suspends between its reads and writes, so a request is *)
(* one step; uuid4 ids come in any order.                                  *)
(***************************************************************************)
EXTENDS Integers, FiniteSets, SequencesExt

CONSTANTS
  User, TenantOf, RoleOf,    \* who the tokens are for, and their claims
  Walker,                    \* bound: users that walk through the pages
  LeadId, Raw,               \* e-mails as typed: the address, and if it is in lower case
  Limit,                     \* page sizes asked for
  JobId

VARIABLES
  rows,     \* leads: id, tenant, email
  walk,     \* of each walker: cursor, page size, ids got so far, ids there at first
  work,     \* jobs: tenant, status, progress
  tasks,    \* how many steps the background task of a job has made
  strayed,  \* history: some user was shown a lead or an import of another tenant
  reported  \* history: last answer about each job

leadVars == <<rows, walk>>
importVars == <<work, tasks, reported>>
demoVars == <<leadVars, importVars, strayed>>

NoWalk == [on |-> FALSE, after |-> 0, limit |-> 1, got |-> <<>>, first |-> {}]
NoJob == [tenant |-> "none", status |-> "none", progress |-> 0]
Steps == 5   \* of fake_worker: running and 25, 50, 75, 100 and done

Init ==
  /\ rows = {}
  /\ walk = [u \in Walker |-> NoWalk]
  /\ work = [j \in JobId |-> NoJob] /\ tasks = [j \in JobId |-> 0]
  /\ strayed = FALSE
  /\ reported = [j \in JobId |-> [status |-> "none", progress |-> 0]]

\* A request without a valid token is answered 401 by get_current_user and
\* changes nothing; with one, the token's claims say who asks, never the body.
Tenant(u) == TenantOf[u]

\* require_role(Role.admin): 403 for the others
IsAdmin(u) == RoleOf[u] = "admin"

IdsOf(t) == {r.id : r \in {s \in rows : s.tenant = t}}
Show(u, tenants) == strayed' = (strayed \/ ~(tenants \subseteq {Tenant(u)}))

\* normalise_email: strip and lower-case (without an "@": 422, nothing changes)
Normalised(raw) == [raw EXCEPT !.lower = TRUE]

\* 409 if the tenant has the e-mail
Taken(t, email) == \E r \in rows : r.tenant = t /\ r.email = email

\* POST /leads
Create(u, raw, id) ==
  /\ id \notin {r.id : r \in rows}
  /\ ~Taken(Tenant(u), Normalised(raw))
  /\ rows' = rows \cup {[id |-> id, tenant |-> Tenant(u), email |-> Normalised(raw)]}
  /\ UNCHANGED <<walk, importVars, strayed>>

\* _rows.get((tenant_id, lead_id)): 404 also for another tenant's lead
FoundAnywhere(u, id) == \E r \in rows : r.id = id   \* mutant: looked up by id alone
Found(u, id) == id \in IdsOf(Tenant(u))

\* GET /leads/{id}, v1 and v2
Get(u, id) ==
  /\ Found(u, id)
  /\ Show(u, {r.tenant : r \in {s \in rows : s.id = id}})
  /\ UNCHANGED <<leadVars, importVars>>

StartWalk(u, n) ==
  /\ ~walk[u].on
  /\ walk' = [walk EXCEPT ![u] = [NoWalk EXCEPT !.on = TRUE, !.limit = n,
                                                !.first = IdsOf(Tenant(u))]]
  /\ UNCHANGED <<rows, importVars, strayed>>

BeyondOrAt(i, after) == i >= after   \* mutant: >= for >
Beyond(i, after) == i > after

\* sorted(...)
Increasing(s) == \A i \in 2 .. Len(s) : s[i - 1] < s[i]
ById(ids) == CHOOSE s \in [1 .. Cardinality(ids) -> ids] : Increasing(s)

\* list: WHERE id > :after ORDER BY id LIMIT :limit
PageFrom(u, after, n) ==
  LET ids == ById({i \in IdsOf(Tenant(u)) : Beyond(i, after)}) IN
  SubSeq(ids, 1, IF Len(ids) < n THEN Len(ids) ELSE n)

\* GET /leads?after=...&limit=...; a full page has a next_cursor, its last id.
List(u) ==
  LET w == walk[u]
      page == PageFrom(u, w.after, w.limit) IN
  /\ w.on
  /\ walk' = [walk EXCEPT ![u] =
       [w EXCEPT !.got = @ \o page,
                 !.on = Len(page) = w.limit,
                 !.after = IF Len(page) = w.limit THEN Last(page) ELSE @]]
  /\ Show(u, {r.tenant : r \in {s \in rows : s.id \in ToSet(page)}})
  /\ UNCHANGED <<rows, importVars>>

\* POST /imports puts the job and starts its task.
StartImport(u, j) ==
  /\ IsAdmin(u)
  /\ work[j] = NoJob
  /\ work' = [work EXCEPT ![j] = [tenant |-> Tenant(u), status |-> "queued", progress |-> 0]]
  /\ UNCHANGED <<leadVars, tasks, reported, strayed>>

\* fake_worker, from one sleep to the next
FakeWorkerEarly(j) ==   \* mutant: "done" before the last sleep
  /\ work[j] # NoJob /\ tasks[j] < Steps
  /\ tasks' = [tasks EXCEPT ![j] = @ + 1]
  /\ work' = [work EXCEPT ![j].progress = 25 * tasks[j],
                          ![j].status = IF tasks[j] >= Steps - 2 THEN "done" ELSE "running"]
  /\ UNCHANGED <<leadVars, reported, strayed>>
FakeWorker(j) ==
  /\ work[j] # NoJob /\ tasks[j] < Steps
  /\ tasks' = [tasks EXCEPT ![j] = @ + 1]
  /\ work' = [work EXCEPT ![j].progress = 25 * tasks[j],
                          ![j].status = IF tasks[j] = Steps - 1 THEN "done" ELSE "running"]
  /\ UNCHANGED <<leadVars, reported, strayed>>

\* GET /imports/{job_id}: 404 for another tenant's job
ImportStatus(u, j) ==
  /\ work[j] # NoJob /\ work[j].tenant = Tenant(u)
  /\ Show(u, {work[j].tenant})
  /\ reported' = [reported EXCEPT ![j] = [status |-> work[j].status, progress |-> work[j].progress]]
  /\ UNCHANGED <<leadVars, work, tasks>>

LeadsNext ==
  \/ \E u \in User :
       \/ \E raw \in Raw, id \in LeadId : Create(u, raw, id)
       \/ \E id \in LeadId : Get(u, id)
  \/ \E u \in Walker : List(u) \/ \E n \in Limit : StartWalk(u, n)

ImportsNext ==
  \/ \E u \in User, j \in JobId : StartImport(u, j) \/ ImportStatus(u, j)
  \/ \E j \in JobId : FakeWorker(j)

-----------------------------------------------------------------------------
\* A walk through the pages gets every lead that was there when it began, once
\* and in order, however many are created behind and before its cursor.
PagesComplete ==
  \A u \in Walker :
    /\ Increasing(walk[u].got)
    /\ \A i \in walk[u].first : i \in ToSet(walk[u].got) \/ (walk[u].on /\ i > walk[u].after)

\* Tenants share ids, tables and jobs and see none of each other's; within a
\* tenant an e-mail is there once, however it was typed; an import was started
\* by an admin of its tenant.
TenantsApart ==
  /\ ~strayed
  /\ \A r, s \in rows : r.tenant = s.tenant /\ r.email.address = s.email.address => r = s
  /\ \A j \in JobId : work[j] # NoJob =>
       \E u \in User : RoleOf[u] = "admin" /\ Tenant(u) = work[j].tenant

\* What polls say of an import never goes back, and done is said only with
\* everything imported.
Rank(status) == CHOOSE i \in 0 .. 3 : status = <<"none", "queued", "running", "done">>[i + 1]
ReportsNeverGoBack ==
  [][\A j \in JobId :
       /\ Rank(reported'[j].status) >= Rank(reported[j].status)
       /\ reported'[j].progress >= reported[j].progress
       /\ reported'[j].status = "done" => reported'[j].progress = 100]_demoVars
=============================================================================
