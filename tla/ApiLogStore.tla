----------------------------- MODULE ApiLogStore -----------------------------
(***************************************************************************)
(* flutter/api-monitor: ApiLogStore and the interceptor and screens that   *)
(* call it.  The store keeps two Hive boxes, the records and an index of   *)
(* their ids; Hive (external) applies an operation to its memory at the    *)
(* call and suspends the caller for the disk, so the code between two      *)
(* awaits is one action and any other running method may come in between.  *)
(* Nobody awaits upsert or delete: their tails run on as tasks.            *)
(*                                                                         *)
(* Ids start with the time of the request, so Hive's key order, which is   *)
(* what keyAt(0) goes by, is the order of the requests.                    *)
(***************************************************************************)
EXTENDS Integers, FiniteSets, FiniteSetsExt

CONSTANTS
  MaxCalls,   \* bound: requests the host makes
  Caps,       \* the values retention.maxRecords is given
  MaxUpsets   \* bound: deletes, clears, new caps and deaths of the process

ASSUME CapsAssumption == Caps \subseteq Nat \ {0} /\ Caps # {}
ASSUME BoundsAssumption == MaxCalls \in Nat /\ MaxUpsets \in Nat

Call == 1 .. MaxCalls

VARIABLES
  phase,      \* of init(): down, purging, up
  box, index, \* the ids in the records box and in the index box
  cap,        \* _maxRecords
  tasks,      \* methods that are suspended at an await
  calls, open,\* requests made; those without a response yet
  timeline,   \* the screen, and whether the debounced stream still hears the
              \* store: "unopened", "live", "closed", "deaf"
  armed,      \* the debounce timer of changesDebounced runs
  fresh,      \* the timeline shows what is in the box now
  orphaned,   \* records a clear or a kill left without their index entry
  overdue,    \* the cap was lowered, or a kill hit, with no insertion since
  upsets

boxes == <<box, index>>
host == <<calls, open>>
view == <<timeline, armed, fresh>>
ghosts == <<orphaned, overdue>>
vars == <<phase, boxes, cap, tasks, host, view, ghosts, upsets>>

\* An upsert, by what called it: the request or the response of its id.
Upsert(id, by, at) == [op |-> "upsert", id |-> id, by |-> by, at |-> at, victim |-> 0]
Delete(id) == [op |-> "delete", id |-> id]
Clear == [op |-> "clear"]
Purge(ids) == [op |-> "purge", ids |-> ids]

Init ==
  /\ phase = "down"
  /\ box = {} /\ index = {}
  /\ cap \in Caps
  /\ tasks = {}
  /\ calls = 0 /\ open = {}
  /\ timeline = "unopened" /\ armed = FALSE /\ fresh = FALSE
  /\ orphaned = {} /\ overdue = FALSE
  /\ upsets = 0

-----------------------------------------------------------------------------
(* init() *)

\* Boxes open; _purgeExpired walks the index for ids before the cutoff ...
Start ==
  /\ phase = "down"
  /\ phase' = "purging"
  /\ \E cutoff \in 0 .. calls :
       LET old == {i \in index : i <= cutoff}
       IN /\ index' = index \ old
          /\ tasks' = {Purge(old)}
  /\ UNCHANGED <<box, cap, host, view, ghosts, upsets>>

\* ... and takes the same ids out of the records.
PurgeBox(t) ==
  /\ t.op = "purge"
  /\ box' = box \ t.ids
  /\ tasks' = tasks \ {t}
  /\ phase' = "up"
  /\ UNCHANGED <<index, cap, host, view, ghosts, upsets>>

-----------------------------------------------------------------------------
(* The interceptor *)

\* onRequest: a record without a response is put; upsert goes on as a task.
Request ==
  /\ phase = "up" /\ calls < MaxCalls
  /\ calls' = calls + 1
  /\ open' = open \cup {calls'}
  /\ box' = box \cup {calls'}
  /\ tasks' = tasks \cup {Upsert(calls', "request", "index")}
  /\ fresh' = FALSE
  /\ UNCHANGED <<phase, index, cap, timeline, armed, ghosts, upsets>>

\* onResponse and onError: _finalize completes the record if it is still there.
Respond(i) ==
  /\ phase = "up" /\ i \in open
  /\ open' = open \ {i}
  /\ IF i \in box
       THEN /\ box' = box \cup {i}
            /\ tasks' = tasks \cup {Upsert(i, "response", "index")}
            /\ fresh' = FALSE
       ELSE UNCHANGED <<box, tasks, fresh>>
  /\ UNCHANGED <<phase, index, cap, calls, timeline, armed, ghosts, upsets>>

-----------------------------------------------------------------------------
(* The tail of upsert *)

\* A task goes on to its next await, or ends with a change event, which starts
\* the debounce timer again if _debounce still listens.
Continue(t, next) == tasks' = (tasks \ {t}) \cup {next} /\ UNCHANGED view
EndTask(t) ==
  /\ tasks' = tasks \ {t}
  /\ armed' = (timeline = "live")
  /\ UNCHANGED <<timeline, fresh>>

IndexRecord(t) ==
  /\ t.op = "upsert" /\ t.at = "index"
  /\ IF t.id \in index
       THEN EndTask(t) /\ UNCHANGED <<index, orphaned>>
       ELSE /\ index' = index \cup {t.id}
            /\ orphaned' = orphaned \ {t.id}
            /\ Continue(t, [t EXCEPT !.at = "cap"])
  /\ UNCHANGED <<phase, box, cap, host, overdue, upsets>>

\* Mutants of the loop's head: >= for >; one record too many is let through;
\* the change event is left to upsert's own write.
EvictIndexIf(t, over, event) ==
  /\ t.op = "upsert" /\ t.at = "cap"
  /\ IF over
       THEN /\ index' = index \ {Min(index)}
            /\ Continue(t, [t EXCEPT !.at = "evict", !.victim = Min(index)])
            /\ UNCHANGED overdue
       ELSE /\ tasks' = tasks \ {t}
            /\ armed' = (armed \/ (event /\ timeline = "live"))
            /\ overdue' = FALSE
            /\ UNCHANGED <<index, timeline, fresh>>
  /\ UNCHANGED <<phase, box, cap, host, orphaned, upsets>>
EvictIndexEager(t) == EvictIndexIf(t, Cardinality(index) >= cap, TRUE)
EvictIndexLate(t) == EvictIndexIf(t, Cardinality(index) > cap + 1, TRUE)
EvictIndexSilent(t) == EvictIndexIf(t, Cardinality(index) > cap, FALSE)

\* _enforceCap: the oldest id leaves the index ...
EvictIndex(t) ==
  /\ t.op = "upsert" /\ t.at = "cap"
  /\ IF Cardinality(index) > cap
       THEN /\ index' = index \ {Min(index)}
            /\ Continue(t, [t EXCEPT !.at = "evict", !.victim = Min(index)])
            /\ UNCHANGED overdue
       ELSE /\ EndTask(t)
            /\ overdue' = FALSE
            /\ UNCHANGED index
  /\ UNCHANGED <<phase, box, cap, host, orphaned, upsets>>

\* Mutant: the record itself is not deleted.
EvictRecordKept(t) ==
  /\ t.op = "upsert" /\ t.at = "evict"
  /\ tasks' = (tasks \ {t}) \cup {[t EXCEPT !.at = "cap", !.victim = 0]}
  /\ UNCHANGED <<phase, boxes, cap, host, view, ghosts, upsets>>

\* ... and then the records.
EvictRecord(t) ==
  /\ t.op = "upsert" /\ t.at = "evict"
  /\ box' = box \ {t.victim}
  /\ tasks' = (tasks \ {t}) \cup {[t EXCEPT !.at = "cap", !.victim = 0]}
  /\ fresh' = FALSE
  /\ UNCHANGED <<phase, index, cap, host, timeline, armed, ghosts, upsets>>

-----------------------------------------------------------------------------
(* The screens *)

Upset == upsets < MaxUpsets /\ upsets' = upsets + 1
Shown == timeline \in {"live", "deaf"}

\* Swipe-to-delete on a record the timeline shows, which may be gone by now.
DeleteRecord(i) ==
  /\ Shown /\ i \in 1 .. calls /\ Delete(i) \notin tasks
  /\ Upset
  /\ box' = box \ {i}
  /\ tasks' = tasks \cup {Delete(i)}
  /\ fresh' = FALSE
  /\ UNCHANGED <<phase, index, cap, host, timeline, armed, ghosts>>

DeleteIndex(t) ==
  /\ t.op = "delete"
  /\ index' = index \ {t.id}
  /\ orphaned' = orphaned \cup ({t.id} \cap box)
  /\ EndTask(t)
  /\ UNCHANGED <<phase, box, cap, host, overdue, upsets>>

ClearRecords ==
  /\ phase = "up" /\ Clear \notin tasks
  /\ Upset
  /\ box' = {}
  /\ tasks' = tasks \cup {Clear}
  /\ fresh' = FALSE
  /\ UNCHANGED <<phase, index, cap, host, timeline, armed, ghosts>>

ClearIndex(t) ==
  /\ t.op = "clear"
  /\ index' = {}
  /\ orphaned' = orphaned \cup box
  /\ EndTask(t)
  /\ UNCHANGED <<phase, box, cap, host, overdue, upsets>>

\* A saved config reaches updateRetention, which evicts nothing itself.
UpdateRetention(c) ==
  /\ phase = "up" /\ c # cap
  /\ Upset
  /\ cap' = c
  /\ overdue' = (overdue \/ c < cap)
  /\ UNCHANGED <<phase, boxes, tasks, host, view, orphaned>>

\* 80 ms without a change event: the timeline is rebuilt.
Rebuild ==
  /\ armed
  /\ armed' = FALSE
  /\ fresh' = TRUE
  /\ UNCHANGED <<phase, boxes, cap, tasks, host, timeline, ghosts, upsets>>

\* The monitor's screen is built from the box.  The first one makes the one
\* debounced stream there is, whose _debounce listens to the store from then on.
OpenTimeline ==
  /\ phase = "up"
  /\ \/ timeline = "unopened" /\ timeline' = "live"
     \/ timeline = "closed" /\ timeline' = "deaf"
  /\ fresh' = TRUE
  /\ UNCHANGED <<phase, boxes, cap, tasks, host, armed, ghosts, upsets>>

\* Its last listener leaves: onCancel stops the timer and takes _debounce off the
\* store.  There is no onListen, so nothing ever puts it back.
CloseTimeline ==
  /\ Shown
  /\ timeline' = "closed"
  /\ armed' = FALSE /\ fresh' = FALSE
  /\ UNCHANGED <<phase, boxes, cap, tasks, host, ghosts, upsets>>

-----------------------------------------------------------------------------

\* The app dies: what ran is gone, the boxes are what they were (a write under
\* way is taken to have reached the disk).
Kill ==
  /\ phase # "down" /\ Upset
  /\ phase' = "down" /\ tasks' = {} /\ open' = {}
  /\ timeline' = "unopened" /\ armed' = FALSE /\ fresh' = FALSE
  /\ orphaned' = orphaned \cup (box \ index)
  /\ overdue' = TRUE
  /\ UNCHANGED <<boxes, cap, calls>>

Continuation ==
  \E t \in tasks :
    \/ PurgeBox(t) \/ IndexRecord(t) \/ EvictIndex(t) \/ EvictRecord(t)
    \/ DeleteIndex(t) \/ ClearIndex(t)

Next ==
  \/ Start
  \/ Request \/ \E i \in Call : Respond(i)
  \/ Continuation
  \/ \E i \in Call : DeleteRecord(i)
  \/ ClearRecords \/ \E c \in Caps : UpdateRetention(c)
  \/ Rebuild \/ OpenTimeline \/ CloseTimeline
  \/ Kill

Spec == Init /\ [][Next]_vars

(***************************************************************************)
(* A Future that completed resumes its method, a timer fires, and the app  *)
(* initialises the monitor when it starts.  Nobody has to look at it.      *)
(***************************************************************************)
Fairness == WF_vars(Start) /\ WF_vars(Continuation) /\ WF_vars(Rebuild)

FairSpec == Spec /\ Fairness

-----------------------------------------------------------------------------
(* Properties *)

\* Types; nothing but the purge runs until init() has returned.
TypeOK ==
  /\ phase \in {"down", "purging", "up"}
  /\ box \subseteq 1 .. calls
  /\ index \subseteq 1 .. calls /\ cap \in Caps
  /\ calls \in 0 .. MaxCalls /\ open \subseteq 1 .. calls
  /\ Shown \/ timeline = "closed" => phase = "up"
  /\ \A t \in tasks :
       /\ (t.op = "purge") <=> (phase = "purging")
       /\ t.op = "upsert" => t.id \in 1 .. calls /\ (t.victim # 0 <=> t.at = "evict")
  /\ phase = "purging" <=> tasks # {} /\ \A t \in tasks : t.op = "purge"
  /\ orphaned \subseteq 1 .. calls
  /\ upsets \in 0 .. MaxUpsets

AtRest == phase = "up" /\ tasks = {}

\* However the tails of concurrent upserts interleave, when they have all run
\* the boxes hold exactly the newest `cap' calls (lines 45-48 and 103-107).
KeepsNewest ==
  AtRest /\ upsets = 0 => box = {i \in 1 .. calls : i > calls - cap}

\* When nothing runs, the index is within the cap: only a lowered cap or a kill
\* between an insertion and its eviction leave it over, and only until the next
\* insertion, which evicts as many as it takes (lines 80-83 and 99-108).
IndexBounded == AtRest /\ ~overdue => Cardinality(index) <= cap

\* A record without an index entry is out of reach of both the cap and the purge.
\* Concurrent upserts and evictions never leave one (REVIEW.md:100-114 fears they
\* do): only the gap between the two boxes in clear or delete, or a kill, does.
OrphansExplained == AtRest => box \ index \subseteq orphaned

\* A timeline that stays open ends up showing what is stored: every change is
\* followed by an event, also those that an upsert's evictions make after its own
\* write.  One that is closed and opened again does not: the debounced stream is
\* made once and lets go of the store with its last listener (lines 38-41, 69-70).
ViewCatchesUp == <>[](timeline = "live") => <>[]fresh
=============================================================================
