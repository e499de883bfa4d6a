---------------------------- MODULE CommandQueue -----------------------------
(***************************************************************************)
(* design_patterns.py, 11: CommandQueue.  A command is its idempotency     *)
(* key.  work() suspends only in handle(cmd), so what it does up to the    *)
(* next handle is one step; several work() loops may run, and one that     *)
(* ended may be called again.                                              *)
(***************************************************************************)
EXTENDS Integers, FiniteSets, SequencesExt

CONSTANTS
  Worker, Key,
  MaxCommands   \* bound: commands enqueued

VARIABLES
  items, done,
  handling,  \* of each worker: the key whose handle is awaited
  enqueued,  \* how many commands had each key
  handled,   \* history: times each key was handled
  overlaps,  \* history: times a key was taken while another loop was handling it
  raised     \* history: keys a handler raised for

vars == <<items, done, handling, enqueued, handled, overlaps, raised>>

Nobody == "none"
Holders(k) == {w \in Worker : handling[w] = k}

Init ==
  /\ items = <<>> /\ done = {}
  /\ handling = [w \in Worker |-> Nobody]
  /\ enqueued = [k \in Key |-> 0]
  /\ handled = [k \in Key |-> 0] /\ overlaps = [k \in Key |-> 0]
  /\ raised = {}

Enqueue(k) ==
  /\ SumFunction(enqueued) < MaxCommands
  /\ enqueued' = [enqueued EXCEPT ![k] = @ + 1]
  /\ items' = Append(items, k)
  /\ UNCHANGED <<done, handling, handled, overlaps, raised>>

\* A command whose key is done is skipped.
Pop(w) ==
  LET k == Head(items) IN
  /\ handling[w] = Nobody /\ items # <<>>
  /\ items' = Tail(items)
  /\ \/ k \in done /\ UNCHANGED <<handling, overlaps>>
     \/ /\ k \notin done
        /\ handling' = [handling EXCEPT ![w] = k]
        /\ overlaps' = [overlaps EXCEPT ![k] = @ + Cardinality(Holders(k))]
  /\ UNCHANGED <<done, enqueued, handled, raised>>

HandledUnmarked(w) ==   \* mutant: done.add forgotten
  /\ handling[w] # Nobody
  /\ handled' = [handled EXCEPT ![handling[w]] = @ + 1]
  /\ handling' = [handling EXCEPT ![w] = Nobody]
  /\ UNCHANGED <<items, done, enqueued, overlaps, raised>>
Handled(w) ==
  /\ handling[w] # Nobody
  /\ handled' = [handled EXCEPT ![handling[w]] = @ + 1]
  /\ done' = done \cup {handling[w]}
  /\ handling' = [handling EXCEPT ![w] = Nobody]
  /\ UNCHANGED <<items, enqueued, overlaps, raised>>

\* handle raises: the loop ends, and the command is neither queued nor done.
Raise(w) ==
  /\ handling[w] # Nobody
  /\ raised' = raised \cup {handling[w]}
  /\ handling' = [handling EXCEPT ![w] = Nobody]
  /\ UNCHANGED <<items, done, enqueued, handled, overlaps>>

Next ==
  \/ \E k \in Key : Enqueue(k)
  \/ \E w \in Worker : Pop(w) \/ Handled(w) \/ Raise(w)

-----------------------------------------------------------------------------
\* A key is handled twice only if two loops had it in hand at once, however
\* often it is enqueued, and is dropped unhandled only if a handler raised.
CommandsAccountedFor ==
  \A k \in Key :
    /\ handled[k] + Cardinality(Holders(k)) <= 1 + overlaps[k]
    /\ enqueued[k] > 0 => k \in ToSet(items) \cup done \cup raised \/ Holders(k) # {}
=============================================================================
