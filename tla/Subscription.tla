---------------------------- MODULE Subscription -----------------------------
(***************************************************************************)
(* design_patterns.py, 9: Subscription.transition, fed by a provider whose *)
(* events come late, twice and out of order.                               *)
(***************************************************************************)

VARIABLES
  status,
  provider,  \* the status at the provider
  emitted,   \* events the provider has sent
  seen       \* those that arrived at least once

vars == <<status, provider, emitted, seen>>

SubStatus == {"CREATED", "ACTIVE", "HALTED", "CANCELLED"}

AllowedForgotten ==   \* mutant: a halted subscription cannot be cancelled
  [s \in SubStatus |-> CASE s = "CREATED" -> {"ACTIVE", "CANCELLED"}
                         [] s = "ACTIVE" -> {"HALTED", "CANCELLED"}
                         [] s = "HALTED" -> {"ACTIVE"}
                         [] OTHER -> {}]
ALLOWED ==
  [s \in SubStatus |-> CASE s = "CREATED" -> {"ACTIVE", "CANCELLED"}
                         [] s = "ACTIVE" -> {"HALTED", "CANCELLED"}
                         [] s = "HALTED" -> {"ACTIVE", "CANCELLED"}
                         [] OTHER -> {}]

Init == status = "CREATED" /\ provider = "CREATED" /\ emitted = {} /\ seen = {}

\* The provider's own life; it ends with a cancellation.
Emit(e) ==
  /\ provider # "CANCELLED" /\ e \notin {provider, "CREATED"}
  /\ provider = "CREATED" => e # "HALTED"
  /\ provider' = e
  /\ emitted' = emitted \cup {e}
  /\ UNCHANGED <<status, seen>>

\* A duplicate, and what is not allowed from here, is ignored.
Transition(e) ==
  /\ e \in emitted
  /\ seen' = seen \cup {e}
  /\ status' = IF e \in ALLOWED[status] THEN e ELSE status
  /\ UNCHANGED <<provider, emitted>>

Next == \E e \in SubStatus : Emit(e) \/ Transition(e)

-----------------------------------------------------------------------------
\* In whatever order and how often events come, a cancellation that arrived is
\* final, and a subscription is active or halted only if it was activated.
CancellationIsFinal ==
  /\ "CANCELLED" \in seen <=> status = "CANCELLED"
  /\ status \in {"ACTIVE", "HALTED"} => "ACTIVE" \in seen
=============================================================================
