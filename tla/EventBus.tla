------------------------------ MODULE EventBus -------------------------------
(***************************************************************************)
(* design_patterns.py, 8: the handlers of one event.  publish awaits them  *)
(* in turn, walking the list itself, so publications overlap and handlers  *)
(* that subscribe meanwhile are walked too.                                *)
(***************************************************************************)
EXTENDS Integers, SequencesExt

CONSTANTS
  Listener, Publication,
  MaxSubscriptions       \* bound: subscriptions

VARIABLES
  handlers,
  publication,  \* of each: not begun, awaiting a handler, returned or raised; which handler
  subscribed,   \* history: all subscriptions in order
  before,       \* history: those before each publication
  got           \* history: the handlers that were through with each

vars == <<handlers, publication, subscribed, before, got>>

Init ==
  /\ handlers = <<>> /\ subscribed = <<>>
  /\ publication = [p \in Publication |-> [at |-> "new", turn |-> 1]]
  /\ before = [p \in Publication |-> <<>>] /\ got = [p \in Publication |-> <<>>]

Subscription(l) ==
  /\ Len(subscribed) < MaxSubscriptions
  /\ subscribed' = Append(subscribed, l)
  /\ UNCHANGED <<publication, before, got>>
SubscribeAlone(l) ==   \* mutant: self._handlers[event] = [handler]
  Subscription(l) /\ handlers' = <<l>>
Subscribe(l) == Subscription(l) /\ handlers' = Append(handlers, l)

\* The walk goes on at a place of the list, or is over.
Walk(p, turn) ==
  publication' = [publication EXCEPT ![p] =
    [at |-> IF turn <= Len(handlers) THEN "awaiting" ELSE "returned", turn |-> turn]]

Publish(p) ==
  /\ publication[p].at = "new"
  /\ Walk(p, 1)
  /\ before' = [before EXCEPT ![p] = subscribed]
  /\ UNCHANGED <<handlers, subscribed, got>>

HandlerReturns(p) ==
  /\ publication[p].at = "awaiting"
  /\ got' = [got EXCEPT ![p] = Append(@, handlers[publication[p].turn])]
  /\ Walk(p, publication[p].turn + 1)
  /\ UNCHANGED <<handlers, subscribed, before>>

\* The exception leaves publish; the handlers behind are not called.
HandlerRaises(p) ==
  /\ publication[p].at = "awaiting"
  /\ publication' = [publication EXCEPT ![p].at = "raised"]
  /\ UNCHANGED <<handlers, subscribed, before, got>>

Next ==
  \/ \E l \in Listener : Subscribe(l)
  \/ \E p \in Publication : Publish(p) \/ HandlerReturns(p) \/ HandlerRaises(p)

-----------------------------------------------------------------------------
\* However publications and subscriptions overlap, handlers are told in the
\* order they subscribed, once for each subscription, and a publication that
\* returned has told all that subscribed before it began.
ToldInOrder ==
  \A p \in Publication :
    /\ IsPrefix(got[p], subscribed)
    /\ publication[p].at = "returned" => IsPrefix(before[p], got[p])
=============================================================================
