----------------------------- MODULE LeadService -----------------------------
(***************************************************************************)
(* design_patterns.py, 1, 2, 3, 5 and 7: LeadService.mark_contacted on the *)
(* in-memory repository, with a notifier of notifier_factory or with a     *)
(* RetryingNotifier around one that suspends (VendorEmailAdapter).  The    *)
(* repository's methods do not suspend, so get, the new status and add are *)
(* one step, with those of the factory also the message.                   *)
(***************************************************************************)
EXTENDS Integers, FiniteSets

CONSTANTS
  Client, Lead,
  ATTEMPTS,
  Channel,     \* the notifiers the service may be given
  MaxCalls     \* bound: calls of mark_contacted

VARIABLES
  channel,
  contacted,   \* leads whose status is "contacted"
  sending,     \* of each client: the lead it notifies, the attempt, messages out
  calls,
  told,        \* history: leads a message reached
  refused,     \* history: leads of which a caller was given an error
  assured,     \* history: leads of which a caller was given the lead
  most         \* history: the most messages one call sent

vars == <<channel, contacted, sending, calls, told, refused, assured, most>>

Nothing == [lead |-> "none", attempt |-> 0, out |-> 0]

\* _NOTIFIERS: what these send is in their list at once; sms and whatsapp are alike.
InMemory == {"email", "sms", "whatsapp"}

Init ==
  /\ channel \in Channel
  /\ contacted = {} /\ told = {} /\ refused = {} /\ assured = {}
  /\ sending = [c \in Client |-> Nothing]
  /\ calls = 0 /\ most = 0

Called(c) ==
  /\ sending[c] = Nothing /\ calls < MaxCalls
  /\ calls' = calls + 1
  /\ UNCHANGED <<channel, refused>>

\* A lead that is not there raises NotFoundError.
NotFound(c) ==
  /\ Called(c)
  /\ UNCHANGED <<contacted, sending, told, assured, most>>

MarkContacted(c, l) ==
  /\ Called(c) /\ channel \notin InMemory
  /\ contacted' = contacted \cup {l}
  /\ sending' = [sending EXCEPT ![c] = [lead |-> l, attempt |-> 1, out |-> 0]]
  /\ UNCHANGED <<told, assured, most>>

MarkAndSend(c, l) ==
  /\ Called(c) /\ channel \in InMemory
  /\ contacted' = contacted \cup {l}
  /\ told' = told \cup {l} /\ assured' = assured \cup {l} /\ most' = 1
  /\ UNCHANGED sending

\* The message of this attempt gets out, or not.
Reaches(c, out) ==
  /\ told' = IF out THEN told \cup {sending[c].lead} ELSE told
  /\ most' = IF out /\ sending[c].out >= most THEN sending[c].out + 1 ELSE most

Return(c) ==
  /\ assured' = assured \cup {sending[c].lead}
  /\ sending' = [sending EXCEPT ![c] = Nothing]
  /\ UNCHANGED <<channel, contacted, calls, refused>>

Raise(c) ==
  /\ refused' = refused \cup {sending[c].lead}
  /\ sending' = [sending EXCEPT ![c] = Nothing]
  /\ UNCHANGED <<channel, contacted, calls, assured>>

Retry(c, out) ==
  /\ sending' = [sending EXCEPT ![c].attempt = @ + 1, ![c].out = @ + (IF out THEN 1 ELSE 0)]
  /\ UNCHANGED <<channel, contacted, calls, refused, assured>>

Sent(c) == sending[c] # Nothing /\ Reaches(c, TRUE) /\ Return(c)

\* ConnectionError, before or after the message got out: the last one is raised.
SwallowsLast(c, out) ==   \* mutant: "if attempt == self.attempts: raise" is missing
  /\ sending[c] # Nothing /\ Reaches(c, out)
  /\ IF sending[c].attempt = ATTEMPTS THEN Return(c) ELSE Retry(c, out)
TimesOut(c, out) ==
  /\ sending[c] # Nothing /\ Reaches(c, out)
  /\ IF sending[c].attempt = ATTEMPTS THEN Raise(c) ELSE Retry(c, out)

\* Any other error is not retried.
Breaks(c) == sending[c] # Nothing /\ Reaches(c, FALSE) /\ Raise(c)

Next ==
  \E c \in Client :
    \/ NotFound(c) \/ \E l \in Lead : MarkContacted(c, l) \/ MarkAndSend(c, l)
    \/ Sent(c) \/ Breaks(c) \/ \E out \in BOOLEAN : TimesOut(c, out)

-----------------------------------------------------------------------------
\* A lead whose status says contacted got a message, or someone is still
\* sending it or was given an error; who was given the lead can rely on the
\* message; and one call sends at most ATTEMPTS of them.
ContactedMeansTold ==
  /\ \A l \in contacted : l \in told \cup refused \/ \E c \in Client : sending[c].lead = l
  /\ assured \subseteq told
  /\ most <= ATTEMPTS
=============================================================================
