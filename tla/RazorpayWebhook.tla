--------------------------- MODULE RazorpayWebhook ---------------------------
(***************************************************************************)
(* round2/razorpay_webhook.py: orders created under an idempotency key and *)
(* paid through webhook events, over ONE sqlite connection (line 33) in    *)
(* autocommit mode.  razorpay_webhook is a coroutine without an await      *)
(* between BEGIN and COMMIT, so webhooks do not interleave with each       *)
(* other; create_order is a plain def, run in a thread pool, and its       *)
(* statements do fall between the webhook's, inside its transaction.       *)
(* Each SQL statement is one action.                                       *)
(***************************************************************************)
EXTENDS Integers, FiniteSets, Functions

CONSTANTS
  Caller,    \* requests that POST /orders, a retry being another Post
  Key,       \* idempotency keys
  User,
  Body,      \* the request body sent with a key: [user, amount], amount in paise
  MaxOrders, \* bound: orders ever inserted
  EventId,   \* webhook events the provider may send
  Payload,   \* ... and what they may say
  MaxErrors  \* bound: statements of the webhook that raise

\* uuids, numbered in the order they are drawn.
OrderId == 1 .. MaxOrders

ASSUME BodyAssumption == Body \in [Key -> [user : User, amount : Nat]]
\* EVENT_TO_STATUS: `kind' is what the two capturing types and the failing one
\* ask for; the other types ask for nothing.  `matches' tells whether amount and
\* currency are those of the order.
ASSUME PayloadAssumption ==
  Payload \subseteq [kind : {"paid", "failed", "ignored"}, order : OrderId,
                    matches : BOOLEAN]
ASSUME BoundsAssumption == MaxOrders \in Nat /\ MaxErrors \in Nat

VARIABLES
  orders, events, wallet,  \* the tables, as the connection sees them
  saved,                   \* what ROLLBACK restores, or NoTransaction
  posting,                 \* per caller: the key its SELECT did not find, or NoKey
  wpc, current,            \* the webhook: position in the handler, event
  sent,                    \* per event: what the provider sends, or NotSent
  acked,                   \* events the provider got a 2xx for
  answers,                 \* <<key, order>> pairs POST /orders returned
  undone,                  \* orders whose INSERT a webhook's ROLLBACK removed
  errors

tables == <<orders, events, wallet>>
webhook == <<wpc, current>>
outside == <<sent, acked, answers, undone>>
vars == <<tables, saved, posting, webhook, outside, errors>>

NoTransaction == [open |-> FALSE]
NoKey == [key |-> "none"]
NotSent == [kind |-> "none"]

ALLOWED == {<<"created", "paid">>, <<"created", "failed">>, <<"failed", "paid">>}

InTransaction == saved # NoTransaction
Issued == {a[2] : a \in answers}
RowsOf(k) == {o \in DOMAIN orders : orders[o].key = k}
Payer(o) == Body[orders[o].key].user
Credits(o) == Body[orders[o].key].amount \div 100

Init ==
  /\ orders = <<>> /\ events = {} /\ wallet = [u \in User |-> 0]
  /\ saved = NoTransaction
  /\ posting = [c \in Caller |-> NoKey]
  /\ wpc = "idle" /\ current = "none"
  /\ sent = [e \in EventId |-> NotSent]
  /\ acked = {} /\ answers = {} /\ undone = {}
  /\ errors = 0

-----------------------------------------------------------------------------
(* POST /orders *)

\* SELECT: a known key is answered at once with the order it has.
SelectKey(c, k) ==
  /\ posting[c] = NoKey
  /\ IF RowsOf(k) # {}
       THEN /\ answers' = answers \cup ({k} \X RowsOf(k))
            /\ UNCHANGED posting
       ELSE /\ posting' = [posting EXCEPT ![c] = [key |-> k]]
            /\ UNCHANGED answers
  /\ UNCHANGED <<tables, saved, webhook, sent, acked, undone, errors>>

\* Bug: no UNIQUE on idempotency_key (line 41).
InsertWithoutUnique(c, o) ==
  /\ posting[c] # NoKey
  /\ o = Cardinality(Issued) + 1
  /\ orders' = [p \in DOMAIN orders \cup {o} |->
                  IF p = o THEN [key |-> posting[c].key, status |-> "created"]
                           ELSE orders[p]]
  /\ answers' = answers \cup {<<posting[c].key, o>>}
  /\ posting' = [posting EXCEPT ![c] = NoKey]
  /\ UNCHANGED <<events, wallet, saved, webhook, sent, acked, undone, errors>>

\* INSERT of a fresh order.
InsertOrder(c, o) ==
  /\ posting[c] # NoKey
  /\ RowsOf(posting[c].key) = {}
  /\ o = Cardinality(Issued) + 1
  /\ orders' = [p \in DOMAIN orders \cup {o} |->
                  IF p = o THEN [key |-> posting[c].key, status |-> "created"]
                           ELSE orders[p]]
  /\ answers' = answers \cup {<<posting[c].key, o>>}
  /\ posting' = [posting EXCEPT ![c] = NoKey]
  /\ UNCHANGED <<events, wallet, saved, webhook, sent, acked, undone, errors>>

\* UNIQUE idempotency_key: the other of two concurrent requests was first, this
\* one is answered 500.
InsertConflict(c) ==
  /\ posting[c] # NoKey
  /\ RowsOf(posting[c].key) # {}
  /\ posting' = [posting EXCEPT ![c] = NoKey]
  /\ UNCHANGED <<tables, saved, webhook, outside, errors>>

-----------------------------------------------------------------------------
(* The provider: sends events of orders it knows, again until a 2xx and now *)
(* and then after it, in any order                                          *)

Send(e, payload) ==
  /\ sent[e] = NotSent
  /\ payload.order \in Issued
  /\ sent' = [sent EXCEPT ![e] = payload]
  /\ UNCHANGED <<tables, saved, posting, webhook, acked, answers, undone, errors>>

Goto(from, to) == wpc = from /\ wpc' = to

\* A delivery with a good signature reaches the handler.
Deliver(e) ==
  /\ sent[e] # NotSent
  /\ Goto("idle", "begin")
  /\ current' = e
  /\ UNCHANGED <<tables, saved, posting, outside, errors>>

-----------------------------------------------------------------------------
(* POST /webhooks/razorpay *)

\* The answer to the provider may be lost on the way.
Answer200 ==
  /\ wpc' = "idle" /\ current' = "none"
  /\ acked' \in {acked, acked \cup {current}}

\* ROLLBACK takes back every statement the connection ran since BEGIN, those of
\* create_order with them.
Rollback ==
  /\ orders' = saved.orders /\ events' = saved.events /\ wallet' = saved.wallet
  /\ saved' = NoTransaction
  /\ undone' = undone \cup (DOMAIN orders \ DOMAIN saved.orders)

\* Bug: the event row is saved before the transaction, not in it.
BeginAfterRecord ==
  /\ Goto("begin", "record")
  /\ saved' = [open |-> TRUE, orders |-> orders, events |-> events \cup {current},
               wallet |-> wallet]
  /\ UNCHANGED <<tables, posting, current, outside, errors>>

Begin ==
  /\ Goto("begin", "record")
  /\ saved' = [open |-> TRUE, orders |-> orders, events |-> events, wallet |-> wallet]
  /\ UNCHANGED <<tables, posting, current, outside, errors>>

\* INSERT OR IGNORE of the event id: recorded now ...
Record ==
  /\ current \notin events
  /\ Goto("record", IF sent[current].kind = "ignored" THEN "commit" ELSE "select")
  /\ events' = events \cup {current}
  /\ UNCHANGED <<orders, wallet, saved, posting, current, outside, errors>>

\* ... or seen before.
Duplicate ==
  /\ wpc = "record" /\ current \in events
  /\ Rollback /\ Answer200
  /\ UNCHANGED <<posting, sent, answers, errors>>

\* Bug: no state machine (lines 130-131).
SelectWithoutAllowed ==
  LET pay == sent[current]
      applies == pay.order \in DOMAIN orders /\ pay.matches
  IN /\ Goto("select", IF applies THEN "update" ELSE "commit")
     /\ UNCHANGED <<tables, saved, posting, current, outside, errors>>

\* SELECT of the order, and what is decided on it: unknown_order,
\* amount_mismatch and ignored_transition go straight to COMMIT.
SelectOrder ==
  LET pay == sent[current]
      applies == /\ pay.order \in DOMAIN orders
                 /\ pay.matches
                 /\ <<orders[pay.order].status, pay.kind>> \in ALLOWED
  IN /\ Goto("select", IF applies THEN "update" ELSE "commit")
     /\ UNCHANGED <<tables, saved, posting, current, outside, errors>>

UpdateOrder ==
  /\ Goto("update", IF sent[current].kind = "paid" THEN "credit" ELSE "commit")
  /\ orders' = [orders EXCEPT ![sent[current].order].status = sent[current].kind]
  /\ UNCHANGED <<events, wallet, saved, posting, current, outside, errors>>

Credit ==
  /\ Goto("credit", "commit")
  /\ LET o == sent[current].order
     IN wallet' = [wallet EXCEPT ![Payer(o)] = @ + Credits(o)]
  /\ UNCHANGED <<orders, events, saved, posting, current, outside, errors>>

Commit ==
  /\ wpc = "commit"
  /\ saved' = NoTransaction
  /\ Answer200
  /\ UNCHANGED <<tables, posting, sent, answers, undone, errors>>

\* Bug: the except answers 200.
RaiseAnswers200 ==
  /\ InTransaction
  /\ errors < MaxErrors
  /\ errors' = errors + 1
  /\ Rollback /\ Answer200
  /\ UNCHANGED <<posting, sent, answers>>

\* Any statement after BEGIN may raise: ROLLBACK, and 500 to the provider.
Raise ==
  /\ InTransaction
  /\ errors < MaxErrors
  /\ errors' = errors + 1
  /\ Rollback
  /\ wpc' = "idle" /\ current' = "none"
  /\ UNCHANGED <<posting, sent, acked, answers>>

-----------------------------------------------------------------------------

Post == \E c \in Caller :
  \/ \E k \in Key : SelectKey(c, k)
  \/ \E o \in OrderId : InsertOrder(c, o)
  \/ InsertConflict(c)

Webhook ==
  \/ Begin \/ Record \/ Duplicate \/ SelectOrder \/ UpdateOrder \/ Credit \/ Commit

Next ==
  \/ Post
  \/ \E e \in EventId : Deliver(e) \/ \E payload \in Payload : Send(e, payload)
  \/ Webhook
  \/ Raise

Spec == Init /\ [][Next]_vars

(***************************************************************************)
(* The event loop runs a handler it started, and the provider delivers an  *)
(* event again as long as it got no 2xx (lines 141-143 count on it).       *)
(***************************************************************************)
Fairness ==
  /\ WF_vars(Webhook)
  /\ \A e \in EventId : SF_vars(e \notin acked /\ Deliver(e))

FairSpec == Spec /\ Fairness

-----------------------------------------------------------------------------
(* Properties *)

Row == [key : Key, status : {"created", "paid", "failed"}]

\* The tables keep their columns, and a transaction is open exactly while the
\* webhook is between BEGIN and COMMIT or ROLLBACK.
TypeOK ==
  /\ DOMAIN orders \subseteq OrderId /\ orders \in [DOMAIN orders -> Row]
  /\ events \subseteq EventId /\ wallet \in [User -> Nat]
  /\ InTransaction <=> wpc \notin {"idle", "begin"}
  /\ InTransaction => /\ saved.orders \in [DOMAIN saved.orders -> Row]
                      /\ DOMAIN saved.orders \subseteq DOMAIN orders
                      /\ saved.events \subseteq events
                      /\ saved.wallet \in [User -> Nat]
  /\ posting \in [Caller -> {NoKey} \cup [key : Key]]
  /\ wpc \in {"idle", "begin", "record", "select", "update", "credit", "commit"}
  /\ wpc # "idle" => current \in EventId /\ sent[current] \in Payload
  /\ wpc \in {"update", "credit"} => /\ sent[current].order \in DOMAIN orders
                                     /\ sent[current].kind \in {"paid", "failed"}
  /\ sent \in [EventId -> {NotSent} \cup Payload]
  /\ acked \subseteq EventId /\ answers \subseteq Key \X OrderId
  /\ undone \subseteq OrderId /\ errors \in 0 .. MaxErrors

\* What is in the database for good.
Committed ==
  IF InTransaction THEN saved
  ELSE [orders |-> orders, events |-> events, wallet |-> wallet]

CommittedOrders == [o \in DOMAIN Committed.orders |-> Committed.orders[o].status]

CreditsOf(os) == [o \in DOMAIN os |-> Body[os[o].key].amount \div 100]
PaidBy(os, u) == {o \in DOMAIN os : os[o].status = "paid" /\ Body[os[o].key].user = u}

\* Whatever is delivered twice, late, out of order or fails half-way, a user's
\* credits are those of their paid orders, each counted once (lines 7-14).
CreditsMatchPaidOrders ==
  \A u \in User :
    Committed.wallet[u] =
      SumFunctionOnSet(CreditsOf(Committed.orders), PaidBy(Committed.orders, u))

\* An order is paid exactly when a matching capture is recorded: none is applied
\* without its event (line 13), and none is recorded and forgotten, unless the
\* order's own row was rolled back.
PaidIffCaptured ==
  \A o \in Issued \ undone :
    LET captured == \E e \in Committed.events :
                      /\ sent[e].kind = "paid" /\ sent[e].order = o /\ sent[e].matches
        paid == o \in DOMAIN CommittedOrders /\ CommittedOrders[o] = "paid"
    IN paid <=> captured

\* Line 51's state machine: a committed order never leaves the table, and moves
\* only along ALLOWED; so paid is final, however late a failure arrives.
OnlyAllowedTransitions ==
  [][\A o \in DOMAIN CommittedOrders :
       /\ o \in DOMAIN CommittedOrders'
       /\ \/ CommittedOrders'[o] = CommittedOrders[o]
          \/ <<CommittedOrders[o], CommittedOrders'[o]>> \in ALLOWED]_vars

\* Two answers to one key name different orders only if one of these orders was
\* undone by a webhook's ROLLBACK.
AnswersAgreeUnlessUndone ==
  \A a, b \in answers : a[1] = b[1] => a[2] = b[2] \/ {a[2], b[2]} \cap undone # {}

\* A sent event is recorded in the end, whatever fails on the way (lines 13-14).
EventuallyRecorded ==
  \A e \in EventId : sent[e] # NotSent ~> e \in Committed.events

\* Lines 15-16: the same key returns the same order instead of creating a second.
SameKeySameOrder == \A a, b \in answers : a[1] = b[1] => a[2] = b[2]
=============================================================================
