------------------------ MODULE RazorpayWebhookProofs ------------------------
(***************************************************************************)
(* For any callers, keys, amounts, events and bounds: the safety of        *)
(* create_order and razorpay_webhook.  The inductive invariant is built in *)
(* layers, each proved with the help of those before it: the types, the    *)
(* rows and answers, the open transaction, the captures, the wallets.      *)
(***************************************************************************)
EXTENDS RazorpayWebhook, CollectionLemmas

-----------------------------------------------------------------------------
(* Types *)

\* What marks an event as unsent is no payload.
LEMMA NotSentIsNoPayload == NotSent \notin Payload
BY PayloadAssumption DEF NotSent

LEMMA InitType == Init => TypeOK
<1> SUFFICES ASSUME Init PROVE TypeOK
  OBVIOUS
<1>1. DOMAIN orders = {} /\ orders \in [DOMAIN orders -> Row]
  BY DEF Init
<1>2. ~ InTransaction /\ Issued = {}
  BY DEF Init, InTransaction, Issued
<1> QED
  BY <1>1, <1>2, BoundsAssumption DEF Init, TypeOK, OrderId

\* Each step keeps the types.
LEMMA PostType == ASSUME TypeOK, Post PROVE TypeOK'
<1>1. ASSUME NEW c \in Caller, NEW k \in Key, SelectKey(c, k) PROVE TypeOK'
  BY <1>1 DEF SelectKey, TypeOK, RowsOf, tables, webhook, InTransaction
<1>2. ASSUME NEW c \in Caller, NEW o \in OrderId, InsertOrder(c, o) PROVE TypeOK'
  BY <1>2 DEF InsertOrder, TypeOK, tables, webhook, InTransaction, Row
<1>3. ASSUME NEW c \in Caller, InsertConflict(c) PROVE TypeOK'
  BY <1>3 DEF InsertConflict, TypeOK, outside, tables, webhook, InTransaction
<1> QED
  BY <1>1, <1>2, <1>3 DEF Post

\* The provider sends and delivers.
LEMMA ProviderType ==
  ASSUME TypeOK, NEW e \in EventId, Deliver(e) \/ \E payload \in Payload : Send(e, payload)
  PROVE  TypeOK'
<1>1. CASE Deliver(e)
  BY <1>1 DEF Deliver, Goto, TypeOK, tables, outside, InTransaction
<1>2. ASSUME NEW payload \in Payload, Send(e, payload) PROVE TypeOK'
  <2>1. wpc # "idle" => sent'[current] = sent[current]
    BY <1>2, NotSentIsNoPayload DEF Send, TypeOK
  <2>2. sent' \in [EventId -> {NotSent} \cup Payload]
    BY <1>2 DEF Send, TypeOK
  <2> QED
    BY <1>2, <2>1, <2>2 DEF Send, TypeOK, tables, webhook, InTransaction
<1> QED
  BY <1>1, <1>2

\* The handler's statements.
LEMMA WebhookType == ASSUME TypeOK, Webhook \/ Raise PROVE TypeOK'
<1> USE PayloadAssumption, BodyAssumption
    DEF TypeOK, tables, outside, InTransaction, NoTransaction, Goto
<1>1. CASE Begin
  BY <1>1 DEF Begin
<1>2. CASE Record
  BY <1>2 DEF Record
<1>3. CASE Duplicate
  BY <1>3 DEF Duplicate, Rollback, Answer200
<1>4. CASE SelectOrder
  BY <1>4 DEF SelectOrder, ALLOWED
<1>5. CASE UpdateOrder
  <2>1. sent[current].order \in DOMAIN orders /\ sent[current].kind \in {"paid", "failed"}
    BY <1>5 DEF UpdateOrder
  <2>2. DOMAIN orders' = DOMAIN orders /\ orders' \in [DOMAIN orders -> Row]
    BY <1>5, <2>1, ZenonT(30) DEF UpdateOrder, Row
  <2> QED
    BY <1>5, <2>1, <2>2 DEF UpdateOrder
<1>6. CASE Credit
  BY <1>6, SMTT(30) DEF Credit, Payer, Credits, Row
<1>7. CASE Commit
  BY <1>7 DEF Commit, Answer200
<1>8. CASE Raise
  <2>1. errors' \in 0 .. MaxErrors
    BY <1>8, BoundsAssumption DEF Raise
  <2> QED
    BY <1>8, <2>1 DEF Raise, Rollback
<1> QED
  BY <1>1, <1>2, <1>3, <1>4, <1>5, <1>6, <1>7, <1>8 DEF Webhook

\* For any callers, keys, events and bounds: the tables keep their columns, and a
\* transaction is open exactly from BEGIN to COMMIT or ROLLBACK.
THEOREM TypeCorrect == Spec => []TypeOK
<1>1. TypeOK /\ UNCHANGED vars => TypeOK'
  BY DEF TypeOK, vars, tables, webhook, outside, InTransaction
<1>2. TypeOK /\ [Next]_vars => TypeOK'
  BY <1>1, PostType, ProviderType, WebhookType DEF Next
<1> QED
  BY <1>2, InitType, PTL DEF Spec

-----------------------------------------------------------------------------
(* Rows and answers *)

\* Orders are numbered as they are issued, each answer names the row of its key
\* unless that row was undone, and what a transaction does keeps the keys.
RowsInv ==
  /\ Issued = 1 .. Cardinality(Issued)
  /\ DOMAIN orders \subseteq Issued \ undone /\ undone \subseteq Issued
  /\ \A a \in answers :
       a[2] \notin undone => a[2] \in DOMAIN orders /\ orders[a[2]].key = a[1]
  /\ \A o, p \in DOMAIN orders : orders[o].key = orders[p].key => o = p
  /\ InTransaction => \A o \in DOMAIN saved.orders : saved.orders[o].key = orders[o].key
  /\ \A e \in EventId : sent[e] # NotSent => sent[e].order \in Issued

LEMMA InitRows == Init => RowsInv
<1> SUFFICES ASSUME Init PROVE RowsInv
  OBVIOUS
<1>1. Issued = {} /\ Cardinality(Issued) = 0 /\ DOMAIN orders = {} /\ ~ InTransaction
  BY FS_EmptySet DEF Init, Issued, InTransaction
<1> QED
  BY <1>1 DEF Init, RowsInv

\* A fresh order has a number no answer named yet.
LEMMA FreshOrder ==
  ASSUME TypeOK, RowsInv, NEW o, o = Cardinality(Issued) + 1, Issued' = Issued \cup {o}
  PROVE  o \notin Issued /\ Issued' = 1 .. Cardinality(Issued')
<1>1. Issued \subseteq 1 .. MaxOrders
  BY DEF TypeOK, Issued, OrderId
<1>2. IsFiniteSet(Issued) /\ Cardinality(Issued) \in Nat
  <2>1. IsFiniteSet(1 .. MaxOrders)
    BY BoundsAssumption, FS_Interval
  <2> QED
    BY <1>1, <2>1, FS_Subset, FS_CardinalityType
<1> DEFINE n == Cardinality(Issued)
<1>3. o \notin Issued
  <2>1. Issued = 1 .. n /\ n \in Nat /\ o = n + 1
    BY <1>2 DEF RowsInv
  <2> HIDE DEF n
  <2> QED BY <2>1
<1>4. Cardinality(Issued') = n + 1
  BY <1>2, <1>3, FS_AddElement
<1>5. Issued' = 1 .. n + 1
  <2>1. Issued = 1 .. n /\ n \in Nat /\ o = n + 1
    BY <1>2 DEF RowsInv
  <2> HIDE DEF n
  <2> QED BY <2>1
<1> QED
  BY <1>3, <1>4, <1>5

\* POST /orders adds an answer with its row.
LEMMA PostRows == ASSUME TypeOK, RowsInv, Post PROVE RowsInv'
<1>1. ASSUME NEW c \in Caller, NEW k \in Key, SelectKey(c, k) PROVE RowsInv'
  <2>1. UNCHANGED <<orders, saved, undone, sent>>
    BY <1>1 DEF SelectKey, tables
  <2>2. \A a \in answers' : a \in answers \/ (a[2] \in DOMAIN orders /\ orders[a[2]].key = a[1])
    BY <1>1 DEF SelectKey, RowsOf
  <2>3. answers \subseteq answers'
    BY <1>1 DEF SelectKey
  <2>4. Issued' = Issued
    BY <2>2, <2>3 DEF RowsInv, Issued
  <2> QED
    BY <2>1, <2>2, <2>4 DEF RowsInv, InTransaction
<1>2. ASSUME NEW c \in Caller, NEW o \in OrderId, InsertOrder(c, o) PROVE RowsInv'
  <2> DEFINE k == posting[c].key
  <2>1. /\ RowsOf(k) = {} /\ answers' = answers \cup {<<k, o>>}
        /\ orders' = [p \in DOMAIN orders \cup {o} |->
                        IF p = o THEN [key |-> k, status |-> "created"] ELSE orders[p]]
        /\ UNCHANGED <<saved, undone, sent>>
    BY <1>2 DEF InsertOrder
  <2>2. Issued' = Issued \cup {o}
    <3> HIDE DEF k
    <3>1. <<k, o>>[2] = o /\ answers' = answers \cup {<<k, o>>}
      BY <2>1
    <3> QED
      BY <3>1 DEF Issued
  <2>3. o \notin Issued /\ Issued' = 1 .. Cardinality(Issued')
    BY <1>2, <2>2, FreshOrder DEF InsertOrder
  <2>4. \A a \in answers : a[2] \in Issued
    BY DEF Issued
  <2> HIDE DEF k
  <2>5. \A a \in answers' : a[2] \notin undone' => a[2] \in DOMAIN orders'
        /\ orders'[a[2]].key = a[1]
    BY <2>1, <2>3, <2>4 DEF RowsInv
  <2>6. \A p, q \in DOMAIN orders' : orders'[p].key = orders'[q].key => p = q
    BY <2>1 DEF RowsInv, RowsOf
  <2>7. InTransaction' =>
          \A p \in DOMAIN saved'.orders : saved'.orders[p].key = orders'[p].key
    BY <2>1, <2>3 DEF RowsInv, InTransaction, TypeOK
  <2>8. DOMAIN orders' \subseteq Issued' \ undone' /\ undone' \subseteq Issued'
    BY <2>1, <2>2, <2>3 DEF RowsInv
  <2> QED
    BY <2>1, <2>2, <2>3, <2>5, <2>6, <2>7, <2>8 DEF RowsInv
<1>3. ASSUME NEW c \in Caller, InsertConflict(c) PROVE RowsInv'
  BY <1>3 DEF InsertConflict, RowsInv, outside, tables, InTransaction, Issued
<1> QED
  BY <1>1, <1>2, <1>3 DEF Post

\* The provider knows issued orders only.
LEMMA ProviderRows ==
  ASSUME TypeOK, RowsInv, NEW e \in EventId,
         Deliver(e) \/ \E payload \in Payload : Send(e, payload)
  PROVE  RowsInv'
<1>1. CASE Deliver(e)
  BY <1>1 DEF Deliver, RowsInv, tables, outside, InTransaction, Issued
<1>2. ASSUME NEW payload \in Payload, Send(e, payload) PROVE RowsInv'
  <2>1. UNCHANGED <<orders, saved, answers, undone, Issued>>
    BY <1>2 DEF Send, tables, Issued
  <2>2. \A d \in EventId : sent'[d] # NotSent => sent'[d].order \in Issued
    BY <1>2 DEF Send, RowsInv, TypeOK
  <2> QED
    BY <2>1, <2>2 DEF RowsInv, InTransaction
<1> QED
  BY <1>1, <1>2

\* ROLLBACK takes away the rows it marks as undone, and leaves the keys.
LEMMA RollbackRows ==
  ASSUME TypeOK, RowsInv, InTransaction, Rollback, UNCHANGED <<answers, sent>>
  PROVE  RowsInv'
<1>1. /\ orders' = saved.orders /\ undone' = undone \cup (DOMAIN orders \ DOMAIN saved.orders)
      /\ Issued' = Issued /\ ~ InTransaction'
  BY DEF Rollback, InTransaction, Issued
<1>2. DOMAIN saved.orders \subseteq DOMAIN orders
  BY DEF TypeOK
<1>3. \A o \in DOMAIN saved.orders : saved.orders[o].key = orders[o].key
  BY DEF RowsInv
<1> QED
  BY <1>1, <1>2, <1>3 DEF RowsInv

\* The handler changes no key, and takes rows away by ROLLBACK only.
LEMMA WebhookRows == ASSUME TypeOK, RowsInv, Webhook \/ Raise PROVE RowsInv'
<1> USE DEF RowsInv, Issued, outside
<1>1. CASE Begin
  BY <1>1 DEF Begin, tables, InTransaction
<1>2. CASE Record \/ SelectOrder \/ Credit
  BY <1>2 DEF Record, SelectOrder, Credit, tables, InTransaction
<1>3. CASE UpdateOrder
  <2>1. DOMAIN orders' = DOMAIN orders /\ \A o \in DOMAIN orders : orders'[o].key = orders[o].key
    BY <1>3 DEF UpdateOrder, TypeOK, Row
  <2>2. UNCHANGED <<saved, answers, undone, sent>>
    BY <1>3 DEF UpdateOrder
  <2> QED
    BY <2>1, <2>2 DEF TypeOK, InTransaction
<1>4. CASE Commit
  BY <1>4 DEF Commit, tables, InTransaction
<1>5. CASE Duplicate \/ Raise
  <2>1. InTransaction /\ Rollback /\ UNCHANGED <<answers, sent>>
    BY <1>5 DEF Duplicate, Raise, TypeOK
  <2> QED
    BY <2>1, RollbackRows
<1> QED
  BY <1>1, <1>2, <1>3, <1>4, <1>5 DEF Webhook

\* The layer of the rows.
THEOREM RowsHold == Spec => []RowsInv
<1>1. RowsInv /\ UNCHANGED vars => RowsInv'
  BY DEF RowsInv, vars, tables, webhook, outside, InTransaction, Issued
<1>2. TypeOK /\ RowsInv /\ [Next]_vars => RowsInv'
  BY <1>1, PostRows, ProviderRows, WebhookRows DEF Next
<1> QED
  BY <1>2, InitRows, TypeCorrect, PTL DEF Spec

\* For any callers, keys, events and bounds: two answers to one key name
\* different orders only if a webhook's ROLLBACK undid one of them.
THEOREM AnswersAgree == Spec => []AnswersAgreeUnlessUndone
<1>1. RowsInv => AnswersAgreeUnlessUndone
  BY DEF RowsInv, AnswersAgreeUnlessUndone
<1> QED
  BY <1>1, RowsHold, PTL

-----------------------------------------------------------------------------
(* The transaction *)

Moves(from, to) ==
  \A o \in DOMAIN from :
    /\ o \in DOMAIN to
    /\ to[o].status = from[o].status \/ <<from[o].status, to[o].status>> \in ALLOWED

\* Since BEGIN the handler recorded its event, if it was new, and moved at most
\* its own order, along ALLOWED.
TransactionInv ==
  /\ \A e \in events : sent[e] # NotSent
  /\ InTransaction =>
       /\ Moves(saved.orders, orders)
       /\ wpc \in {"record", "select", "update"} =>
            \A o \in DOMAIN saved.orders : orders[o].status = saved.orders[o].status
       /\ events = IF wpc = "record" THEN saved.events ELSE saved.events \cup {current}
       /\ wpc # "record" => current \notin saved.events
  /\ wpc \in {"select", "update"} => sent[current].kind \in {"paid", "failed"}
  /\ wpc = "update" =>
       /\ sent[current].matches
       /\ <<orders[sent[current].order].status, sent[current].kind>> \in ALLOWED
  /\ wpc = "credit" =>
       sent[current].kind = "paid" /\ orders[sent[current].order].status = "paid"

\* An insert adds a row and leaves the others.
LEMMA InsertKeepsRows ==
  ASSUME TypeOK, RowsInv, NEW c \in Caller, NEW o \in OrderId, InsertOrder(c, o)
  PROVE  /\ o \notin Issued /\ o \notin DOMAIN orders
         /\ DOMAIN orders' = DOMAIN orders \cup {o}
         /\ orders'[o].status = "created"
         /\ \A p \in DOMAIN orders : orders'[p] = orders[p]
         /\ Issued' = Issued \cup {o}
         /\ UNCHANGED <<events, wallet, saved, wpc, current, sent, undone>>
<1> DEFINE k == posting[c].key
<1>1. /\ answers' = answers \cup {<<k, o>>} /\ <<k, o>>[2] = o
      /\ orders' = [p \in DOMAIN orders \cup {o} |->
                      IF p = o THEN [key |-> k, status |-> "created"] ELSE orders[p]]
      /\ UNCHANGED <<events, wallet, saved, wpc, current, sent, undone>>
  BY DEF InsertOrder, webhook
<1> HIDE DEF k
<1>2. Issued' = Issued \cup {o}
  BY <1>1 DEF Issued
<1>3. o \notin Issued
  BY <1>2, FreshOrder DEF InsertOrder
<1> QED
  BY <1>1, <1>2, <1>3 DEF RowsInv

\* POST /orders leaves the rows a transaction found.
LEMMA PostTransaction ==
  ASSUME TypeOK, RowsInv, TransactionInv, Post PROVE TransactionInv'
<1>1. ASSUME NEW c \in Caller, NEW k \in Key, SelectKey(c, k) PROVE TransactionInv'
  BY <1>1 DEF SelectKey, TransactionInv, tables, webhook, InTransaction, Moves
<1>2. ASSUME NEW c \in Caller, NEW o \in OrderId, InsertOrder(c, o) PROVE TransactionInv'
  <2>1. /\ \A p \in DOMAIN orders : p \in DOMAIN orders' /\ orders'[p] = orders[p]
        /\ UNCHANGED <<events, saved, wpc, current, sent>>
    BY <1>2, InsertKeepsRows
  <2>2. InTransaction => DOMAIN saved.orders \subseteq DOMAIN orders
    BY DEF TypeOK
  <2>3. wpc = "update" \/ wpc = "credit" => sent[current].order \in DOMAIN orders
    BY DEF TypeOK
  <2> QED
    BY <2>1, <2>2, <2>3 DEF TransactionInv, InTransaction, Moves
<1>3. ASSUME NEW c \in Caller, InsertConflict(c) PROVE TransactionInv'
  BY <1>3 DEF InsertConflict, TransactionInv, tables, webhook, outside, InTransaction, Moves
<1> QED
  BY <1>1, <1>2, <1>3 DEF Post

\* The event being handled is not sent anew.
LEMMA ProviderTransaction ==
  ASSUME TypeOK, TransactionInv, NEW e \in EventId,
         Deliver(e) \/ \E payload \in Payload : Send(e, payload)
  PROVE  TransactionInv'
<1>1. CASE Deliver(e)
  BY <1>1 DEF Deliver, Goto, TypeOK, TransactionInv, tables, outside, InTransaction, Moves
<1>2. ASSUME NEW payload \in Payload, Send(e, payload) PROVE TransactionInv'
  <2>1. UNCHANGED <<orders, events, saved, wpc, current>>
    BY <1>2 DEF Send, tables, webhook
  <2>2. wpc # "idle" => sent'[current] = sent[current]
    BY <1>2, NotSentIsNoPayload DEF Send, TypeOK
  <2>3. \A d \in events : sent'[d] # NotSent
    BY <1>2, NotSentIsNoPayload DEF Send, TypeOK, TransactionInv
  <2> QED
    BY <2>1, <2>2, <2>3 DEF TransactionInv, InTransaction, Moves
<1> QED
  BY <1>1, <1>2

\* The handler's statements, from BEGIN to COMMIT or ROLLBACK.
LEMMA WebhookTransaction ==
  ASSUME TypeOK, TransactionInv, Webhook \/ Raise PROVE TransactionInv'
<1> USE DEF TransactionInv, Moves, InTransaction, tables, outside, Goto
<1>1. CASE Begin
  BY <1>1 DEF Begin
<1>2. CASE Record
  BY <1>2, NotSentIsNoPayload, PayloadAssumption DEF Record, TypeOK
<1>3. CASE SelectOrder
  BY <1>3 DEF SelectOrder, TypeOK
<1>4. CASE UpdateOrder
  <2> DEFINE o == sent[current].order
             kind == sent[current].kind
  <2>1. /\ o \in DOMAIN orders /\ kind \in {"paid", "failed"}
        /\ <<orders[o].status, kind>> \in ALLOWED /\ InTransaction
        /\ \A p \in DOMAIN saved.orders :
             p \in DOMAIN orders /\ orders[p].status = saved.orders[p].status
    BY <1>4 DEF UpdateOrder, TypeOK
  <2>2. /\ DOMAIN orders' = DOMAIN orders
        /\ \A p \in DOMAIN orders : orders'[p].status = IF p = o THEN kind ELSE orders[p].status
    BY <1>4, <2>1 DEF UpdateOrder, TypeOK, Row
  <2>3. wpc' = (IF kind = "paid" THEN "credit" ELSE "commit") /\ wpc = "update"
        /\ UNCHANGED <<events, saved, current, sent>>
    BY <1>4 DEF UpdateOrder
  <2> HIDE DEF o, kind
  <2>4. Moves(saved.orders, orders')
    BY <2>1, <2>2
  <2>5. events = saved.events \cup {current} /\ current \notin saved.events
    BY <2>1, <2>3
  <2>6. wpc' = "credit" => sent'[current'].kind = "paid"
        /\ orders'[sent'[current'].order].status = "paid"
    BY <2>1, <2>2, <2>3 DEF o, kind
  <2> QED
    BY <2>3, <2>4, <2>5, <2>6
<1>5. CASE Credit
  BY <1>5 DEF Credit
<1>6. CASE Commit
  BY <1>6 DEF Commit, Answer200
<1>7. CASE Duplicate \/ Raise
  BY <1>7 DEF Duplicate, Raise, Rollback, Answer200, TypeOK
<1> QED
  BY <1>1, <1>2, <1>3, <1>4, <1>5, <1>6, <1>7 DEF Webhook

\* The layer of the transaction.
THEOREM TransactionHolds == Spec => []TransactionInv
<1>1. Init => TransactionInv
  BY DEF Init, TransactionInv, InTransaction
<1>2. TransactionInv /\ UNCHANGED vars => TransactionInv'
  BY DEF TransactionInv, Moves, vars, tables, webhook, outside, InTransaction
<1>3. TypeOK /\ RowsInv /\ TransactionInv /\ [Next]_vars => TransactionInv'
  BY <1>2, PostTransaction, ProviderTransaction, WebhookTransaction DEF Next
<1> QED
  BY <1>1, <1>3, TypeCorrect, RowsHold, PTL DEF Spec

\* What is committed moves at COMMIT alone, or by an insert outside.
LEMMA CommittedMoves ==
  ASSUME TypeOK, RowsInv, TransactionInv, Next
  PROVE  Moves(Committed.orders, Committed'.orders)
<1> DEFINE old == Committed.orders
           new == Committed'.orders
<1>1. old = (IF InTransaction THEN saved.orders ELSE orders)
      /\ new = (IF InTransaction' THEN saved'.orders ELSE orders')
  BY DEF Committed
<1>2. ASSUME UNCHANGED <<orders, saved>> PROVE Moves(old, new)
  BY <1>1, <1>2 DEF Moves, InTransaction
<1>3. ASSUME Post PROVE Moves(old, new)
  <2>1. ASSUME NEW c \in Caller, NEW o \in OrderId, InsertOrder(c, o) PROVE Moves(old, new)
    <3>1. /\ \A p \in DOMAIN orders : p \in DOMAIN orders' /\ orders'[p] = orders[p]
          /\ UNCHANGED saved
      BY <2>1, InsertKeepsRows
    <3> QED
      BY <1>1, <3>1 DEF Moves, InTransaction
  <2> QED
    BY <1>2, <1>3, <2>1 DEF Post, SelectKey, InsertConflict, tables
<1>4. ASSUME NEW e \in EventId, Deliver(e) \/ \E payload \in Payload : Send(e, payload)
      PROVE  Moves(old, new)
  BY <1>2, <1>4 DEF Deliver, Send, tables
<1>5. CASE Begin
  BY <1>1, <1>5 DEF Begin, TypeOK, InTransaction, NoTransaction, Goto, Moves, tables
<1>6. CASE Record \/ SelectOrder \/ Credit
  BY <1>2, <1>6 DEF Record, SelectOrder, Credit, tables
<1>7. CASE UpdateOrder
  BY <1>1, <1>7 DEF UpdateOrder, TypeOK, InTransaction, Goto, Moves
<1>8. CASE Commit
  BY <1>1, <1>8 DEF Commit, TypeOK, TransactionInv, InTransaction, Moves, tables
<1>9. CASE Duplicate \/ Raise
  BY <1>1, <1>9 DEF Duplicate, Raise, Rollback, TypeOK, InTransaction, Moves
<1> QED
  BY <1>3, <1>4, <1>5, <1>6, <1>7, <1>8, <1>9 DEF Next, Webhook

\* For any callers, keys, events and bounds: a committed order stays, and moves
\* only along the state machine of line 51.
THEOREM TransitionsHold == Spec => OnlyAllowedTransitions
<1> DEFINE Step == \A o \in DOMAIN CommittedOrders :
                     /\ o \in DOMAIN CommittedOrders'
                     /\ \/ CommittedOrders'[o] = CommittedOrders[o]
                        \/ <<CommittedOrders[o], CommittedOrders'[o]>> \in ALLOWED
<1>1. ASSUME TypeOK, RowsInv, TransactionInv, Next PROVE Step
  <2>1. Moves(Committed.orders, Committed'.orders)
    BY <1>1, CommittedMoves
  <2> QED
    BY <2>1 DEF Moves, CommittedOrders
<1>2. TypeOK /\ RowsInv /\ TransactionInv /\ [Next]_vars => [Step]_vars
  BY <1>1
<1> QED
  BY <1>2, TypeCorrect, RowsHold, TransactionHolds, PTL DEF Spec, OnlyAllowedTransitions

-----------------------------------------------------------------------------
(* Captures *)

\* The paid orders of some tables are those that some events capture.
Captured(es, o) ==
  \E e \in es : sent[e].kind = "paid" /\ sent[e].order = o /\ sent[e].matches
Paid(os, o) == o \in DOMAIN os /\ os[o].status = "paid"
Agree(os, es) == \A o \in Issued \ undone : Paid(os, o) <=> Captured(es, o)

\* Between the record of an event and the update it asks for, the orders agree
\* with the events before it.
AgreementInv ==
  /\ InTransaction => Agree(saved.orders, saved.events)
  /\ Agree(orders, IF wpc \in {"select", "update"} THEN saved.events ELSE events)

\* An order just issued is neither paid nor captured.
LEMMA PostAgreement ==
  ASSUME TypeOK, RowsInv, AgreementInv, Post PROVE AgreementInv'
<1> DEFINE es == IF wpc \in {"select", "update"} THEN saved.events ELSE events
<1>1. ASSUME NEW c \in Caller, NEW k \in Key, SelectKey(c, k) PROVE AgreementInv'
  <2>1. Issued' = Issued
    BY <1>1 DEF SelectKey, RowsInv, Issued, RowsOf
  <2> QED
    BY <1>1, <2>1 DEF SelectKey, AgreementInv, Agree, Captured, Paid, tables, webhook, InTransaction
<1>2. ASSUME NEW c \in Caller, NEW o \in OrderId, InsertOrder(c, o) PROVE AgreementInv'
  <2>1. /\ o \notin Issued
        /\ DOMAIN orders' = DOMAIN orders \cup {o} /\ orders'[o].status = "created"
        /\ \A p \in DOMAIN orders : orders'[p] = orders[p]
        /\ Issued' = Issued \cup {o}
        /\ UNCHANGED <<events, saved, wpc, sent, undone>>
    BY <1>2, InsertKeepsRows
  <2>2. ASSUME NEW fs \in SUBSET EventId PROVE ~ Captured(fs, o)
                                               /\ \A p : Captured(fs, p)' = Captured(fs, p)
    BY <2>1 DEF RowsInv, Captured, NotSent
  <2>3. es \subseteq EventId /\ (InTransaction => saved.events \subseteq EventId)
    BY DEF TypeOK
  <2>4. es' = es
    BY <2>1
  <2>5. InTransaction => o \notin DOMAIN saved.orders
    BY <2>1 DEF TypeOK, RowsInv
  <2>6. \A p \in Issued' : Paid(orders', p) <=> p # o /\ Paid(orders, p)
    BY <2>1 DEF Paid, RowsInv
  <2> HIDE DEF es
  <2>7. Agree(orders, es)'
    BY <2>1, <2>2, <2>3, <2>4, <2>6 DEF AgreementInv, Agree, es
  <2>8. InTransaction' => Agree(saved.orders, saved.events)'
    <3> SUFFICES ASSUME InTransaction, NEW p \in Issued' \ undone
                 PROVE  Paid(saved.orders, p) <=> Captured(saved.events, p)'
      BY <2>1 DEF Agree, InTransaction, Paid
    <3>1. CASE p = o
      <4>1. ~ Captured(saved.events, o)'
        BY <2>1, <2>2, <2>3
      <4>2. o \notin DOMAIN saved.orders
        BY <2>5
      <4> QED
        BY <3>1, <4>1, <4>2 DEF Paid
    <3>2. CASE p # o
      <4>1. p \in Issued \ undone
        BY <2>1, <3>2
      <4>2. Captured(saved.events, p)' <=> Captured(saved.events, p)
        BY <2>1, <2>2, <2>3
      <4> QED
        BY <4>1, <4>2 DEF AgreementInv, Agree
    <3> QED
      BY <3>1, <3>2
  <2> QED
    BY <2>7, <2>8 DEF AgreementInv, es
<1>3. ASSUME NEW c \in Caller, InsertConflict(c) PROVE AgreementInv'
  BY <1>3 DEF InsertConflict, AgreementInv, Agree, Captured, Paid, Issued, tables, webhook,
     outside, InTransaction
<1> QED
  BY <1>1, <1>2, <1>3 DEF Post

\* An event that was not sent yet is in no table.
LEMMA ProviderAgreement ==
  ASSUME TypeOK, RowsInv, TransactionInv, AgreementInv, NEW e \in EventId,
         Deliver(e) \/ \E payload \in Payload : Send(e, payload)
  PROVE  AgreementInv'
<1>1. CASE Deliver(e)
  BY <1>1 DEF Deliver, Goto, AgreementInv, Agree, Captured, Paid, Issued, tables, outside,
     InTransaction
<1>2. ASSUME NEW payload \in Payload, Send(e, payload) PROVE AgreementInv'
  <2>1. UNCHANGED <<orders, events, saved, wpc, undone, Issued>>
    BY <1>2 DEF Send, tables, webhook, Issued
  <2>2. \A d \in events : sent'[d] = sent[d]
    BY <1>2 DEF Send, TransactionInv, TypeOK
  <2>3. \A fs \in SUBSET events : \A o : Captured(fs, o)' <=> Captured(fs, o)
    BY <2>2 DEF Captured
  <2>4. InTransaction => saved.events \in SUBSET events
    BY DEF TypeOK
  <2>5. wpc \in {"select", "update"} => InTransaction
    BY DEF TypeOK
  <2>6. Agree(orders, IF wpc \in {"select", "update"} THEN saved.events ELSE events)'
    BY <2>1, <2>3, <2>4, <2>5 DEF AgreementInv, Agree, Paid
  <2>7. InTransaction' => Agree(saved.orders, saved.events)'
    BY <2>1, <2>3, <2>4 DEF AgreementInv, Agree, Paid, InTransaction
  <2> QED
    BY <2>6, <2>7 DEF AgreementInv
<1> QED
  BY <1>1, <1>2

\* The update catches up with the record, or the record asked for none.
LEMMA WebhookAgreement ==
  ASSUME TypeOK, RowsInv, TransactionInv, AgreementInv, Webhook \/ Raise
  PROVE  AgreementInv'
<1> USE DEF InTransaction, tables, outside, Goto
<1>1. CASE Begin
  BY <1>1 DEF Begin, AgreementInv, Agree, Captured, Paid, Issued
<1>2. CASE Record
  <2>1. /\ UNCHANGED <<orders, saved, undone, sent, Issued>>
        /\ InTransaction /\ events = saved.events /\ Agree(orders, events)
        /\ Agree(saved.orders, saved.events)
        /\ events' = events \cup {current}
        /\ wpc' = IF sent[current].kind = "ignored" THEN "commit" ELSE "select"
    BY <1>2 DEF Record, AgreementInv, TransactionInv, TypeOK, Issued
  <2>2. sent[current].kind = "ignored" => \A o : Captured(events', o) <=> Captured(events, o)
    BY <2>1 DEF Captured
  <2>3. Agree(saved.orders, saved.events)'
    BY <2>1 DEF Agree, Captured, Paid
  <2>4. CASE sent[current].kind = "ignored"
    <3>1. Agree(orders, events)'
      BY <2>1, <2>2, <2>4 DEF Agree, Captured, Paid
    <3> QED
      BY <2>1, <2>3, <2>4, <3>1 DEF AgreementInv
  <2>5. CASE sent[current].kind # "ignored"
    <3>1. Agree(orders, saved.events)'
      BY <2>1 DEF Agree, Captured, Paid
    <3> QED
      BY <2>1, <2>3, <2>5, <3>1 DEF AgreementInv
  <2> QED
    BY <2>4, <2>5
<1>3. CASE SelectOrder
  <2> DEFINE pay == sent[current]
  <2>1. /\ UNCHANGED <<orders, events, saved, undone, sent, Issued>>
        /\ InTransaction /\ events = saved.events \cup {current}
        /\ Agree(orders, saved.events) /\ Agree(saved.orders, saved.events)
        /\ pay.kind \in {"paid", "failed"} /\ pay.order \in Issued
    BY <1>3 DEF SelectOrder, AgreementInv, TransactionInv, RowsInv, TypeOK, Issued, NotSent
  <2>2. Agree(saved.orders, saved.events)' /\ Agree(orders, saved.events)'
    BY <2>1 DEF Agree, Captured, Paid
  <2>3. \A o \in Issued \ undone : o \in DOMAIN orders
    BY DEF RowsInv, Issued
  <2>4. CASE wpc' = "commit"
    <3>1. ASSUME pay.kind = "paid", pay.matches, pay.order \notin undone
          PROVE  Paid(orders, pay.order)
      <4>1. pay.order \in DOMAIN orders
            /\ orders[pay.order].status \in {"created", "paid", "failed"}
        BY <2>1, <2>3, <3>1 DEF TypeOK, Row
      <4>2. <<orders[pay.order].status, pay.kind>> \notin ALLOWED
        BY <1>3, <2>4, <3>1, <4>1 DEF SelectOrder
      <4> QED
        BY <3>1, <4>1, <4>2 DEF ALLOWED, Paid
    <3>2. \A o : Captured(events, o) <=>
            \/ Captured(saved.events, o)
            \/ pay.kind = "paid" /\ pay.order = o /\ pay.matches
      BY <2>1 DEF Captured
    <3>3. Agree(orders, events)
      BY <2>1, <3>1, <3>2 DEF Agree
    <3>4. Agree(orders, events)'
      BY <2>1, <3>3 DEF Agree, Captured, Paid
    <3> QED
      BY <2>2, <2>4, <3>4 DEF AgreementInv
  <2>5. CASE wpc' = "update"
    BY <2>2, <2>5 DEF AgreementInv
  <2> QED
    BY <1>3, <2>4, <2>5 DEF SelectOrder
<1>4. CASE UpdateOrder
  <2> DEFINE o == sent[current].order
             kind == sent[current].kind
  <2>1. /\ UNCHANGED <<events, saved, undone, sent, Issued>>
        /\ InTransaction /\ events = saved.events \cup {current}
        /\ Agree(orders, saved.events) /\ Agree(saved.orders, saved.events)
        /\ kind \in {"paid", "failed"} /\ o \in DOMAIN orders
        /\ sent[current].matches /\ <<orders[o].status, kind>> \in ALLOWED
    BY <1>4 DEF UpdateOrder, AgreementInv, TransactionInv, TypeOK, Issued
  <2>2. \A p : Paid(orders', p) <=> IF p = o THEN kind = "paid" ELSE Paid(orders, p)
    BY <1>4, <2>1 DEF UpdateOrder, Paid, TypeOK, Row
  <2>3. \A p : Captured(events, p) <=> Captured(saved.events, p) \/ (kind = "paid" /\ p = o)
    BY <2>1 DEF Captured
  <2>4. kind = "failed" => ~ Paid(orders, o)
    BY <2>1 DEF ALLOWED, Paid
  <2>5. Agree(orders', events)
    BY <2>1, <2>2, <2>3, <2>4 DEF Agree
  <2>6. Agree(orders, events)' /\ Agree(saved.orders, saved.events)'
    BY <2>1, <2>5 DEF Agree, Captured, Paid
  <2> QED
    BY <1>4, <2>6 DEF UpdateOrder, AgreementInv
<1>5. CASE Credit \/ Commit
  <2>1. /\ UNCHANGED <<orders, events, undone, sent, Issued>> /\ wpc' \in {"commit", "idle"}
        /\ InTransaction' => UNCHANGED saved
    BY <1>5 DEF Credit, Commit, Answer200, Issued
  <2>2. wpc \notin {"select", "update"} /\ (InTransaction' => InTransaction)
    BY <1>5 DEF Credit, Commit, TypeOK
  <2> QED
    BY <2>1, <2>2 DEF AgreementInv, Agree, Captured, Paid
<1>6. CASE Duplicate \/ Raise
  <2>1. /\ InTransaction /\ ~ InTransaction' /\ wpc' = "idle"
        /\ orders' = saved.orders /\ events' = saved.events
        /\ undone \subseteq undone' /\ UNCHANGED <<sent, Issued>>
    BY <1>6 DEF Duplicate, Raise, Rollback, Answer200, TypeOK, Issued
  <2> QED
    BY <2>1 DEF AgreementInv, Agree, Captured, Paid
<1> QED
  BY <1>1, <1>2, <1>3, <1>4, <1>5, <1>6 DEF Webhook

\* The layer of the captures.
THEOREM AgreementHolds == Spec => []AgreementInv
<1>1. Init => AgreementInv
  <2> SUFFICES ASSUME Init PROVE AgreementInv
    OBVIOUS
  <2>1. Issued = {} /\ ~ InTransaction
    BY DEF Init, Issued, InTransaction
  <2> QED
    BY <2>1 DEF AgreementInv, Agree
<1>2. AgreementInv /\ UNCHANGED vars => AgreementInv'
  BY DEF AgreementInv, Agree, Captured, Paid, Issued, vars, tables, webhook, outside, InTransaction
<1>3. TypeOK /\ RowsInv /\ TransactionInv /\ AgreementInv /\ [Next]_vars => AgreementInv'
  BY <1>2, PostAgreement, ProviderAgreement, WebhookAgreement DEF Next
<1> QED
  BY <1>1, <1>3, TypeCorrect, RowsHold, TransactionHolds, PTL DEF Spec

\* For any callers, keys, events and bounds: the paid orders in the database are
\* those a recorded event captured, whatever fails half-way or comes twice.
THEOREM PaidIffCapturedHolds == Spec => []PaidIffCaptured
<1>1. TypeOK /\ AgreementInv => PaidIffCaptured
  <2> SUFFICES ASSUME TypeOK, AgreementInv PROVE PaidIffCaptured
    OBVIOUS
  <2>1. Agree(Committed.orders, Committed.events)
    BY DEF TypeOK, AgreementInv, Committed
  <2> QED
    BY <2>1 DEF PaidIffCaptured, Agree, Captured, Paid, CommittedOrders
<1> QED
  BY <1>1, TypeCorrect, AgreementHolds, PTL

-----------------------------------------------------------------------------
(* Wallets *)

Total(os, u) == SumFunctionOnSet(CreditsOf(os), PaidBy(os, u))

\* What the handler has still to credit u with.
Due(u) ==
  IF wpc = "credit" /\ Payer(sent[current].order) = u
    THEN Credits(sent[current].order) ELSE 0

\* In the tables and in what ROLLBACK restores, wallets hold the paid orders'
\* credits, but for those due.
WalletInv ==
  \A u \in User :
    /\ InTransaction => saved.wallet[u] = Total(saved.orders, u)
    /\ wallet[u] + Due(u) = Total(orders, u)

\* The orders of a user are finitely many, each worth a natural.
LEMMA PaidRows ==
  ASSUME TypeOK, NEW u \in User
  PROVE  /\ PaidBy(orders, u) \subseteq DOMAIN orders /\ IsFiniteSet(DOMAIN orders)
         /\ IsFiniteSet(PaidBy(orders, u))
         /\ \A o \in DOMAIN orders : CreditsOf(orders)[o] = Credits(o) /\ Credits(o) \in Nat
<1>1. IsFiniteSet(OrderId)
  BY BoundsAssumption, FS_Interval DEF OrderId
<1>2. IsFiniteSet(DOMAIN orders)
  BY <1>1, FS_Subset DEF TypeOK
<1>3. PaidBy(orders, u) \subseteq DOMAIN orders
  BY DEF PaidBy
<1>4. ASSUME NEW o \in DOMAIN orders
      PROVE  CreditsOf(orders)[o] = Credits(o) /\ Credits(o) \in Nat
  <2>1. orders[o].key \in Key /\ Body[orders[o].key].amount \in Nat
    BY BodyAssumption DEF TypeOK, Row
  <2> QED
    BY <2>1 DEF CreditsOf, Credits
<1>5. IsFiniteSet(PaidBy(orders, u))
  BY <1>2, <1>3, FS_Subset
<1> QED
  BY <1>2, <1>3, <1>4, <1>5

\* What touches neither tables nor handler.
LEMMA SameWallet ==
  ASSUME WalletInv, UNCHANGED <<orders, wallet, saved, wpc, current, sent>> PROVE WalletInv'
BY ZenonT(30) DEF WalletInv, Total, PaidBy, CreditsOf, Due, Payer, Credits, InTransaction

\* A row more that is not paid changes no total.
LEMMA PostWallet == ASSUME TypeOK, RowsInv, WalletInv, Post PROVE WalletInv'
<1>1. ASSUME NEW c \in Caller, NEW o \in OrderId, InsertOrder(c, o) PROVE WalletInv'
  <2> SUFFICES ASSUME NEW u \in User
      PROVE  /\ InTransaction' => saved'.wallet[u] = Total(saved'.orders, u)
             /\ wallet'[u] + Due(u)' = Total(orders', u)
    BY DEF WalletInv, Total, PaidBy, CreditsOf
  <2>1. /\ o \notin DOMAIN orders
        /\ DOMAIN orders' = DOMAIN orders \cup {o} /\ orders'[o].status = "created"
        /\ \A p \in DOMAIN orders : orders'[p] = orders[p]
        /\ UNCHANGED <<wallet, saved, wpc, current, sent>>
    BY <1>1, InsertKeepsRows
  <2>2. PaidBy(orders', u) = PaidBy(orders, u)
    BY <2>1 DEF PaidBy
  <2>3. \A p \in PaidBy(orders, u) : CreditsOf(orders')[p] = CreditsOf(orders)[p]
    BY <2>1 DEF PaidBy, CreditsOf
  <2>4. Total(orders', u) = Total(orders, u)
    BY <2>2, <2>3, PaidRows, SumAgrees DEF Total
  <2>5. Due(u)' = Due(u)
    BY <2>1 DEF Due, Payer, Credits, TypeOK
  <2> QED
    BY <2>1, <2>4, <2>5 DEF WalletInv, InTransaction
<1> QED
  BY <1>1, SameWallet DEF Post, SelectKey, InsertConflict, tables, webhook, outside

\* The provider makes no credit due.
LEMMA ProviderWallet ==
  ASSUME TypeOK, WalletInv, NEW e \in EventId,
         Deliver(e) \/ \E payload \in Payload : Send(e, payload)
  PROVE  WalletInv'
<1>1. UNCHANGED <<orders, wallet, saved>>
  BY DEF Deliver, Send, tables
<1>2. \A u \in User : Due(u)' = Due(u)
  <2>1. CASE Deliver(e)
    BY <2>1 DEF Deliver, Goto, Due
  <2>2. ASSUME NEW payload \in Payload, Send(e, payload) PROVE \A u \in User : Due(u)' = Due(u)
    <3>1. UNCHANGED <<orders, wpc, current>> /\ (wpc # "idle" => sent'[current] = sent[current])
      BY <2>2, NotSentIsNoPayload DEF Send, TypeOK, tables, webhook
    <3> QED
      BY <3>1 DEF Due, Payer, Credits
  <2> QED
    BY <2>1, <2>2
<1> QED
  BY <1>1, <1>2 DEF WalletInv, Total, PaidBy, CreditsOf, InTransaction

\* UPDATE makes an order's credits due, once, and the credit pays them.
LEMMA WebhookWallet ==
  ASSUME TypeOK, RowsInv, TransactionInv, WalletInv, Webhook \/ Raise
  PROVE  WalletInv'
<1> SUFFICES ASSUME NEW u \in User
    PROVE  /\ InTransaction' => saved'.wallet[u] = Total(saved'.orders, u)
           /\ wallet'[u] + Due(u)' = Total(orders', u)
  BY DEF WalletInv, Total, PaidBy, CreditsOf
<1>1. /\ InTransaction => saved.wallet[u] = Total(saved.orders, u)
      /\ wallet[u] + Due(u) = Total(orders, u)
      /\ wallet[u] \in Nat
      /\ InTransaction => saved.wallet[u] \in Nat
  BY DEF WalletInv, TypeOK
<1> DEFINE o == sent[current].order
           kind == sent[current].kind
<1>2. CASE Begin
  <2>1. Due(u) = 0 /\ Due(u)' = 0 /\ UNCHANGED <<orders, wallet>>
        /\ saved'.orders = orders /\ saved'.wallet = wallet
    BY <1>2 DEF Begin, Due, Goto, tables
  <2> QED
    BY <1>1, <2>1
<1>3. CASE Record \/ SelectOrder
  <2>1. Due(u) = 0 /\ Due(u)' = 0 /\ UNCHANGED <<orders, wallet, saved>>
    BY <1>3 DEF Record, SelectOrder, Due, Goto, tables
  <2> QED
    BY <1>1, <2>1 DEF InTransaction
<1>4. CASE UpdateOrder
  <2>1. /\ o \in DOMAIN orders /\ kind \in {"paid", "failed"}
        /\ <<orders[o].status, kind>> \in ALLOWED
        /\ Due(u) = 0 /\ UNCHANGED <<wallet, saved, current, sent>>
        /\ wpc' = IF kind = "paid" THEN "credit" ELSE "commit"
    BY <1>4 DEF UpdateOrder, TypeOK, TransactionInv, Due, Goto, outside
  <2>2. /\ DOMAIN orders' = DOMAIN orders
        /\ \A p \in DOMAIN orders :
             /\ orders'[p].key = orders[p].key
             /\ orders'[p].status = IF p = o THEN kind ELSE orders[p].status
    <3>1. orders' = [orders EXCEPT ![o].status = kind] /\ orders \in [DOMAIN orders -> Row]
      BY <1>4 DEF UpdateOrder, TypeOK
    <3> HIDE DEF o, kind
    <3> QED
      BY <2>1, <3>1 DEF Row
  <2>3. orders[o].status # "paid"
    BY <2>1 DEF ALLOWED
  <2>4. Payer(o)' = Payer(o) /\ Credits(o)' = Credits(o)
    BY <2>1, <2>2 DEF Payer, Credits
  <2>5. \A p \in DOMAIN orders : CreditsOf(orders')[p] = CreditsOf(orders)[p]
    BY <2>2 DEF CreditsOf
  <2>6. IsFiniteSet(PaidBy(orders, u)) /\ PaidBy(orders, u) \subseteq DOMAIN orders
        /\ \A p \in DOMAIN orders : CreditsOf(orders)[p] = Credits(p) /\ Credits(p) \in Nat
    BY PaidRows
  <2>7. SumFunctionOnSet(CreditsOf(orders'), PaidBy(orders, u)) = Total(orders, u)
    BY <2>5, <2>6, SumAgrees DEF Total
  <2>8. CASE kind = "paid" /\ Payer(o) = u
    <3>1. PaidBy(orders', u) = PaidBy(orders, u) \cup {o} /\ o \notin PaidBy(orders, u)
      BY <2>1, <2>2, <2>3, <2>8 DEF PaidBy, Payer
    <3>2. Total(orders', u) = Total(orders, u) + Credits(o)
      <4> DEFINE f == CreditsOf(orders')
                 D == PaidBy(orders, u)
      <4>1. IsFiniteSet(D) /\ o \notin D /\ f[o] = Credits(o)
            /\ (\A p \in D \cup {o} : f[p] \in Int)
        BY <2>1, <2>5, <2>6, <3>1
      <4>2. SumFunctionOnSet(f, D) = Total(orders, u)
        BY <2>7
      <4> HIDE DEF f, D
      <4>3. SumFunctionOnSet(f, D \cup {o}) = SumFunctionOnSet(f, D) + f[o]
        BY <4>1, SumAdds
      <4> QED
        BY <3>1, <4>1, <4>2, <4>3 DEF Total, f, D
    <3>3. Due(u)' = Credits(o)
      BY <2>1, <2>4, <2>8 DEF Due
    <3> QED
      BY <1>1, <2>1, <3>2, <3>3 DEF InTransaction
  <2>9. CASE ~ (kind = "paid" /\ Payer(o) = u)
    <3>1. PaidBy(orders', u) = PaidBy(orders, u)
      BY <2>1, <2>2, <2>3, <2>9 DEF PaidBy, Payer
    <3>2. Due(u)' = 0
      BY <2>1, <2>4, <2>9 DEF Due
    <3> QED
      BY <1>1, <2>1, <2>7, <3>1, <3>2 DEF InTransaction, Total
  <2> QED
    BY <2>8, <2>9
<1>5. CASE Credit
  <2>1. UNCHANGED <<orders, saved>> /\ Due(u)' = 0 /\ o \in DOMAIN orders
        /\ wallet' = [wallet EXCEPT ![Payer(o)] = @ + Credits(o)]
    BY <1>5 DEF Credit, Goto, Due, TypeOK
  <2>2. Due(u) = IF Payer(o) = u THEN Credits(o) ELSE 0
    BY <1>5 DEF Credit, Goto, Due
  <2>3. wallet'[u] = wallet[u] + Due(u) /\ Due(u) \in Nat
    BY <1>1, <2>1, <2>2, PaidRows DEF TypeOK
  <2> QED
    BY <1>1, <2>1, <2>3 DEF InTransaction
<1>6. CASE Commit
  <2>1. Due(u) = 0 /\ Due(u)' = 0 /\ UNCHANGED <<orders, wallet>> /\ ~ InTransaction'
    BY <1>6 DEF Commit, Answer200, Due, InTransaction, tables
  <2> QED
    BY <1>1, <2>1
<1>7. CASE Duplicate \/ Raise
  <2>1. InTransaction /\ ~ InTransaction' /\ Due(u)' = 0
        /\ orders' = saved.orders /\ wallet' = saved.wallet
    BY <1>7 DEF Duplicate, Raise, Rollback, Answer200, TypeOK, Due, InTransaction
  <2> QED
    BY <1>1, <2>1
<1> QED
  BY <1>2, <1>3, <1>4, <1>5, <1>6, <1>7 DEF Webhook

\* The layer of the wallets.
THEOREM WalletHolds == Spec => []WalletInv
<1>1. Init => WalletInv
  <2> SUFFICES ASSUME Init, NEW u \in User
      PROVE  ~ InTransaction /\ wallet[u] + Due(u) = Total(orders, u)
    BY DEF WalletInv
  <2>1. PaidBy(orders, u) = {}
    BY DEF Init, PaidBy
  <2>2. Total(orders, u) = 0
    BY <2>1, SumOfNone DEF Total
  <2> QED
    BY <2>2 DEF Init, InTransaction, Due
<1>2. WalletInv /\ UNCHANGED vars => WalletInv'
  BY SameWallet DEF vars, tables, webhook, outside
<1>3. TypeOK /\ RowsInv /\ TransactionInv /\ WalletInv /\ [Next]_vars => WalletInv'
  BY <1>2, PostWallet, ProviderWallet, WebhookWallet DEF Next
<1> QED
  BY <1>1, <1>3, TypeCorrect, RowsHold, TransactionHolds, PTL DEF Spec

\* For any callers, keys, amounts, events and bounds: a user's credits are those
\* of their paid orders, each counted once.
THEOREM CreditsHold == Spec => []CreditsMatchPaidOrders
<1>1. TypeOK /\ WalletInv => CreditsMatchPaidOrders
  <2> SUFFICES ASSUME TypeOK, WalletInv, NEW u \in User
      PROVE  Committed.wallet[u] = Total(Committed.orders, u)
    BY DEF CreditsMatchPaidOrders, Total
  <2>1. CASE InTransaction
    BY <2>1 DEF WalletInv, Committed
  <2>2. CASE ~ InTransaction
    <3>1. Due(u) = 0 /\ wallet[u] \in Nat
      BY <2>2 DEF TypeOK, Due
    <3> QED
      BY <2>2, <3>1 DEF WalletInv, Committed
  <2> QED
    BY <2>1, <2>2
<1> QED
  BY <1>1, TypeCorrect, WalletHolds, PTL
=============================================================================
