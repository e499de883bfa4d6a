------------------------ MODULE DesignPatternsProofs -------------------------
(***************************************************************************)
(* The safety properties of the design patterns, for any number of callers,*)
(* commands, jobs, wallets and handlers.  The components share nothing, so *)
(* each has an inductive invariant of its own over its own variables, and  *)
(* a step of the whole is a step of one of them.                           *)
(*                                                                         *)
(* What an INSTANCE brings along from a library module (Queue!ToSet,       *)
(* Breaker!Cardinality) is to the prover another operator than the one of  *)
(* that name here: where both occur, a step says that they are the same.   *)
(***************************************************************************)
EXTENDS DesignPatterns, CollectionLemmas

\* The property is inductive by itself, once the status is one of the four.
SubscriptionInv ==
  /\ status \in Subscriptions!SubStatus
  /\ CancellationIsFinal

\* A sender has used no more attempts than it may and sent fewer messages than
\* attempts: that bounds "most".  A lead nobody was told or given an error
\* about is in the hands of a call that is still at it.
LeadsInv ==
  /\ channel \in Channel
  /\ sending \in [Client -> [lead : Lead \cup {"none"}, attempt : Nat, out : Nat]]
  /\ most \in 0 .. ATTEMPTS
  /\ assured \subseteq told
  /\ \A c \in Client : sending[c] # Leads!Nothing =>
       sending[c].attempt \in 1 .. ATTEMPTS /\ sending[c].out < sending[c].attempt
  /\ \A l \in contacted :
       l \in told \cup refused \/ \E c \in Client : sending[c] # Leads!Nothing /\ sending[c].lead = l

\* Those whose call in flight the outage wastes, and the failures that calls
\* which returned in it can have made the breaker forget.
Wasting == {c \in Caller : running[c] = "wasted"}
Forgiven == (MAX_FAILURES - 1) * early
Kind == {"no", "fine", "late", "wasted", "spent"}

\* While the service is down each wasted call is in flight, was cancelled or was
\* counted as a failure; those failures are fewer than MAX_FAILURES as long as
\* the breaker is closed, and that is what a success can make it forget.
BreakerInv ==
  /\ failures \in Nat /\ up \in BOOLEAN
  /\ wasted \in Nat /\ cancelled \in Nat /\ early \in Nat
  /\ running \in [Caller -> Kind]
  /\ up => wasted = 0 /\ Wasting = {}
  /\ wasted <= Cardinality(Wasting) + cancelled + Forgiven
                 + (IF failures < MAX_FAILURES THEN failures ELSE 0)

\* IsPrefix, element by element.
PrefixOf(s, t) == Len(s) <= Len(t) /\ \A i \in 1 .. Len(s) : s[i] = t[i]

\* The list that is walked is the history of subscriptions, the turn says how
\* far a publication is, and lists only grow.
BusInv ==
  /\ subscribed \in Seq(Listener) /\ handlers = subscribed
  /\ publication \in [Publication -> [at : {"new", "awaiting", "returned", "raised"}, turn : Nat \ {0}]]
  /\ got \in [Publication -> Seq(Listener)] /\ before \in [Publication -> Seq(Listener)]
  /\ \A p \in Publication :
       /\ Len(got[p]) = publication[p].turn - 1
       /\ PrefixOf(got[p], subscribed) /\ PrefixOf(before[p], subscribed)
       /\ publication[p].at = "new" => publication[p].turn = 1
       /\ publication[p].at = "awaiting" => publication[p].turn <= Len(subscribed)
       /\ publication[p].at = "returned" => publication[p].turn > Len(before[p])

\* Who has handled its job has entered it among the finished: then the
\* acknowledgement may take it off the list.
QueueInv ==
  /\ level \in {"basic", "safe"}
  /\ jobs \in Seq(Job) /\ stuck \in Seq(Job) /\ queued \subseteq Job
  /\ holding \in [Consumer -> [job : Job \cup {"none"}, handled : BOOLEAN]]
  /\ \A w \in Consumer : holding[w].handled => holding[w].job \in finished
  /\ \A j \in queued :
       \/ j \in ToSet(jobs) \cup ToSet(stuck) \cup finished
       \/ level = "basic" /\ (j \in died \/ \E w \in Consumer : holding[w].job = j)

\* The loops that have the key in hand.
HoldersOf(k) == {w \in Worker : handling[w] = k}

\* A key that is not done was never handled through, so whoever takes it up
\* adds to the first handling only those that hold it already.
CommandsInv ==
  /\ items \in Seq(Key) /\ done \subseteq Key /\ raised \subseteq Key
  /\ handling \in [Worker -> Key \cup {"none"}]
  /\ enqueued \in [Key -> Nat] /\ handled \in [Key -> Nat] /\ overlaps \in [Key -> Nat]
  /\ \A k \in Key :
       /\ k \notin done => handled[k] = 0
       /\ handled[k] + Cardinality(HoldersOf(k)) <= 1 + overlaps[k]
       /\ enqueued[k] > 0 => k \in ToSet(items) \cup done \cup raised \/ HoldersOf(k) # {}

\* The two writes of transfer().
Debited(balances, from, n) == [balances EXCEPT ![from] = @ - n]
Credited(balances, to, n) == [balances EXCEPT ![to] = @ + n]

\* What a unit has written so far is in its copy only: the table is what it
\* was when the unit began, and the copy at "commit" is both writes.
UnitInv ==
  /\ committed \in [Account -> Int] /\ booked = committed
  /\ taken \in [Account -> Nat] /\ \A a \in Account : committed[a] + taken[a] >= 0
  /\ SumFunction(committed) = BALANCE * Cardinality(Account)
  /\ transfer.at # "none" => transfer.amount \in Int
  /\ \/ transfer.at = "none"
     \/ transfer.at = "debit" /\ pending = committed
     \/ /\ transfer.at = "credit"
        /\ transfer.src \in Account /\ committed[transfer.src] >= transfer.amount
        /\ pending = Debited(committed, transfer.src, transfer.amount)
     \/ /\ transfer.at = "commit"
        /\ transfer.src \in Account /\ transfer.dst \in Account
        /\ committed[transfer.src] >= transfer.amount
        /\ pending = Credited(Debited(committed, transfer.src, transfer.amount),
                              transfer.dst, transfer.amount)

-----------------------------------------------------------------------------
\* Every event, allowed or not, keeps it.
LEMMA SubscriptionStep ==
  SubscriptionInv /\ (Subscriptions!Next \/ UNCHANGED subscription) => SubscriptionInv'
<1> SUFFICES ASSUME SubscriptionInv, Subscriptions!Next \/ UNCHANGED subscription
             PROVE  SubscriptionInv'
  OBVIOUS
<1> USE DEF SubscriptionInv, CancellationIsFinal, Subscriptions!CancellationIsFinal,
            Subscriptions!SubStatus
<1>1. ASSUME NEW e \in Subscriptions!SubStatus, Subscriptions!Emit(e)
      PROVE  SubscriptionInv'
  BY <1>1 DEF Subscriptions!Emit
<1>2. ASSUME NEW e \in Subscriptions!SubStatus, Subscriptions!Transition(e)
      PROVE  SubscriptionInv'
  BY <1>2 DEF Subscriptions!Transition, Subscriptions!ALLOWED
<1>3. CASE UNCHANGED subscription
  BY <1>3 DEF subscription
<1> QED
  BY <1>1, <1>2, <1>3 DEF Subscriptions!Next

-----------------------------------------------------------------------------
\* Every call, message, time-out and error keeps the notifier's invariant.
LEMMA LeadsStep ==
  LeadsInv /\ (Leads!Next \/ UNCHANGED leads) => LeadsInv'
<1> SUFFICES ASSUME LeadsInv, Leads!Next \/ UNCHANGED leads
             PROVE  LeadsInv'
  OBVIOUS
<1> USE LeadsAssumption DEF LeadsInv, Leads!Nothing
<1>1. ASSUME NEW c \in Client, Leads!NotFound(c)
      PROVE  LeadsInv'
  BY <1>1 DEF Leads!NotFound, Leads!Called
<1>2. ASSUME NEW c \in Client, NEW l \in Lead, Leads!MarkContacted(c, l)
      PROVE  LeadsInv'
  BY <1>2 DEF Leads!MarkContacted, Leads!Called
<1>3. ASSUME NEW c \in Client, NEW l \in Lead, Leads!MarkAndSend(c, l)
      PROVE  LeadsInv'
  BY <1>3 DEF Leads!MarkAndSend, Leads!Called
<1>4. ASSUME NEW c \in Client, Leads!Sent(c)
      PROVE  LeadsInv'
  BY <1>4 DEF Leads!Sent, Leads!Reaches, Leads!Return
<1>5. ASSUME NEW c \in Client, Leads!Breaks(c)
      PROVE  LeadsInv'
  BY <1>5 DEF Leads!Breaks, Leads!Reaches, Leads!Raise
<1>6. ASSUME NEW c \in Client, NEW out \in BOOLEAN, Leads!TimesOut(c, out)
      PROVE  LeadsInv'
  <2>1. CASE sending[c].attempt = ATTEMPTS
    BY <1>6, <2>1 DEF Leads!TimesOut, Leads!Reaches, Leads!Raise
  <2>2. CASE sending[c].attempt # ATTEMPTS
    BY <1>6, <2>2 DEF Leads!TimesOut, Leads!Reaches, Leads!Retry
  <2> QED
    BY <2>1, <2>2
<1>7. CASE UNCHANGED leads
  BY <1>7 DEF leads
<1> QED
  BY <1>1, <1>2, <1>3, <1>4, <1>5, <1>6, <1>7 DEF Leads!Next

-----------------------------------------------------------------------------
\* The wasting callers are finitely many, at most all.
LEMMA WastingCounted ==
  ASSUME running \in [Caller -> Kind]
  PROVE  /\ IsFiniteSet(Wasting)
         /\ Cardinality(Wasting) \in Nat
         /\ Cardinality(Wasting) <= Cardinality(Caller)
         /\ Wasting = {} <=> Cardinality(Wasting) = 0
BY BreakerAssumption, FS_Subset, FS_CardinalityType, FS_EmptySet DEF Wasting

\* What one more success adds to the failures forgotten.
LEMMA ForgivenCounted ==
  ASSUME NEW n \in Nat
  PROVE  /\ (MAX_FAILURES - 1) * n \in Nat
         /\ (MAX_FAILURES - 1) * (n + 1) = (MAX_FAILURES - 1) * n + (MAX_FAILURES - 1)
<1>1. PICK m \in Nat : m = MAX_FAILURES - 1
  BY BreakerAssumption
<1>2. m * n \in Nat /\ m * (n + 1) = m * n + m
  OBVIOUS
<1> QED
  BY <1>1, <1>2

\* Calls, failures, outages and the breaker's clock keep its invariant.
LEMMA BreakerStep ==
  BreakerInv /\ (Breaker!Next \/ UNCHANGED breaker) => BreakerInv'
<1> SUFFICES ASSUME BreakerInv, Breaker!Next \/ UNCHANGED breaker
             PROVE  BreakerInv'
  OBVIOUS
<1> DEFINE W == Cardinality(Wasting)
           Counted == IF failures < MAX_FAILURES THEN failures ELSE 0
<1>1. IsFiniteSet(Wasting) /\ W \in Nat /\ (Wasting = {} <=> W = 0)
  BY WastingCounted DEF BreakerInv
<1>2. /\ Forgiven \in Nat
      /\ early' = early => Forgiven' = Forgiven
      /\ early' = early + 1 => Forgiven' = Forgiven + (MAX_FAILURES - 1)
  BY ForgivenCounted DEF BreakerInv, Forgiven
<1>3. Counted \in 0 .. MAX_FAILURES - 1 /\ MAX_FAILURES \in Nat \ {0}
  BY BreakerAssumption DEF BreakerInv
<1>4. wasted <= W + cancelled + Forgiven + Counted
  BY DEF BreakerInv
<1>5. ASSUME NEW c \in Caller, running' = [running EXCEPT ![c] = "no"]
      PROVE  /\ Wasting' = Wasting \ {c}
             /\ Cardinality(Wasting') = IF running[c] = "wasted" THEN W - 1 ELSE W
             /\ running' \in [Caller -> Kind]
  <2>1. Wasting' = Wasting \ {c}
    BY <1>5 DEF Wasting, BreakerInv
  <2>2. c \in Wasting <=> running[c] = "wasted"
    BY DEF Wasting
  <2>3. running' \in [Caller -> Kind]
    BY <1>5 DEF BreakerInv, Kind
  <2> QED
    BY <1>1, <2>1, <2>2, <2>3, FS_RemoveElement
<1>6. ASSUME Breaker!Forget, Wasting' = {}, running' \in [Caller -> Kind],
             failures' \in Nat, up' \in BOOLEAN
      PROVE  BreakerInv'
  <2>1. Cardinality(Wasting') = 0
    BY <1>6, FS_EmptySet
  <2>2. Forgiven' = (MAX_FAILURES - 1) * 0
    BY <1>6 DEF Breaker!Forget, Forgiven
  <2>3. Forgiven' \in Nat
    BY <2>2, ForgivenCounted
  <2> QED
    BY <1>6, <2>1, <2>3, BreakerAssumption DEF Breaker!Forget, BreakerInv
<1>7. ASSUME NEW c \in Caller, Breaker!Call(c)
      PROVE  BreakerInv'
  <2>1. Wasting' = IF up THEN Wasting ELSE Wasting \cup {c}
    BY <1>7 DEF Breaker!Call, Wasting, BreakerInv
  <2>2. c \notin Wasting
    BY <1>7 DEF Breaker!Call, Wasting
  <2>3. Cardinality(Wasting') = IF up THEN W ELSE W + 1
    BY <1>1, <2>1, <2>2, FS_AddElement
  <2>4. running' \in [Caller -> Kind]
    BY <1>7 DEF Breaker!Call, BreakerInv, Kind
  <2>5. /\ wasted' = IF up THEN wasted ELSE wasted + 1
        /\ UNCHANGED <<failures, up, cancelled, early>>
    BY <1>7 DEF Breaker!Call
  <2>6. Forgiven' = Forgiven
    BY <1>2, <2>5
  <2> HIDE DEF W
  <2> QED
    BY <1>1, <1>2, <2>1, <2>3, <2>4, <2>5, <2>6, BreakerAssumption DEF BreakerInv, W
<1>8. ASSUME NEW c \in Caller, Breaker!Fails(c)
      PROVE  BreakerInv'
  <2>1. failures' \in Nat /\ UNCHANGED up
    BY <1>8 DEF Breaker!Fails, Breaker!OneMore, BreakerInv
  <2>2. CASE Breaker!Forget
             /\ running' = [d \in Caller |-> IF d = c THEN "no"
                            ELSE IF running[d] = "wasted" THEN "spent" ELSE running[d]]
    <3>1. Wasting' = {} /\ running' \in [Caller -> Kind]
      BY <2>2 DEF Wasting, BreakerInv, Kind
    <3> QED
      BY <1>6, <2>1, <2>2, <3>1 DEF BreakerInv
  <2>3. CASE ~ Breaker!Trips(Breaker!OneMore) /\ running' = [running EXCEPT ![c] = "no"]
             /\ UNCHANGED <<wasted, cancelled, early>>
    <3>1. failures \in Nat /\ failures' = failures + 1 /\ failures + 1 < MAX_FAILURES
      BY <1>8, <2>3, BreakerAssumption
      DEF Breaker!Fails, Breaker!OneMore, Breaker!Trips, BreakerInv
    <3>2. /\ Wasting' = Wasting \ {c} /\ running' \in [Caller -> Kind]
          /\ Cardinality(Wasting') = IF running[c] = "wasted" THEN W - 1 ELSE W
      BY <1>5, <2>3
    <3>3. running[c] = "wasted" => W > 0
      BY <1>1 DEF Wasting
    <3>4. Forgiven' = Forgiven
      BY <1>2, <2>3
    <3> HIDE DEF W
    <3> QED
      BY <1>1, <1>2, <2>1, <2>3, <3>1, <3>2, <3>3, <3>4, BreakerAssumption DEF BreakerInv, W
  <2> QED
    BY <1>8, <2>2, <2>3 DEF Breaker!Fails, Breaker!history
<1>9. ASSUME NEW c \in Caller, Breaker!Succeeds(c)
      PROVE  BreakerInv'
  <2>1. /\ running[c] # "wasted" /\ running' = [running EXCEPT ![c] = "no"] /\ failures' = 0
        /\ early' = IF up THEN early ELSE early + 1
        /\ UNCHANGED <<up, wasted, cancelled>>
    BY <1>9 DEF Breaker!Succeeds, Breaker!Returns
  <2>2. Wasting' = Wasting /\ Cardinality(Wasting') = W /\ running' \in [Caller -> Kind]
    BY <1>5, <2>1 DEF Wasting
  <2>3. CASE up
    <3>1. wasted = 0 /\ Wasting = {} /\ Forgiven' = Forgiven
      BY <1>2, <2>1, <2>3 DEF BreakerInv
    <3> QED
      BY <1>1, <1>2, <2>1, <2>2, <2>3, <3>1, BreakerAssumption DEF BreakerInv
  <2>4. CASE ~ up
    <3>1. early' = early + 1 /\ Forgiven' = Forgiven + (MAX_FAILURES - 1)
      BY <1>2, <2>1, <2>4
    <3>2. wasted' <= Cardinality(Wasting') + cancelled' + Forgiven'
      <4> HIDE DEF W, Counted
      <4> QED
        BY <1>1, <1>2, <1>3, <1>4, <2>1, <2>2, <3>1 DEF BreakerInv
    <3> QED
      BY <1>1, <1>2, <1>3, <2>1, <2>2, <2>4, <3>1, <3>2, BreakerAssumption DEF BreakerInv
  <2> QED
    BY <2>3, <2>4
<1>10. ASSUME NEW c \in Caller, Breaker!Cancel(c)
       PROVE  BreakerInv'
  <2>1. running[c] = "wasted" => W > 0
    BY <1>1 DEF Wasting
  <2>2. /\ running' = [running EXCEPT ![c] = "no"]
        /\ cancelled' = IF running[c] = "wasted" THEN cancelled + 1 ELSE cancelled
        /\ UNCHANGED <<failures, up, wasted, early>>
    BY <1>10 DEF Breaker!Cancel
  <2>3. /\ Wasting' = Wasting \ {c} /\ running' \in [Caller -> Kind]
        /\ Cardinality(Wasting') = IF running[c] = "wasted" THEN W - 1 ELSE W
    BY <1>5, <2>2
  <2>4. Forgiven' = Forgiven
    BY <1>2, <2>2
  <2> HIDE DEF W
  <2> QED
    BY <1>1, <1>2, <2>1, <2>2, <2>3, <2>4, BreakerAssumption DEF BreakerInv, W
<1>11. CASE Breaker!Outage
  BY <1>1, <1>2, <1>11 DEF Breaker!Outage, Breaker!history, BreakerInv, Wasting
<1>12. CASE Breaker!Recover
  <2>1. Wasting' = {} /\ running' \in [Caller -> Kind]
    BY <1>12 DEF Breaker!Recover, Wasting, Kind
  <2> QED
    BY <1>6, <1>12, <2>1 DEF Breaker!Recover, BreakerInv
<1>13. CASE Breaker!Tick \/ UNCHANGED breaker
  <2>1. UNCHANGED <<failures, running, up, wasted, cancelled, early>>
    BY <1>13 DEF Breaker!Tick, Breaker!history, breaker
  <2>2. Wasting' = Wasting /\ Forgiven' = Forgiven
    BY <1>2, <2>1 DEF Wasting
  <2> QED
    BY <2>1, <2>2 DEF BreakerInv
<1> QED
  BY <1>7, <1>8, <1>9, <1>10, <1>11, <1>12, <1>13 DEF Breaker!Next

-----------------------------------------------------------------------------
\* A prefix stays one when the list grows.
LEMMA PrefixesGrow ==
  ASSUME NEW S, NEW s \in Seq(S), NEW t \in Seq(S), NEW e \in S, PrefixOf(s, t)
  PROVE  PrefixOf(s, Append(t, e))
BY AppendProperties, LenProperties DEF PrefixOf

\* Subscribing, publishing and handling keep the bus's invariant.
LEMMA BusStep ==
  BusInv /\ (Bus!Next \/ UNCHANGED bus) => BusInv'
<1> SUFFICES ASSUME BusInv, Bus!Next \/ UNCHANGED bus
             PROVE  BusInv'
  OBVIOUS
<1>1. ASSUME NEW l \in Listener, Bus!Subscribe(l)
      PROVE  BusInv'
  <2>1. /\ subscribed' = Append(subscribed, l) /\ handlers' = Append(handlers, l)
        /\ UNCHANGED <<publication, before, got>>
    BY <1>1 DEF Bus!Subscribe, Bus!Subscription
  <2>2. subscribed' \in Seq(Listener) /\ Len(subscribed') = Len(subscribed) + 1
        /\ Len(subscribed) \in Nat
    BY <2>1, AppendProperties, LenProperties DEF BusInv
  <2>3. ASSUME NEW p \in Publication
        PROVE  PrefixOf(got[p], subscribed') /\ PrefixOf(before[p], subscribed')
    BY <2>1, PrefixesGrow DEF BusInv
  <2> QED
    BY <2>1, <2>2, <2>3 DEF BusInv
<1>2. ASSUME NEW p \in Publication, Bus!Publish(p)
      PROVE  BusInv'
  <2>1. Len(subscribed) \in Nat /\ PrefixOf(subscribed, subscribed)
    BY LenProperties DEF BusInv, PrefixOf
  <2> QED
    BY <1>2, <2>1 DEF Bus!Publish, Bus!Walk, BusInv
<1>3. ASSUME NEW p \in Publication, Bus!HandlerReturns(p)
      PROVE  BusInv'
  <2> DEFINE t == publication[p].turn
  <2>1. /\ t \in 1 .. Len(subscribed) /\ Len(subscribed) \in Nat
        /\ got[p] \in Seq(Listener) /\ Len(got[p]) = t - 1
        /\ subscribed[t] \in Listener
    BY <1>3, LenProperties DEF Bus!HandlerReturns, BusInv
  <2>2. got' = [got EXCEPT ![p] = Append(got[p], subscribed[t])]
    BY <1>3 DEF Bus!HandlerReturns, BusInv
  <2>3. /\ got'[p] \in Seq(Listener) /\ Len(got'[p]) = t
        /\ PrefixOf(got'[p], subscribed)
    BY <2>1, <2>2, AppendProperties DEF BusInv, PrefixOf
  <2>4. Len(before[p]) \in Nat /\ Len(before[p]) <= Len(subscribed)
    BY LenProperties DEF BusInv, PrefixOf
  <2>5. publication' = [publication EXCEPT ![p] =
          [at |-> IF t + 1 <= Len(subscribed) THEN "awaiting" ELSE "returned", turn |-> t + 1]]
    BY <1>3 DEF Bus!HandlerReturns, Bus!Walk, BusInv
  <2> HIDE DEF t
  <2>6. /\ UNCHANGED <<handlers, subscribed, before>>
        /\ publication' \in [Publication -> [at : {"new", "awaiting", "returned", "raised"},
                                             turn : Nat \ {0}]]
        /\ got' \in [Publication -> Seq(Listener)]
    BY <1>3, <2>1, <2>2, <2>3, <2>5 DEF Bus!HandlerReturns, BusInv
  <2> QED
    BY <2>1, <2>2, <2>3, <2>4, <2>5, <2>6 DEF BusInv
<1>4. ASSUME NEW p \in Publication, Bus!HandlerRaises(p)
      PROVE  BusInv'
  BY <1>4 DEF Bus!HandlerRaises, BusInv
<1>5. CASE UNCHANGED bus
  BY <1>5 DEF bus, BusInv
<1> QED
  BY <1>1, <1>2, <1>3, <1>4, <1>5 DEF Bus!Next

-----------------------------------------------------------------------------
\* The operators the instance brings are those known here.
LEMMA QueueLists ==
  ASSUME NEW s, NEW e
  PROVE  /\ Queue!ToSet(s) = ToSet(s) /\ Queue!Front(s) = Front(s) /\ Queue!Last(s) = Last(s)
         /\ Queue!RemoveFirst(s, e) = RemoveFirst(s, e)
<1>1. Queue!ToSet(s) = ToSet(s) /\ Queue!Front(s) = Front(s) /\ Queue!Last(s) = Last(s)
  BY DEF Queue!ToSet, ToSet, Queue!Front, Front, Queue!Last, Last
<1>2. Queue!RemoveFirst(s, e) = RemoveFirst(s, e)
  BY DEF Queue!RemoveFirst, RemoveFirst, Queue!RemoveAt, RemoveAt, Queue!RemoveFirstMatch, RemoveFirstMatch, Queue!SelectInSeq, SelectInSeq, Queue!Min, Min
<1> QED
  BY <1>1, <1>2

\* Enqueueing, working, dying and recovering keep the queue's invariant.
LEMMA QueueStep ==
  QueueInv /\ (Queue!Next \/ UNCHANGED queue) => QueueInv'
<1> SUFFICES ASSUME QueueInv, Queue!Next \/ UNCHANGED queue
             PROVE  QueueInv'
  OBVIOUS
<1> USE QueueAssumption DEF QueueInv, Queue!Empty
<1>1. ASSUME NEW j \in Job, Queue!Put(j)
      PROVE  QueueInv'
  <2>1. jobs' \in Seq(Job) /\ ToSet(jobs') = {j} \cup ToSet(jobs)
    BY <1>1, PushLeft DEF Queue!Put
  <2> QED
    BY <1>1, <2>1 DEF Queue!Put
<1>2. ASSUME NEW e \in Job, Queue!Recover(e)
      PROVE  QueueInv'
  <2>1. e = Last(stuck) /\ stuck' = Front(stuck) /\ jobs' = Append(jobs, e) /\ stuck # <<>>
    BY <1>2, QueueLists DEF Queue!Recover
  <2>2. stuck' \in Seq(Job) /\ ToSet(stuck) = {e} \cup ToSet(stuck')
    BY <2>1, PopRight
  <2>3. jobs' \in Seq(Job) /\ ToSet(jobs') = ToSet(jobs) \cup {e}
    BY <2>1, PushRight
  <2> QED
    BY <1>2, <2>2, <2>3 DEF Queue!Recover
<1>3. ASSUME NEW w \in Consumer, Queue!Take(w)
      PROVE  QueueInv'
  <2> DEFINE e == Last(jobs)
  <2>1. /\ jobs # <<>> /\ jobs' = Front(jobs)
        /\ stuck' = IF level = "safe" THEN <<e>> \o stuck ELSE stuck
        /\ holding' = [holding EXCEPT ![w].job = e]
        /\ holding[w] = [job |-> "none", handled |-> FALSE]
        /\ UNCHANGED <<level, queued, finished, died>>
    BY <1>3, QueueLists DEF Queue!Take
  <2>2. e \in Job /\ jobs' \in Seq(Job) /\ ToSet(jobs) = {e} \cup ToSet(jobs')
    BY <2>1, PopRight
  <2>3. /\ stuck' \in Seq(Job)
        /\ ToSet(stuck') = IF level = "safe" THEN {e} \cup ToSet(stuck) ELSE ToSet(stuck)
    BY <2>1, <2>2, PushLeft
  <2> HIDE DEF e
  <2>4. /\ holding' \in [Consumer -> [job : Job \cup {"none"}, handled : BOOLEAN]]
        /\ \A v \in Consumer : holding'[v].handled => holding'[v].job \in finished'
    <3> DEFINE r == [holding[w] EXCEPT !.job = e]
    <3>1. r \in [job : Job \cup {"none"}, handled : BOOLEAN] /\ r.handled = holding[w].handled
      BY <2>2
    <3>2. holding' = [holding EXCEPT ![w] = r] /\ ~ holding[w].handled
      BY <2>1
    <3> HIDE DEF r
    <3> QED
      BY <2>1, <3>1, <3>2
  <2>5. ASSUME NEW j \in queued'
        PROVE  \/ j \in ToSet(jobs') \cup ToSet(stuck') \cup finished'
               \/ level' = "basic" /\ (j \in died' \/ \E v \in Consumer : holding'[v].job = j)
    <3>1. CASE j = e
      <4>1. holding'[w].job = e
        BY <2>1
      <4> QED
        BY <2>1, <2>3, <3>1, <4>1
    <3>2. CASE j # e
      <4>1. ASSUME NEW v \in Consumer, holding[v].job = j
            PROVE  holding'[v].job = j
        BY <2>1, <4>1
      <4> QED
        BY <2>1, <2>2, <2>3, <3>2, <4>1
    <3> QED
      BY <3>1, <3>2
  <2> QED
    BY <2>1, <2>2, <2>3, <2>4, <2>5
<1>4. ASSUME NEW w \in Consumer, Queue!Handle(w)
      PROVE  QueueInv'
  BY <1>4 DEF Queue!Handle
<1>5. ASSUME NEW w \in Consumer, Queue!Ack(w)
      PROVE  QueueInv'
  <2>1. stuck' = IF holding[w].job \in ToSet(stuck)
                 THEN RemoveFirst(stuck, holding[w].job) ELSE stuck
    BY <1>5, QueueLists DEF Queue!Ack
  <2>2. /\ stuck' \in Seq(Job)
        /\ ToSet(stuck) \ {holding[w].job} \subseteq ToSet(stuck')
    BY <2>1, RemoveOne
  <2> QED
    BY <1>5, <2>2 DEF Queue!Ack
<1>6. ASSUME NEW w \in Consumer, Queue!Die(w)
      PROVE  QueueInv'
  BY <1>6 DEF Queue!Die
<1>7. CASE UNCHANGED queue
  BY <1>7 DEF queue
<1> QED
  BY <1>1, <1>2, <1>3, <1>4, <1>5, <1>6, <1>7 DEF Queue!Next

-----------------------------------------------------------------------------
\* The holders are finitely many.
LEMMA HoldersCounted ==
  ASSUME NEW k
  PROVE  IsFiniteSet(HoldersOf(k)) /\ Cardinality(HoldersOf(k)) \in Nat
BY CommandsAssumption, FS_Subset, FS_CardinalityType DEF HoldersOf

\* The component's names for them.
LEMMA HoldersNamed ==
  ASSUME NEW k
  PROVE  /\ Commands!Holders(k) = HoldersOf(k)
         /\ Commands!Cardinality(HoldersOf(k)) = Cardinality(HoldersOf(k))
<1>1. Commands!Holders(k) = HoldersOf(k)
  BY DEF Commands!Holders, HoldersOf
<1>2. ASSUME NEW S PROVE Commands!Cardinality(S) = Cardinality(S)
  BY DEF Commands!Cardinality, Cardinality
<1> QED
  BY <1>1, <1>2

\* The loops and those that enqueue keep the command queue's invariant.
LEMMA CommandsStep ==
  CommandsInv /\ (Commands!Next \/ UNCHANGED commands) => CommandsInv'
<1> SUFFICES ASSUME CommandsInv, Commands!Next \/ UNCHANGED commands
             PROVE  CommandsInv'
  OBVIOUS
<1>1. ASSUME NEW k \in Key, Commands!Enqueue(k)
      PROVE  CommandsInv'
  <2>1. items' \in Seq(Key) /\ ToSet(items') = ToSet(items) \cup {k}
    BY <1>1, PushRight DEF Commands!Enqueue, CommandsInv
  <2>2. \A j : HoldersOf(j)' = HoldersOf(j)
    BY <1>1 DEF Commands!Enqueue, HoldersOf
  <2> QED
    BY <1>1, <2>1, <2>2 DEF Commands!Enqueue, CommandsInv
<1>2. ASSUME NEW w \in Worker, Commands!Pop(w)
      PROVE  CommandsInv'
  <2> PICK k : k = Head(items)
    OBVIOUS
  <2>1. /\ k \in Key /\ items' \in Seq(Key) /\ ToSet(items) = {k} \cup ToSet(items')
    BY <1>2, PopLeft DEF Commands!Pop, CommandsInv
  <2>2. UNCHANGED <<done, enqueued, handled, raised>> /\ handling[w] = "none"
    BY <1>2 DEF Commands!Pop, Commands!Nobody
  <2>3. CASE k \in done /\ UNCHANGED <<handling, overlaps>>
    <3>1. \A j : HoldersOf(j)' = HoldersOf(j)
      BY <2>3 DEF HoldersOf
    <3> QED
      BY <2>1, <2>2, <2>3, <3>1 DEF CommandsInv
  <2>4. CASE /\ k \notin done
             /\ handling' = [handling EXCEPT ![w] = k]
             /\ overlaps' = [overlaps EXCEPT ![k] = @ + Cardinality(HoldersOf(k))]
    <3>1. HoldersOf(k)' = HoldersOf(k) \cup {w} /\ w \notin HoldersOf(k)
      BY <2>1, <2>2, <2>4, CommandsAssumption DEF HoldersOf, CommandsInv
    <3>2. \A j \in Key \ {k} : HoldersOf(j)' = HoldersOf(j)
      BY <2>1, <2>2, <2>4, CommandsAssumption DEF HoldersOf, CommandsInv
    <3>3. Cardinality(HoldersOf(k)') = Cardinality(HoldersOf(k)) + 1
      BY <3>1, HoldersCounted, FS_AddElement
    <3>4. /\ overlaps' \in [Key -> Nat]
          /\ overlaps'[k] = overlaps[k] + Cardinality(HoldersOf(k))
          /\ \A j \in Key \ {k} : overlaps'[j] = overlaps[j]
      BY <2>1, <2>4, HoldersCounted, SMTT(30) DEF CommandsInv
    <3>5. handling' \in [Worker -> Key \cup {"none"}]
      BY <2>1, <2>4 DEF CommandsInv
    <3>6. handled[k] = 0
      BY <2>1, <2>4 DEF CommandsInv
    <3>7. ASSUME NEW j \in Key
          PROVE  /\ handled'[j] + Cardinality(HoldersOf(j)') <= 1 + overlaps'[j]
                 /\ enqueued'[j] > 0 =>
                      j \in ToSet(items') \cup done' \cup raised' \/ HoldersOf(j)' # {}
      <4>1. CASE j = k
        <5>1. /\ handled'[k] = 0 /\ HoldersOf(k)' # {}
              /\ Cardinality(HoldersOf(k)) \in Nat /\ overlaps[k] \in Nat
          BY <2>1, <2>2, <3>1, <3>6, HoldersCounted DEF CommandsInv
        <5>2. handled'[k] + Cardinality(HoldersOf(k)') <= 1 + overlaps'[k]
          BY <3>3, <3>4, <5>1
        <5> QED
          BY <4>1, <5>1, <5>2
      <4>2. CASE j # k
        BY <2>1, <2>2, <3>2, <3>4, <4>2 DEF CommandsInv
      <4> QED
        BY <4>1, <4>2
    <3> QED
      BY <2>1, <2>2, <3>4, <3>5, <3>7 DEF CommandsInv
  <2> QED
    BY <1>2, <2>3, <2>4, HoldersNamed DEF Commands!Pop
<1>3. ASSUME NEW w \in Worker, NEW k \in Key, k = handling[w],
             handling' = [handling EXCEPT ![w] = "none"]
      PROVE  /\ handling' \in [Worker -> Key \cup {"none"}]
             /\ HoldersOf(k)' = HoldersOf(k) \ {w}
             /\ Cardinality(HoldersOf(k)') = Cardinality(HoldersOf(k)) - 1
             /\ \A j \in Key \ {k} : HoldersOf(j)' = HoldersOf(j)
  <2>1. handling' \in [Worker -> Key \cup {"none"}]
    BY <1>3 DEF CommandsInv
  <2>2. HoldersOf(k)' = HoldersOf(k) \ {w} /\ w \in HoldersOf(k)
    BY <1>3, <2>1, CommandsAssumption DEF HoldersOf, CommandsInv
  <2>3. \A j \in Key \ {k} : HoldersOf(j)' = HoldersOf(j)
    BY <1>3, <2>1, CommandsAssumption DEF HoldersOf, CommandsInv
  <2>4. Cardinality(HoldersOf(k)') = Cardinality(HoldersOf(k)) - 1
    BY <2>2, HoldersCounted, FS_RemoveElement
  <2> QED
    BY <2>1, <2>2, <2>3, <2>4
<1>4. ASSUME NEW w \in Worker, Commands!Handled(w)
      PROVE  CommandsInv'
  <2>1. PICK k \in Key : k = handling[w]
    BY <1>4 DEF Commands!Handled, Commands!Nobody, CommandsInv
  <2>2. /\ handling' = [handling EXCEPT ![w] = "none"]
        /\ handled' = [handled EXCEPT ![k] = @ + 1] /\ done' = done \cup {k}
        /\ UNCHANGED <<items, enqueued, overlaps, raised>>
    BY <1>4, <2>1 DEF Commands!Handled, Commands!Nobody
  <2>3. /\ handling' \in [Worker -> Key \cup {"none"}]
        /\ Cardinality(HoldersOf(k)') = Cardinality(HoldersOf(k)) - 1
        /\ \A j \in Key \ {k} : HoldersOf(j)' = HoldersOf(j)
    BY <1>3, <2>1, <2>2
  <2>4. ASSUME NEW j \in Key
        PROVE  /\ j \notin done' => handled'[j] = 0
               /\ handled'[j] + Cardinality(HoldersOf(j)') <= 1 + overlaps'[j]
               /\ enqueued'[j] > 0 =>
                    j \in ToSet(items') \cup done' \cup raised' \/ HoldersOf(j)' # {}
    <3>1. CASE j = k
      <4>1. handled'[k] = handled[k] + 1 /\ handled[k] \in Nat /\ overlaps[k] \in Nat
        BY <2>2, <2>3 DEF CommandsInv
      <4> QED
        BY <2>2, <2>3, <3>1, <4>1, HoldersCounted DEF CommandsInv
    <3>2. CASE j # k
      BY <2>2, <2>3, <3>2 DEF CommandsInv
    <3> QED
      BY <3>1, <3>2
  <2>5. items' \in Seq(Key) /\ done' \subseteq Key /\ raised' \subseteq Key /\ enqueued' \in [Key -> Nat]
        /\ handled' \in [Key -> Nat] /\ overlaps' \in [Key -> Nat]
    BY <2>2 DEF CommandsInv
  <2> QED
    BY <2>3, <2>4, <2>5 DEF CommandsInv
<1>5. ASSUME NEW w \in Worker, Commands!Raise(w)
      PROVE  CommandsInv'
  <2>1. PICK k \in Key : k = handling[w]
    BY <1>5 DEF Commands!Raise, Commands!Nobody, CommandsInv
  <2>2. /\ handling' = [handling EXCEPT ![w] = "none"]
        /\ raised' = raised \cup {k}
        /\ UNCHANGED <<items, done, enqueued, handled, overlaps>>
    BY <1>5, <2>1 DEF Commands!Raise, Commands!Nobody
  <2>3. /\ handling' \in [Worker -> Key \cup {"none"}]
        /\ Cardinality(HoldersOf(k)') = Cardinality(HoldersOf(k)) - 1
        /\ \A j \in Key \ {k} : HoldersOf(j)' = HoldersOf(j)
    BY <1>3, <2>1, <2>2
  <2>4. ASSUME NEW j \in Key
        PROVE  /\ handled'[j] + Cardinality(HoldersOf(j)') <= 1 + overlaps'[j]
               /\ enqueued'[j] > 0 =>
                    j \in ToSet(items') \cup done' \cup raised' \/ HoldersOf(j)' # {}
    <3>1. CASE j = k
      BY <2>2, <2>3, <3>1, HoldersCounted DEF CommandsInv
    <3>2. CASE j # k
      BY <2>2, <2>3, <3>2 DEF CommandsInv
    <3> QED
      BY <3>1, <3>2
  <2> QED
    BY <2>2, <2>3, <2>4 DEF CommandsInv
<1>6. CASE UNCHANGED commands
  <2>1. \A j : HoldersOf(j)' = HoldersOf(j)
    BY <1>6 DEF commands, HoldersOf
  <2> QED
    BY <1>6, <2>1 DEF commands, CommandsInv
<1> QED
  BY <1>1, <1>2, <1>4, <1>5, <1>6 DEF Commands!Next

-----------------------------------------------------------------------------
\* Both writes of a transfer together move money and make none, also from a
\* wallet to itself.
LEMMA TransferKeepsSum ==
  ASSUME NEW f \in [Account -> Int], NEW from \in Account, NEW to \in Account, NEW n \in Int
  PROVE  /\ Credited(Debited(f, from, n), to, n) \in [Account -> Int]
         /\ SumFunction(Credited(Debited(f, from, n), to, n)) = SumFunction(f)
<1> DEFINE g == Debited(f, from, n)
           h == Credited(g, to, n)
<1>1. g \in [Account -> Int] /\ g[from] = f[from] - n /\ \A a \in Account \ {from} : g[a] = f[a]
  BY DEF Debited
<1> HIDE DEF g
<1>2. h \in [Account -> Int] /\ h[to] = g[to] + n /\ \A a \in Account \ {to} : h[a] = g[a]
  BY <1>1 DEF Credited
<1> HIDE DEF h
<1>3. IsFiniteSet(Account)
  BY UnitAssumption
<1>4. ASSUME NEW p \in [Account -> Int], NEW q \in [Account -> Int], NEW x \in Account,
             \A y \in Account \ {x} : p[y] = q[y]
      PROVE  /\ SumFunctionOnSet(p, Account) \in Int
             /\ SumFunctionOnSet(q, Account) = SumFunctionOnSet(p, Account) + (q[x] - p[x])
  <2>1. \A y \in Account : p[y] \in Int /\ q[y] \in Int
    BY <1>4
  <2>2. SumFunctionOnSet(p, Account) \in Int
    BY <1>3, <2>1, SumType
  <2> QED
    BY <1>3, <1>4, <2>1, <2>2, SumGains
<1>5. /\ SumFunctionOnSet(f, Account) \in Int
      /\ SumFunctionOnSet(g, Account) = SumFunctionOnSet(f, Account) + (g[from] - f[from])
  BY <1>1, <1>4
<1>6. SumFunctionOnSet(h, Account) = SumFunctionOnSet(g, Account) + (h[to] - g[to])
  BY <1>1, <1>2, <1>4
<1>7. SumFunction(f) = SumFunctionOnSet(f, Account) /\ SumFunction(h) = SumFunctionOnSet(h, Account)
  BY <1>2 DEF SumFunction
<1>8. f[from] \in Int /\ g[to] \in Int
  BY <1>1
<1>9. SumFunction(h) = SumFunction(f)
  BY <1>1, <1>2, <1>5, <1>6, <1>7, <1>8
<1> QED
  BY <1>2, <1>9 DEF g, h

\* Each line of a transfer, and whatever raises in it, keeps the invariant.
LEMMA UnitStep ==
  UnitInv /\ (Units!Next \/ UNCHANGED unit) => UnitInv'
<1> SUFFICES ASSUME UnitInv, Units!Next \/ UNCHANGED unit
             PROVE  UnitInv'
  OBVIOUS
<1> USE DEF Units!At, Units!WritesCopy, Units!NoCall
<1>1. ASSUME NEW src, NEW dst, NEW n \in Amount, Units!Enter(src, dst, n)
      PROVE  UnitInv'
  BY <1>1, UnitAssumption DEF Units!Enter, UnitInv
<1>2. CASE Units!Debit
  <2>1. /\ transfer.at = "debit" /\ pending = committed
        /\ transfer.src \in Account /\ committed[transfer.src] >= transfer.amount
        /\ pending' = Debited(committed, transfer.src, transfer.amount)
    BY <1>2 DEF Units!Debit, UnitInv, Debited
  <2>2. /\ transfer'.at = "credit" /\ transfer'.src = transfer.src
        /\ transfer'.amount = transfer.amount
        /\ UNCHANGED <<committed, booked, taken>>
    BY <1>2 DEF Units!Debit, Units!Goto, UnitInv
  <2> QED
    BY <2>1, <2>2 DEF UnitInv
<1>3. CASE Units!Credit
  BY <1>3 DEF Units!Credit, Units!Goto, UnitInv, Credited
<1>4. CASE Units!Commit
  <2> DEFINE moved == Credited(Debited(committed, transfer.src, transfer.amount),
                              transfer.dst, transfer.amount)
  <2>1. /\ transfer.src \in Account /\ transfer.dst \in Account /\ transfer.amount \in Int
        /\ transfer.amount <= committed[transfer.src] /\ committed \in [Account -> Int]
        /\ pending = moved
    BY <1>4 DEF Units!Commit, UnitInv
  <2>2. committed' = moved /\ booked' = moved /\ transfer'.at = "none"
    BY <1>4, <2>1 DEF Units!Commit, UnitInv, Credited, Debited
  <2>3. moved \in [Account -> Int] /\ SumFunction(moved) = SumFunction(committed)
    BY <2>1, TransferKeepsSum, SMTT(30)
  <2>4. /\ taken \in [Account -> Nat] /\ taken' \in [Account -> Nat]
        /\ \A a \in Account : committed[a] + taken[a] >= 0
        /\ taken' = [taken EXCEPT ![transfer.dst] = @ + Units!Loss(transfer.amount)]
    BY <1>4, <2>1 DEF Units!Commit, Units!Loss, UnitInv
  <2>5. ASSUME NEW a \in Account
        PROVE  moved[a] + taken'[a] >= 0
    <3>1. moved[a] = committed[a] - (IF a = transfer.src THEN transfer.amount ELSE 0)
                                  + (IF a = transfer.dst THEN transfer.amount ELSE 0)
      BY <2>1 DEF Credited, Debited
    <3>2. taken'[a] = taken[a] + (IF a = transfer.dst /\ transfer.amount < 0
                                  THEN -transfer.amount ELSE 0)
      BY <2>1, <2>4 DEF Units!Loss
    <3>3. /\ committed[a] \in Int /\ taken[a] \in Nat /\ committed[a] + taken[a] >= 0
          /\ a = transfer.src => committed[a] >= transfer.amount
      BY <2>1, <2>4
    <3> QED
      BY <2>1, <3>1, <3>2, <3>3
  <2> HIDE DEF moved
  <2> QED
    BY <2>2, <2>3, <2>4, <2>5 DEF UnitInv
<1>5. CASE Units!Raise
  BY <1>5 DEF Units!Raise, UnitInv
<1>6. CASE UNCHANGED unit
  BY <1>6 DEF unit, UnitInv
<1> QED
  BY <1>1, <1>2, <1>3, <1>4, <1>5, <1>6 DEF Units!Next

-----------------------------------------------------------------------------
\* The components side by side.
PatternsInv ==
  SubscriptionInv /\ LeadsInv /\ BreakerInv /\ BusInv /\ QueueInv /\ CommandsInv /\ UnitInv

\* It holds at the start, whichever component the behaviour is about.
LEMMA InitHolds == Init => PatternsInv
<1> SUFFICES ASSUME Init PROVE PatternsInv
  OBVIOUS
<1> USE DEF Init
<1>1. SubscriptionInv
  BY DEF Subscriptions!Init, SubscriptionInv, CancellationIsFinal,
         Subscriptions!CancellationIsFinal, Subscriptions!SubStatus
<1>2. LeadsInv
  BY LeadsAssumption DEF Leads!Init, LeadsInv, Leads!Nothing
<1>3. BreakerInv
  <2>1. Wasting = {}
    BY DEF Breaker!Init, Wasting
  <2>2. early = 0 /\ Forgiven = (MAX_FAILURES - 1) * 0
    BY DEF Breaker!Init, Forgiven
  <2>3. Forgiven \in Nat
    BY <2>2, ForgivenCounted
  <2> QED
    BY <2>1, <2>2, <2>3, FS_EmptySet, BreakerAssumption DEF Breaker!Init, BreakerInv, Kind
<1>4. BusInv
  BY DEF Bus!Init, BusInv, PrefixOf
<1>5. QueueInv
  BY QueueAssumption DEF Queue!Init, Queue!Empty, QueueInv
<1>6. CommandsInv
  <2>1. \A k \in Key : HoldersOf(k) = {}
    BY CommandsAssumption DEF Commands!Init, Commands!Nobody, HoldersOf
  <2> QED
    <3>1. \A k \in Key : Cardinality(HoldersOf(k)) = 0
      BY <2>1, FS_EmptySet
    <3>2. /\ items \in Seq(Key) /\ done \subseteq Key /\ raised \subseteq Key
          /\ handling \in [Worker -> Key \cup {"none"}]
          /\ enqueued \in [Key -> Nat] /\ handled \in [Key -> Nat] /\ overlaps \in [Key -> Nat]
      BY DEF Commands!Init, Commands!Nobody
    <3>3. \A k \in Key : enqueued[k] = 0 /\ handled[k] = 0 /\ overlaps[k] = 0
      BY DEF Commands!Init
    <3> QED
      BY <3>1, <3>2, <3>3 DEF CommandsInv
<1>7. UnitInv
  <2>1. \A a \in Account : committed[a] = BALANCE
    BY DEF Units!Init
  <2>2. DOMAIN committed = Account
    BY DEF Units!Init
  <2>3. SumFunction(committed) = BALANCE * Cardinality(Account)
    BY <2>1, <2>2, UnitAssumption, SumOfEqual DEF SumFunction
  <2> QED
    BY <2>3, UnitAssumption DEF Units!Init, Units!NoCall, UnitInv
<1> QED
  BY <1>1, <1>2, <1>3, <1>4, <1>5, <1>6, <1>7 DEF PatternsInv

\* A step of the whole is a step of each component or leaves it alone.
LEMMA OneAtATime ==
  [Next]_vars =>
    /\ Subscriptions!Next \/ UNCHANGED subscription
    /\ Leads!Next \/ UNCHANGED leads
    /\ Breaker!Next \/ UNCHANGED breaker
    /\ Bus!Next \/ UNCHANGED bus
    /\ Queue!Next \/ UNCHANGED queue
    /\ Commands!Next \/ UNCHANGED commands
    /\ Units!Next \/ UNCHANGED unit
BY DEF Next, vars, others

\* So it holds always.
LEMMA InvHolds == FairSpec => []PatternsInv
<1>1. Init => PatternsInv
  BY InitHolds
<1>2. PatternsInv /\ [Next]_vars => PatternsInv'
  BY OneAtATime, SubscriptionStep, LeadsStep, BreakerStep, BusStep, QueueStep, CommandsStep,
     UnitStep DEF PatternsInv
<1> QED
  BY <1>1, <1>2, PTL DEF FairSpec

\* Subscription.transition: a cancellation that arrived is final, and active or
\* halted needs an activation, in whatever order and how often events come.
THEOREM CancellationHolds == FairSpec => []CancellationIsFinal
<1>1. PatternsInv => CancellationIsFinal
  BY DEF PatternsInv, SubscriptionInv
<1> QED
  BY <1>1, InvHolds, PTL

\* LeadService.mark_contacted: a contacted lead was told, is being told or its
\* caller got an error; nobody is assured of a message that did not get out.
THEOREM ContactedHolds == FairSpec => []ContactedMeansTold
<1>1. PatternsInv => ContactedMeansTold
  BY LeadsAssumption DEF PatternsInv, LeadsInv, ContactedMeansTold, Leads!ContactedMeansTold
<1> QED
  BY <1>1, InvHolds, PTL

\* CircuitBreaker.call: a spell of an outage in which the breaker is closed gets
\* MAX_FAILURES - 1 calls and at most one of each caller besides, as many again
\* for each call from before the outage that returns during it, and one for each
\* call that is cancelled: nothing counts that one.
THEOREM WastedHolds == FairSpec => []WastedCallsBounded
<1>1. ASSUME PatternsInv PROVE WastedCallsBounded
  <2>1. Breaker!Cardinality(Caller) = Cardinality(Caller)
    BY DEF Breaker!Cardinality, Cardinality
  <2>2. /\ Cardinality(Wasting) \in Nat /\ Cardinality(Wasting) <= Cardinality(Caller)
    BY <1>1, WastingCounted DEF PatternsInv, BreakerInv
  <2>3. Cardinality(Caller) \in Nat
    BY BreakerAssumption, FS_CardinalityType
  <2>4. /\ Forgiven \in Nat /\ 1 + early = early + 1
        /\ (MAX_FAILURES - 1) * (early + 1) = Forgiven + (MAX_FAILURES - 1)
    BY <1>1, ForgivenCounted DEF PatternsInv, BreakerInv, Forgiven
  <2>5. wasted <= Forgiven + (MAX_FAILURES - 1) + Cardinality(Caller) + cancelled
    BY <1>1, <2>2, <2>3, <2>4, BreakerAssumption DEF PatternsInv, BreakerInv
  <2> QED
    BY <2>1, <2>4, <2>5 DEF WastedCallsBounded, Breaker!WastedCallsBounded
<1> QED
  BY <1>1, InvHolds, PTL

\* EventBus.publish: handlers hear in the order they subscribed, and a returned
\* publication has told all that subscribed before it.
THEOREM ToldHolds == FairSpec => []ToldInOrder
<1>1. ASSUME PatternsInv PROVE ToldInOrder
  <2>1. ASSUME NEW s \in Seq(Listener), NEW t \in Seq(Listener), PrefixOf(s, t)
        PROVE  Bus!IsPrefix(s, t)
    BY <2>1, LenProperties DEF PrefixOf, Bus!IsPrefix
  <2>2. ASSUME NEW p \in Publication
        PROVE  /\ Bus!IsPrefix(got[p], subscribed)
               /\ publication[p].at = "returned" => Bus!IsPrefix(before[p], got[p])
    <3>1. got[p] \in Seq(Listener) /\ before[p] \in Seq(Listener) /\ subscribed \in Seq(Listener)
          /\ PrefixOf(got[p], subscribed) /\ PrefixOf(before[p], subscribed)
      BY <1>1 DEF PatternsInv, BusInv
    <3>2. ASSUME publication[p].at = "returned"
          PROVE  PrefixOf(before[p], got[p])
      <4>1. /\ Len(got[p]) = publication[p].turn - 1 /\ publication[p].turn > Len(before[p])
            /\ publication[p].turn \in Nat /\ Len(before[p]) \in Nat
        BY <1>1, <3>1, <3>2, LenProperties DEF PatternsInv, BusInv
      <4>2. Len(before[p]) <= Len(got[p])
        BY <4>1
      <4> QED
        BY <3>1, <4>1, <4>2, SMTT(30) DEF PrefixOf
    <3> QED
      BY <2>1, <3>1, <3>2
  <2> QED
    BY <2>2 DEF ToldInOrder, Bus!ToldInOrder
<1> QED
  BY <1>1, InvHolds, PTL

\* redis_queue_simple.py: the safe worker loses no job, the basic one those it
\* died with.
THEOREM JobsKept == FairSpec => []SafeKeepsJobs
<1>1. PatternsInv => SafeKeepsJobs
  <2>1. Queue!ToSet(jobs) = ToSet(jobs) /\ Queue!ToSet(stuck) = ToSet(stuck)
    BY QueueLists
  <2> QED
    BY <2>1 DEF PatternsInv, QueueInv, SafeKeepsJobs, Queue!SafeKeepsJobs
<1> QED
  BY <1>1, InvHolds, PTL

\* CommandQueue.work: a key is handled twice only where two loops had it at
\* once, and lost only where a handler raised.
THEOREM CommandsHold == FairSpec => []CommandsAccountedFor
<1>1. ASSUME PatternsInv PROVE CommandsAccountedFor
  <2>1. ASSUME NEW s PROVE Commands!ToSet(s) = ToSet(s)
    BY DEF Commands!ToSet, ToSet
  <2> QED
    BY <1>1, <2>1, HoldersNamed
    DEF PatternsInv, CommandsInv, CommandsAccountedFor, Commands!CommandsAccountedFor
<1> QED
  BY <1>1, InvHolds, PTL

\* UnitOfWork: whatever integers transfer() is given, the table is that of the
\* transfers that returned, with all the money there was at first, and a wallet
\* is overdrawn by no more than amounts below zero took from it.
THEOREM TransfersHold == FairSpec => []TransfersWhole
<1>1. ASSUME PatternsInv PROVE TransfersWhole
  <2>1. Units!SumFunction(committed) = SumFunction(committed)
    BY DEF Units!SumFunction, SumFunction, Units!SumFunctionOnSet, SumFunctionOnSet,
           Units!FoldFunctionOnSet, FoldFunctionOnSet, Units!MapThenFoldSet, MapThenFoldSet
  <2>2. Units!Cardinality(Account) = Cardinality(Account)
    BY DEF Units!Cardinality, Cardinality
  <2> QED
    BY <1>1, <2>1, <2>2 DEF PatternsInv, UnitInv, TransfersWhole, Units!TransfersWhole
<1> QED
  BY <1>1, InvHolds, PTL
==============================================================================
