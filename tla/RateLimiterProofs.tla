------------------------- MODULE RateLimiterProofs -------------------------
(***************************************************************************)
(* The rate limiters' promises, for any users, threads, limit and window:  *)
(* how many requests a window lets through, that who is denied had used    *)
(* the limit up, and when Retry-After is kept.                             *)
(*                                                                         *)
(* Each limiter has an invariant of its own, which relates a user's stored *)
(* data to what was let through at each age.  They are stated first for    *)
(* one user's data as it is, with what a tick, a request let through or a  *)
(* denial does to them; the steps of the module then only have to be one   *)
(* of these.  The deque is a log of what is left of the requests let       *)
(* through, once those that a popleft took too early are forgotten.        *)
(***************************************************************************)
EXTENDS RateLimiter, CollectionLemmas

-----------------------------------------------------------------------------
(* A tick over a list of ages, and over what was granted *)

\* A tick makes every element one older, up to the oldest.
Aged(s, W) == [i \in DOMAIN s |-> IF s[i] = W + 1 THEN W + 1 ELSE s[i] + 1]

\* What a tick does to the places of an age in a list: they move to the next age,
\* and the last one gathers.
LEMMA TimesAged ==
  ASSUME NEW W \in Nat, NEW s \in Seq(0 .. W + 1), NEW n
  PROVE  /\ Aged(s, W) \in Seq(0 .. W + 1)
         /\ Len(Aged(s, W)) = Len(s)
         /\ Times(Aged(s, W), n, 0) = 0
         /\ \A a \in 1 .. W : Times(Aged(s, W), n, a) = Times(s, n, a - 1)
         /\ Times(Aged(s, W), n, W + 1) = Times(s, n, W) + Times(s, n, W + 1)
<1> DEFINE u == Aged(s, W)
<1>1. DOMAIN s = 1 .. Len(s) /\ Len(s) \in Nat
  BY LenProperties
<1>2. ASSUME NEW j \in DOMAIN s PROVE s[j] \in 0 .. W + 1
  BY <1>1, ElementOfSeq
<1>3. u \in [1 .. Len(s) -> 0 .. W + 1]
  BY <1>1, <1>2 DEF Aged
<1>4. u \in Seq(0 .. W + 1) /\ Len(u) = Len(s)
  BY <1>1, <1>3
<1>5. DOMAIN u = DOMAIN s /\ \A j \in DOMAIN s : u[j] = IF s[j] = W + 1 THEN W + 1 ELSE s[j] + 1
  BY DEF Aged
<1> HIDE DEF u
<1>6. Times(u, n, 0) = 0
  <2>1. \A j \in DOMAIN u : u[j] # 0
    BY <1>2, <1>5
  <2> QED
    BY <2>1, TimesNever
<1>7. ASSUME NEW a \in 1 .. W PROVE Times(u, n, a) = Times(s, n, a - 1)
  <2>1. ASSUME NEW j \in DOMAIN s PROVE u[j] = a <=> s[j] = a - 1
    <3>1. s[j] \in 0 .. W + 1 /\ u[j] = IF s[j] = W + 1 THEN W + 1 ELSE s[j] + 1
      BY <1>2, <1>5
    <3> QED
      BY <3>1
  <2>2. Places(u, n, a) = Places(s, n, a - 1)
    BY <1>5, <2>1 DEF Places
  <2> QED
    BY <2>2, Zenon DEF Times
<1>8. Times(u, n, W + 1) = Times(s, n, W) + Times(s, n, W + 1)
  <2> DEFINE A == Places(s, n, W)
             B == Places(s, n, W + 1)
  <2>1. \A j \in DOMAIN s : u[j] = W + 1 <=> s[j] = W \/ s[j] = W + 1
    BY <1>2, <1>5
  <2>2. Places(u, n, W + 1) = A \cup B /\ A \cap B = {}
    BY <1>2, <1>5, <2>1 DEF Places
  <2>3. /\ IsFiniteSet(A) /\ IsFiniteSet(B)
        /\ Cardinality(A) \in Nat /\ Cardinality(B) \in Nat
    BY TimesType DEF Times
  <2> HIDE DEF A, B
  <2>4. Cardinality({}) = 0
    BY FS_EmptySet
  <2>5. Cardinality(A \cap B) = 0
    BY <2>2, <2>4, Zenon
  <2>6. Cardinality(A \cup B) = Cardinality(A) + Cardinality(B) - Cardinality(A \cap B)
    BY <2>3, FS_Union
  <2>7. Cardinality(A \cup B) = Cardinality(A) + Cardinality(B)
    BY <2>3, <2>5, <2>6
  <2>8. Cardinality(Places(u, n, W + 1)) = Cardinality(A) + Cardinality(B)
    BY <2>2, <2>7, Zenon
  <2> QED
    BY <2>8 DEF Times, A, B
<1> QED
  BY <1>4, <1>6, <1>7, <1>8 DEF u

\* After a tick with nothing new.
LEMMA OverAges ==
  ASSUME NEW N \in Nat, NEW f, NEW g,
         \A a \in 0 .. N : f[a] \in Nat /\ g[a] = IF a = 0 THEN 0 ELSE f[a - 1],
         NEW n \in Int, NEW l \in Int, n <= N, n = l + 1
  PROVE  /\ \A m, k \in Int : m >= 1 /\ m = k + 1 => Over(g, m, n) = Over(f, k, l)
         /\ Over(g, 0, n) = Over(f, 0, l)
<1>1. ASSUME NEW m \in Int, NEW k \in Int, m >= 1, m = k + 1
      PROVE  Over(g, m, n) = Over(f, k, l)
  <2>1. \A x \in k .. l : f[x] \in Nat /\ g[x + 1] = f[x]
    BY <1>1
  <2>2. k + 1 = m /\ l + 1 = n
    BY <1>1
  <2> QED
    BY <2>1, <2>2, OverShifts
<1>2. Over(g, 0, n) = Over(f, 0, l)
  <2>1. /\ \A x \in 0 .. n : g[x] \in Nat
        /\ \A x \in 0 .. l : f[x] \in Nat
    OBVIOUS
  <2>2. CASE n < 0
    BY <2>1, <2>2, OverType
  <2>3. CASE n >= 0
    <3>1. g[0] = 0
      OBVIOUS
    <3>2. Over(g, 0, 0) = 0
      BY <3>1, OverOne
    <3>3. Over(g, 0, n) = Over(g, 0, 0) + Over(g, 1, n)
      <4>1. 0 \in Int /\ 1 \in Int /\ 1 = 0 + 1 /\ 0 <= 1 /\ 0 <= n
        BY <2>3
      <4> QED
        BY <2>1, <4>1, OverSplits
    <3>4. Over(g, 1, n) = Over(f, 0, l)
      BY <1>1
    <3>5. Over(f, 0, l) \in Nat
      BY <2>1, OverType
    <3> QED
      BY <3>2, <3>3, <3>4, <3>5
  <2> QED
    BY <2>2, <2>3
<1> QED
  BY <1>1, <1>2

-----------------------------------------------------------------------------
(* What a call keeps of a list *)

\* What Kept's recursive function is to satisfy up to element n.
SolvesKept(k, t, s, n) ==
  k = [i \in 0 .. n |-> IF i = 0 THEN <<>>
                        ELSE IF InWindow(t, s[i]) THEN Append(k[i - 1], s[i])
                        ELSE k[i - 1]]

\* There is such a function.
LEMMA KeptExists ==
  ASSUME NEW t, NEW s
  PROVE  \A n \in Nat : \E k : SolvesKept(k, t, s, n)
<1> DEFINE G == {n \in Nat : \E k : SolvesKept(k, t, s, n)}
<1>1. 0 \in G
  <2> DEFINE k == [i \in 0 .. 0 |-> <<>>]
  <2>1. SolvesKept(k, t, s, 0)
    BY DEF SolvesKept
  <2> QED
    BY <2>1
<1>2. ASSUME NEW n \in Nat, n \in G
      PROVE  n + 1 \in G
  <2>1. PICK k : SolvesKept(k, t, s, n)
    BY <1>2
  <2> DEFINE next(f, i) == IF i = 0 THEN <<>>
                           ELSE IF InWindow(t, s[i]) THEN Append(f[i - 1], s[i])
                           ELSE f[i - 1]
             h == [i \in 0 .. n + 1 |-> next(k, i)]
  <2>2. k = [i \in 0 .. n |-> next(k, i)]
    BY <2>1 DEF SolvesKept
  <2>3. \A i \in 0 .. n : h[i] = k[i]
    <3> HIDE DEF next
    <3> QED
      BY <2>2
  <2>4. \A i \in 0 .. n + 1 : next(h, i) = next(k, i)
    <3> HIDE DEF h
    <3>1. ASSUME NEW i \in 0 .. n + 1, i # 0 PROVE h[i - 1] = k[i - 1]
      <4>1. i - 1 \in 0 .. n
        BY <3>1
      <4> QED
        BY <2>3, <4>1
    <3> QED
      BY <3>1
  <2>5. h = [i \in 0 .. n + 1 |-> next(h, i)]
    <3>1. h = [i \in 0 .. n + 1 |-> next(k, i)]
      OBVIOUS
    <3> HIDE DEF h, next
    <3> QED
      BY <2>4, <3>1
  <2>6. SolvesKept(h, t, s, n + 1)
    <3> HIDE DEF h
    <3> QED
      BY <2>5 DEF SolvesKept
  <2> QED
    BY <2>6
<1>3. Nat \subseteq G
  <2> HIDE DEF G
  <2> QED
    BY <1>1, <1>2, NaturalsAll
<1> QED
  BY <1>3

\* Kept keeps the elements of the window, every one of them.
LEMMA KeptKeeps ==
  ASSUME NEW S, NEW s \in Seq(S), NEW t
  PROVE  /\ Kept(t, s) \in Seq(S) /\ Len(Kept(t, s)) <= Len(s)
         /\ \A j \in DOMAIN Kept(t, s) : \E l \in DOMAIN s :
              Kept(t, s)[j] = s[l] /\ InWindow(t, s[l])
         /\ \A a : Times(Kept(t, s), 0, a) = IF InWindow(t, a) THEN Times(s, 0, a) ELSE 0
<1> DEFINE N == Len(s)
           k == CHOOSE x : SolvesKept(x, t, s, N)
           Up(i, a) == {l \in 1 .. i : s[l] = a}
           Good(i) ==
             /\ k[i] \in Seq(S) /\ Len(k[i]) <= i
             /\ \A j \in DOMAIN k[i] : \E l \in DOMAIN s : k[i][j] = s[l] /\ InWindow(t, s[l])
             /\ \A a : Times(k[i], 0, a) = IF InWindow(t, a) THEN Cardinality(Up(i, a)) ELSE 0
           G == {i \in Nat : i <= N => Good(i)}
<1>1. Kept(t, s) = k[N]
  BY DEF Kept, SolvesKept
<1>2. DOMAIN s = 1 .. N /\ N \in Nat
  BY LenProperties
<1>3. SolvesKept(k, t, s, N)
  <2>1. \E x : SolvesKept(x, t, s, N)
    BY <1>2, KeptExists
  <2> QED
    BY <2>1
<1> HIDE DEF k
<1>4. \A i \in 0 .. N : k[i] = IF i = 0 THEN <<>>
                               ELSE IF InWindow(t, s[i]) THEN Append(k[i - 1], s[i])
                               ELSE k[i - 1]
  BY <1>3 DEF SolvesKept
<1>5. 0 \in G
  <2>1. k[0] = <<>>
    BY <1>2, <1>4
  <2>2. ASSUME NEW a PROVE Cardinality(Up(0, a)) = 0
    <3>1. Up(0, a) = {}
      OBVIOUS
    <3> QED
      BY <3>1, FS_EmptySet
  <2>3. \A a : Times(k[0], 0, a) = 0
    BY <2>1, TimesNone
  <2>4. k[0] \in Seq(S) /\ Len(k[0]) <= 0 /\ \A j \in DOMAIN k[0] : FALSE
    BY <2>1
  <2> HIDE DEF Up
  <2> QED
    BY <2>2, <2>3, <2>4
<1>6. ASSUME NEW i \in Nat, i \in G
      PROVE  i + 1 \in G
  <2> SUFFICES ASSUME i + 1 <= N PROVE Good(i + 1)
    OBVIOUS
  <2> DEFINE e == s[i + 1]
  <2>1. e \in S /\ i + 1 \in DOMAIN s
    <3>1. i + 1 \in 1 .. Len(s)
      BY <1>2
    <3> QED
      BY <1>2, <3>1, ElementOfSeq
  <2>2. Good(i)
    <3>1. i <= N
      BY <1>2
    <3> HIDE DEF Good, N
    <3> QED
      BY <1>6, <3>1
  <2>3. k[i + 1] = IF InWindow(t, e) THEN Append(k[i], e) ELSE k[i]
    BY <1>2, <1>4
  <2>4. ASSUME NEW a
        PROVE  Cardinality(Up(i + 1, a)) = Cardinality(Up(i, a)) + (IF e = a THEN 1 ELSE 0)
               /\ Cardinality(Up(i, a)) \in Nat
    <3>1. IsFiniteSet(1 .. i)
      BY FS_Interval
    <3>2. Up(i, a) \in SUBSET (1 .. i)
      OBVIOUS
    <3>3. IsFiniteSet(Up(i, a))
      BY <3>1, <3>2, FS_Subset
    <3>4. Cardinality(Up(i, a)) \in Nat
      BY <3>3, FS_CardinalityType
    <3>5. i + 1 \notin Up(i, a)
      OBVIOUS
    <3>6. CASE e = a
      <4>1. Up(i + 1, a) = Up(i, a) \cup {i + 1}
        BY <3>6
      <4> HIDE DEF Up, e
      <4>2. Cardinality(Up(i, a) \cup {i + 1}) = Cardinality(Up(i, a)) + 1
        BY <3>3, <3>5, FS_AddElement
      <4>3. Cardinality(Up(i + 1, a)) = Cardinality(Up(i, a)) + 1
        BY <4>1, <4>2, Zenon
      <4> QED
        BY <3>4, <3>6, <4>3
    <3>7. CASE e # a
      <4>1. Up(i + 1, a) = Up(i, a)
        BY <3>7
      <4> HIDE DEF Up, e
      <4>2. Cardinality(Up(i + 1, a)) = Cardinality(Up(i, a))
        BY <4>1, Zenon
      <4> QED
        BY <3>4, <3>7, <4>2
    <3> QED
      BY <3>6, <3>7
  <2> HIDE DEF Up
  <2>5. CASE InWindow(t, e)
    <3> DEFINE r == k[i]
               u == Append(r, e)
    <3>1. r \in Seq(S) /\ k[i + 1] = u
      BY <2>2, <2>3, <2>5
    <3>2. Len(r) \in Nat
      BY <3>1, LenProperties
    <3>3. ASSUME NEW a PROVE Times(u, 0, a) = Times(r, 0, a) + (IF e = a THEN 1 ELSE 0)
      <4>1. 0 \in 0 .. Len(r)
        BY <3>2
      <4> HIDE DEF r, e
      <4> QED
        BY <2>1, <3>1, <4>1, TimesAppend
    <3>4. /\ DOMAIN r = 1 .. Len(r) /\ DOMAIN u = 1 .. Len(r) + 1
          /\ u \in Seq(S) /\ Len(u) <= i + 1
          /\ u[Len(r) + 1] = e /\ \A j \in 1 .. Len(r) : u[j] = r[j]
      <4> HIDE DEF r, e
      <4> QED
        BY <2>1, <2>2, <3>1, LenProperties, AppendProperties DEF r
    <3>5. ASSUME NEW j \in DOMAIN u
          PROVE  \E l \in DOMAIN s : u[j] = s[l] /\ InWindow(t, s[l])
      <4> HIDE DEF u
      <4>1. CASE j = Len(r) + 1
        BY <2>1, <2>5, <3>4, <4>1
      <4>2. CASE j \in DOMAIN r
        BY <2>2, <3>4, <4>2
      <4> QED
        BY <3>2, <3>4, <4>1, <4>2
    <3>6. ASSUME NEW a
          PROVE  Times(u, 0, a) = IF InWindow(t, a) THEN Cardinality(Up(i + 1, a)) ELSE 0
      <4>1. Times(r, 0, a) = IF InWindow(t, a) THEN Cardinality(Up(i, a)) ELSE 0
        BY <2>2
      <4> HIDE DEF r, u, e
      <4>2. CASE e = a
        BY <2>4, <2>5, <3>3, <4>1, <4>2
      <4>3. CASE e # a
        BY <2>4, <3>3, <4>1, <4>3
      <4> QED
        BY <4>2, <4>3
    <3> HIDE DEF u
    <3> QED
      BY <3>1, <3>4, <3>5, <3>6
  <2>6. CASE ~InWindow(t, e)
    <3>1. k[i + 1] = k[i]
      BY <2>3, <2>6
    <3>2. ASSUME NEW a, InWindow(t, a)
          PROVE  Cardinality(Up(i + 1, a)) = Cardinality(Up(i, a))
      <4>1. e # a
        BY <2>6, <3>2
      <4> HIDE DEF e
      <4> QED
        BY <2>4, <4>1
    <3>3. k[i] \in Seq(S) /\ Len(k[i]) <= i + 1
      BY <2>2, LenProperties
    <3> HIDE DEF e
    <3> QED
      BY <2>2, <3>1, <3>2, <3>3
  <2> QED
    BY <2>5, <2>6
<1>7. N \in G
  <2>1. Nat \subseteq G
    <3> HIDE DEF G
    <3> QED
      BY <1>5, <1>6, NaturalsAll
  <2> HIDE DEF G
  <2> QED
    BY <1>2, <2>1
<1>8. \A a : Up(N, a) = Places(s, 0, a)
  BY <1>2 DEF Places
<1>9. \A a : Cardinality(Up(N, a)) = Times(s, 0, a)
  <2> HIDE DEF Up, N
  <2> QED
    BY <1>8, Zenon DEF Times
<1>10. Good(N)
  BY <1>2, <1>7
<1>11. \A a : Times(k[N], 0, a) = IF InWindow(t, a) THEN Times(s, 0, a) ELSE 0
  <2> HIDE DEF Up, N
  <2> QED
    BY <1>9, <1>10
<1>12. /\ k[N] \in Seq(S) /\ Len(k[N]) <= N
       /\ \A j \in DOMAIN k[N] : \E l \in DOMAIN s : k[N][j] = s[l] /\ InWindow(t, s[l])
  BY <1>10
<1> HIDE DEF Good
<1> QED
  BY <1>1, <1>11, <1>12

-----------------------------------------------------------------------------
(* What was granted, by age *)

\* The ages told apart.
Age == 0 .. Oldest

\* The elements of a list.
LEMMA ListOf ==
  ASSUME NEW S, NEW s \in Seq(S)
  PROVE  /\ Len(s) \in Nat /\ DOMAIN s = 1 .. Len(s) /\ s \in [1 .. Len(s) -> S]
<1>1. Len(s) \in Nat /\ DOMAIN s = 1 .. Len(s) /\ s \in [1 .. Len(s) -> S]
  BY LenProperties
<1>2. ASSUME NEW i \in DOMAIN s PROVE s[i] \in S
  BY <1>1, ElementOfSeq
<1> QED
  BY <1>1, <1>2

\* What granted[u] is, after a request of age e, and after a tick.
Ages(g) == \A a \in 0 .. Oldest : g[a] \in Nat
\* ... after a request of age e was let through ...
Gained(g, h, e) == \A a \in 0 .. Oldest : h[a] = IF a = e THEN g[a] + 1 ELSE g[a]
\* ... and after a tick.
Shifted(g, h) == \A a \in 0 .. Oldest : h[a] = IF a = 0 THEN 0 ELSE g[a - 1]

\* Both are of the same kind.
LEMMA GainedAges ==
  ASSUME NEW g, NEW h, NEW e, Ages(g), Gained(g, h, e)
  PROVE  Ages(h)
BY LimitAssumption DEF Ages, Gained, Oldest

LEMMA OlderAges == ASSUME NEW g, NEW h, Ages(g), Shifted(g, h) PROVE Ages(h)
BY LimitAssumption DEF Ages, Shifted, Oldest

\* A request let through counts wherever its age is.
LEMMA GainedOver ==
  ASSUME NEW g, NEW h, NEW e, Ages(g), Gained(g, h, e),
         NEW m \in Nat, NEW n \in Int, n <= Oldest
  PROVE  Over(h, m, n) = IF e \in m .. n THEN Over(g, m, n) + 1 ELSE Over(g, m, n)
<1>1. \A x \in m .. n : x \in 0 .. Oldest
  BY LimitAssumption DEF Oldest
<1>2. \A x \in m .. n : g[x] \in Nat /\ h[x] = IF x = e THEN g[x] + 1 ELSE g[x]
  BY <1>1 DEF Ages, Gained
<1> QED
  BY <1>2, OverGains

\* A tick moves the requests of an interval of ages to the next one.
LEMMA OlderOver ==
  ASSUME NEW g, NEW h, Ages(g), Shifted(g, h),
         NEW n \in Int, NEW l \in Int, n <= Oldest, n = l + 1
  PROVE  /\ \A m, k \in Int : m >= 1 /\ m = k + 1 => Over(h, m, n) = Over(g, k, l)
         /\ Over(h, 0, n) = Over(g, 0, l)
<1>1. Oldest \in Nat
  BY LimitAssumption DEF Oldest
<1>2. \A a \in 0 .. Oldest : g[a] \in Nat /\ h[a] = IF a = 0 THEN 0 ELSE g[a - 1]
  BY DEF Ages, Shifted
<1> HIDE DEF Oldest
<1> QED
  BY <1>1, <1>2, OverAges

\* How many requests of some ages were let through.
LEMMA AgesOver ==
  ASSUME NEW g, Ages(g), NEW m \in Nat, NEW n \in Int, n <= Oldest
  PROVE  Over(g, m, n) \in Nat /\ (n < m => Over(g, m, n) = 0)
<1>1. \A x \in m .. n : x \in 0 .. Oldest
  BY LimitAssumption DEF Oldest
<1>2. \A x \in m .. n : g[x] \in Nat
  BY <1>1 DEF Ages
<1> QED
  BY <1>2, OverType

\* More ages, more requests.
LEMMA AgesWithin ==
  ASSUME NEW g, Ages(g), NEW k \in Int, NEW l \in Int, NEW m \in Nat, NEW n \in Int,
         n <= Oldest, m <= k, l <= n
  PROVE  Over(g, k, l) <= Over(g, m, n)
<1>1. \A x \in m .. n : x \in 0 .. Oldest
  BY LimitAssumption DEF Oldest
<1>2. \A x \in m .. n : g[x] \in Nat
  BY <1>1 DEF Ages
<1> QED
  BY <1>2, OverGrows

\* The ages up to k and those beyond.
LEMMA AgesSplit ==
  ASSUME NEW g, Ages(g), NEW k \in Int, NEW l \in Int, NEW m \in Nat, NEW n \in Int,
         n <= Oldest, l = k + 1, m <= l, k <= n
  PROVE  Over(g, m, n) = Over(g, m, k) + Over(g, l, n)
<1>1. \A x \in m .. n : x \in 0 .. Oldest
  BY LimitAssumption DEF Oldest
<1>2. \A x \in m .. n : g[x] \in Nat
  BY <1>1 DEF Ages
<1> QED
  BY <1>2, OverSplits

-----------------------------------------------------------------------------
(* A log: the tuples, the sorted set, the deque *)

\* A log of ages, what was granted and the log's ttl.
Log(s, g, x) ==
  /\ \A a \in 0 .. WINDOW : Times(s, 0, a) <= g[a]
  /\ \A a \in 0 .. WINDOW - 1 : Times(s, 0, a) = g[a]
  /\ x # NoTtl => \A i \in DOMAIN s : s[i] >= WINDOW - x

\* A tick leaves a log a log, whether its key expires (then no entry was in the
\* window any more) or not.
LEMMA LogTick ==
  ASSUME NEW s \in Seq(Age), NEW g, NEW h, NEW x \in {NoTtl} \cup 1 .. WINDOW,
         Ages(g), Shifted(g, h), Log(s, g, x)
  PROVE  Log(IF x = 1 THEN <<>> ELSE Aged(s, WINDOW), h, IF x \in {NoTtl, 1} THEN NoTtl ELSE x - 1)
<1> USE LimitAssumption
<1>1. CASE x = 1
  <2>1. \A a \in 0 .. WINDOW : Times(<<>>, 0, a) = 0
    BY TimesNone
  <2>2. ASSUME NEW a \in 0 .. WINDOW - 2 PROVE g[a] = 0
    <3>1. \A j \in DOMAIN s : s[j] # a
      BY <1>1 DEF Log, NoTtl
    <3>2. Times(s, 0, a) = 0
      BY <3>1, TimesNever
    <3>3. a \in 0 .. WINDOW - 1
      OBVIOUS
    <3> QED
      BY <3>2, <3>3 DEF Log
  <2>3. \A a \in 0 .. WINDOW : h[a] \in Nat
    <3>1. Ages(h)
      BY OlderAges
    <3> QED
      BY <3>1 DEF Ages, Oldest
  <2>4. ASSUME NEW a \in 0 .. WINDOW - 1 PROVE h[a] = 0
    <3>1. a \in 0 .. Oldest
      BY DEF Oldest
    <3>2. h[a] = IF a = 0 THEN 0 ELSE g[a - 1]
      BY <3>1 DEF Shifted
    <3>3. a # 0 => a - 1 \in 0 .. WINDOW - 2
      OBVIOUS
    <3> QED
      BY <2>2, <3>2, <3>3
  <2>5. \A a \in 0 .. WINDOW - 1 : a \in 0 .. WINDOW
    OBVIOUS
  <2>6. Log(<<>>, h, NoTtl)
    BY <2>1, <2>3, <2>4, <2>5 DEF Log
  <2> QED
    BY <1>1, <2>6
<1>2. CASE x # 1
  <2> DEFINE u == Aged(s, WINDOW)
  <2>1. /\ Times(u, 0, 0) = 0
        /\ \A a \in 1 .. WINDOW : Times(u, 0, a) = Times(s, 0, a - 1)
    BY TimesAged DEF Age, Oldest
  <2>2. \A a \in 0 .. WINDOW : a \in 0 .. Oldest /\ h[a] = IF a = 0 THEN 0 ELSE g[a - 1]
    BY DEF Shifted, Oldest
  <2>3. DOMAIN u = DOMAIN s /\ \A i \in DOMAIN s : u[i] = IF s[i] = WINDOW + 1 THEN WINDOW + 1 ELSE s[i] + 1
    BY DEF Aged
  <2>4. \A i \in DOMAIN s : s[i] \in 0 .. Oldest
    BY ListOf DEF Age
  <2> HIDE DEF u
  <2>5. ASSUME NEW a \in 0 .. WINDOW
        PROVE  Times(u, 0, a) = h[a]
    <3>1. CASE a = 0
      BY <2>1, <2>2, <3>1
    <3>2. CASE a # 0
      <4>1. a \in 1 .. WINDOW /\ a - 1 \in 0 .. WINDOW - 1
        BY <3>2
      <4>2. Times(s, 0, a - 1) = g[a - 1]
        BY <4>1 DEF Log
      <4> QED
        BY <2>1, <2>2, <3>2, <4>1, <4>2
    <3> QED
      BY <3>1, <3>2
  <2>6. \A a \in 0 .. WINDOW : h[a] \in Nat
    <3>1. Ages(h)
      BY OlderAges
    <3> QED
      BY <3>1 DEF Ages, Oldest
  <2>7. ASSUME x # NoTtl, NEW i \in DOMAIN u
        PROVE  u[i] >= WINDOW - (x - 1)
    <3>1. s[i] \in 0 .. Oldest /\ s[i] >= WINDOW - x
      BY <2>3, <2>4, <2>7 DEF Log
    <3>2. x \in 1 .. WINDOW /\ x # 1
      BY <1>2, <2>7
    <3> QED
      BY <2>3, <3>1, <3>2 DEF Oldest
  <2>8. CASE x = NoTtl
    <3>1. Log(u, h, NoTtl)
      BY <2>5, <2>6 DEF Log
    <3> QED
      BY <2>8, <1>2, <3>1 DEF u
  <2>9. CASE x # NoTtl
    <3>1. Log(u, h, x - 1)
      BY <2>5, <2>6, <2>7, <2>9 DEF Log
    <3> QED
      BY <2>9, <1>2, <3>1 DEF u
  <2> QED
    BY <2>8, <2>9
<1> QED
  BY <1>1, <1>2

\* So does a request let through and appended, whatever ttl its key now has.
LEMMA LogGrant ==
  ASSUME NEW s \in Seq(Age), NEW g, NEW h, NEW x, NEW e \in 0 .. 1, NEW y \in {NoTtl, WINDOW},
         Ages(g), Gained(g, h, e), Log(s, g, x)
  PROVE  Log(Append(s, e), h, y)
<1> USE LimitAssumption
<1> DEFINE u == Append(s, e)
<1>1. e \in Age /\ Len(s) \in Nat /\ 0 \in 0 .. Len(s)
  BY LenProperties DEF Age, Oldest
<1>2. \A a : Times(u, 0, a) = Times(s, 0, a) + (IF e = a THEN 1 ELSE 0)
  BY <1>1, TimesAppend
<1>3. \A a \in 0 .. WINDOW : g[a] \in Nat /\ h[a] = IF a = e THEN g[a] + 1 ELSE g[a]
  BY DEF Ages, Gained, Oldest
<1>4. \A a : Times(s, 0, a) \in Nat
  BY TimesType
<1>5. /\ \A a \in 0 .. WINDOW : Times(s, 0, a) <= g[a]
      /\ \A a \in 0 .. WINDOW - 1 : Times(s, 0, a) = g[a]
  BY DEF Log
<1>6. \A i \in DOMAIN u : u[i] \in Age
  <2>1. u \in Seq(Age)
    BY <1>1
  <2> HIDE DEF u
  <2> QED
    BY <2>1, ListOf
<1> HIDE DEF u
<1>7. \A a \in 0 .. WINDOW : Times(u, 0, a) <= h[a]
  BY <1>2, <1>3, <1>4, <1>5
<1>8. \A a \in 0 .. WINDOW - 1 : Times(u, 0, a) = h[a]
  BY <1>2, <1>3, <1>4, <1>5
<1>9. y # NoTtl => \A i \in DOMAIN u : u[i] >= WINDOW - y
  BY <1>6 DEF Age, Oldest
<1> QED
  BY <1>7, <1>8, <1>9 DEF Log, u

\* A log keeps what is in the window, whatever else it drops.
LEMMA LogDrops ==
  ASSUME NEW s \in Seq(Age), NEW u \in Seq(Age), NEW g, NEW x, Ages(g), Log(s, g, x),
         \A i \in DOMAIN u : \E j \in DOMAIN s : u[i] = s[j],
         \A a \in 0 .. WINDOW : Times(u, 0, a) <= Times(s, 0, a),
         \A a \in 0 .. WINDOW - 1 : Times(u, 0, a) = Times(s, 0, a)
  PROVE  Log(u, g, x) /\ Log(u, g, NoTtl)
<1> USE LimitAssumption
<1>1. /\ \A a : Times(s, 0, a) \in Nat /\ Times(u, 0, a) \in Nat
      /\ \A a \in 0 .. WINDOW : g[a] \in Nat
  BY TimesType DEF Ages, Oldest
<1>2. /\ \A a \in 0 .. WINDOW : Times(u, 0, a) <= g[a]
      /\ \A a \in 0 .. WINDOW - 1 : Times(u, 0, a) = g[a]
  BY <1>1 DEF Log
<1>3. x # NoTtl => \A i \in DOMAIN u : u[i] >= WINDOW - x
  BY DEF Log
<1> QED
  BY <1>2, <1>3 DEF Log

\* What a window has let through is in the log.
LEMMA LogQuota ==
  ASSUME NEW s \in Seq(Age), NEW g, NEW x, Ages(g), Log(s, g, x)
  PROVE  Over(g, 0, WINDOW - 1) <= Len(s)
<1> USE LimitAssumption
<1> DEFINE A == 0 .. WINDOW - 1
<1>1. IsFiniteSet(A)
  BY FS_Interval
<1>2. \A a \in A : g[a] \in Nat /\ Times(s, 0, a) = g[a]
  BY DEF Ages, Oldest, Log
<1> HIDE DEF A
<1>3. \A a \in A : g[a] \in Nat /\ g[a] <= Times(s, 0, a)
  BY <1>2
<1> DEFINE sum == SumFunctionOnSet(g, A)
           n == Cardinality(PlacesOf(s, A))
<1>4. sum \in Nat /\ n \in Nat /\ n <= Len(s) /\ sum <= n
  BY <1>1, <1>3, TimesSum
<1> HIDE DEF sum, n
<1>5. sum <= Len(s) /\ Len(s) \in Nat
  BY <1>4, LenProperties
<1> QED
  BY <1>5 DEF Over, A, sum

\* A list whose elements were all let through is no longer than what was.
LEMMA LogEarned ==
  ASSUME NEW s \in Seq(Age), NEW g, Ages(g), NEW n \in 0 .. Oldest,
         \A j \in DOMAIN s : s[j] <= n,
         \A a \in 0 .. n : Times(s, 0, a) <= g[a]
  PROVE  Len(s) <= Over(g, 0, n)
<1> USE LimitAssumption
<1> DEFINE A == 0 .. n
<1>1. IsFiniteSet(A)
  BY FS_Interval
<1>2. \A j \in DOMAIN s : s[j] \in A
  <2>1. \A j \in DOMAIN s : s[j] \in 0 .. Oldest
    BY ListOf DEF Age
  <2> QED
    BY <2>1 DEF Oldest
<1>3. \A a \in A : g[a] \in Nat /\ Times(s, 0, a) <= g[a]
  BY DEF Ages, Oldest
<1> HIDE DEF A
<1> DEFINE sum == SumFunctionOnSet(g, A)
           k == Cardinality(PlacesOf(s, A))
<1>4. k = Len(s) /\ k <= sum
  BY <1>1, <1>2, <1>3, TimesSum
<1> QED
  BY <1>4 DEF Over, A

\* What a popleft drops is not in the window.
LEMMA LogTail ==
  ASSUME NEW s \in Seq(Age), s # <<>>, Head(s) >= WINDOW, NEW g, NEW x, Ages(g), Log(s, g, x)
  PROVE  Log(Tail(s), g, x)
<1> DEFINE u == Tail(s)
<1>1. /\ Len(s) \in Nat \ {0} /\ DOMAIN s = 1 .. Len(s) /\ u \in Seq(Age)
      /\ DOMAIN u = 1 .. Len(s) - 1 /\ \A i \in 1 .. Len(s) - 1 : u[i] = s[i + 1]
  BY ListOf, EmptySeq, HeadTailProperties
<1>2. \A a : /\ Times(u, 0, a) = Times(s, 1, a) /\ Times(s, 1, a) \in Nat
             /\ Times(s, 0, a) = Times(s, 1, a) + (IF Head(s) = a THEN 1 ELSE 0)
  <2>1. \A a : Times(u, 0, a) = Times(s, 0 + 1, a)
    BY TimesTail
  <2>2. \A a : Times(s, 1, a) \in Nat /\ Times(s, 0, a) = Times(s, 1, a) + (IF Head(s) = a THEN 1 ELSE 0)
    BY TimesType, TimesHead
  <2> QED
    BY <2>1, <2>2
<1> HIDE DEF u
<1>3. \A i \in DOMAIN u : \E j \in DOMAIN s : u[i] = s[j]
  <2> SUFFICES ASSUME NEW i \in DOMAIN u PROVE \E j \in DOMAIN s : u[i] = s[j]
    OBVIOUS
  <2>1. i + 1 \in DOMAIN s /\ u[i] = s[i + 1]
    BY <1>1
  <2> QED
    BY <2>1
<1>4. \A a \in 0 .. WINDOW : Times(u, 0, a) <= Times(s, 0, a)
  BY <1>2
<1>5. \A a \in 0 .. WINDOW - 1 : Times(u, 0, a) = Times(s, 0, a)
  BY <1>2, LimitAssumption
<1> QED
  BY <1>1, <1>3, <1>4, <1>5, LogDrops DEF u

-----------------------------------------------------------------------------
(* What a deque has forgotten *)

\* Nothing is forgotten that was not let through, at any age.
Fewer(g, f) == \A a \in 0 .. Oldest : g[a] \in Nat /\ f[a] \in Nat /\ f[a] <= g[a]
\* What is left of the requests of each age.
Left(g, f) == [a \in 0 .. Oldest |-> g[a] - f[a]]

\* What was let through is what is left and what was forgotten.
LEMMA LeftOver ==
  ASSUME NEW g, NEW f, Fewer(g, f)
  PROVE  /\ Ages(g) /\ Ages(f) /\ Ages(Left(g, f))
         /\ \A m \in Nat, n \in Int : n <= Oldest =>
              Over(g, m, n) = Over(Left(g, f), m, n) + Over(f, m, n)
<1> DEFINE k == Left(g, f)
<1>1. \A a \in 0 .. Oldest : g[a] \in Nat /\ f[a] \in Nat /\ k[a] \in Nat /\ g[a] = k[a] + f[a]
  BY DEF Fewer, Left
<1> HIDE DEF k
<1>2. ASSUME NEW m \in Nat, NEW n \in Int, n <= Oldest
      PROVE  Over(g, m, n) = Over(k, m, n) + Over(f, m, n)
  <2> DEFINE D == m .. n
  <2>1. IsFiniteSet(D)
    BY FS_Interval
  <2>2. \A x \in D : x \in 0 .. Oldest
    BY <1>2, LimitAssumption DEF Oldest
  <2>3. \A x \in D : k[x] \in Int /\ f[x] \in Int /\ g[x] = k[x] + f[x]
    BY <1>1, <2>2
  <2> HIDE DEF D
  <2>4. SumFunctionOnSet(g, D) = SumFunctionOnSet(k, D) + SumFunctionOnSet(f, D)
    BY <2>1, <2>3, SumOfSums
  <2> QED
    BY <2>4 DEF Over, D
<1>3. Ages(g) /\ Ages(f) /\ Ages(k)
  BY <1>1 DEF Ages
<1> QED
  BY <1>2, <1>3 DEF k

\* A tick of both is a tick of what is left.
LEMMA LeftTick ==
  ASSUME NEW g, NEW f, NEW h, NEW e, Fewer(g, f), Shifted(g, h), Shifted(f, e)
  PROVE  Fewer(h, e) /\ Shifted(Left(g, f), Left(h, e))
<1>1. \A a \in 0 .. Oldest : a # 0 => a - 1 \in 0 .. Oldest
  BY LimitAssumption DEF Oldest
<1>2. Fewer(h, e)
  BY <1>1 DEF Fewer, Shifted
<1>3. \A a \in 0 .. Oldest : Left(h, e)[a] = IF a = 0 THEN 0 ELSE Left(g, f)[a - 1]
  BY <1>1 DEF Shifted, Left
<1> QED
  BY <1>2, <1>3 DEF Shifted

\* A request let through is one more left.
LEMMA LeftGrant ==
  ASSUME NEW g, NEW f, NEW h, NEW e, Fewer(g, f), Gained(g, h, e)
  PROVE  Fewer(h, f) /\ Gained(Left(g, f), Left(h, f), e)
BY DEF Fewer, Gained, Left

\* A request forgotten is one less.
LEMMA LeftForgets ==
  ASSUME NEW g, NEW f, NEW h, NEW e \in 0 .. Oldest, Fewer(g, f), Gained(f, h, e),
         Left(g, f)[e] >= 1
  PROVE  Fewer(g, h) /\ Gained(Left(g, h), Left(g, f), e)
<1>1. f[e] + 1 <= g[e]
  BY DEF Left, Fewer
<1> QED
  BY <1>1 DEF Fewer, Gained, Left

\* The deque of what is left is without the entry that a popleft took too early.
LEMMA LogForgets ==
  ASSUME NEW s \in Seq(Age), s # <<>>, NEW g, NEW h, Ages(h), Gained(h, g, Head(s)),
         Log(s, g, NoTtl)
  PROVE  Log(Tail(s), h, NoTtl)
<1> USE LimitAssumption
<1>1. \A a : /\ Times(Tail(s), 0, a) = Times(s, 1, a) /\ Times(s, 1, a) \in Nat
             /\ Times(s, 0, a) = Times(s, 1, a) + (IF Head(s) = a THEN 1 ELSE 0)
  <2>1. \A a : Times(Tail(s), 0, a) = Times(s, 0 + 1, a)
    BY TimesTail
  <2>2. \A a : Times(s, 1, a) \in Nat /\ Times(s, 0, a) = Times(s, 1, a) + (IF Head(s) = a THEN 1 ELSE 0)
    BY TimesType, TimesHead
  <2> QED
    BY <2>1, <2>2
<1>2. \A a \in 0 .. WINDOW : h[a] \in Nat /\ g[a] = IF a = Head(s) THEN h[a] + 1 ELSE h[a]
  BY DEF Ages, Gained, Oldest
<1>3. /\ \A a \in 0 .. WINDOW : Times(s, 0, a) <= g[a]
      /\ \A a \in 0 .. WINDOW - 1 : Times(s, 0, a) = g[a]
  BY DEF Log
<1>4. \A a \in 0 .. WINDOW : Times(Tail(s), 0, a) <= h[a]
  BY <1>1, <1>2, <1>3
<1>5. \A a \in 0 .. WINDOW - 1 : Times(Tail(s), 0, a) = h[a]
  BY <1>1, <1>2, <1>3
<1> QED
  BY <1>4, <1>5 DEF Log

-----------------------------------------------------------------------------
(* A deque that threads share *)

\* The greater of two numbers.
Most(a, b) == IF a < b THEN b ELSE a

\* A deque that threads share, what is left of what was let through, what was
\* promised and whether that can be short.
Deque(s, g, p, b) ==
  /\ \A i, j \in DOMAIN s : i < j => s[j] <= s[i] + 1
  /\ \A i \in DOMAIN s : s[i] <= WINDOW => Times(s, i, Oldest) <= g[Oldest]
  /\ p # NoPromise /\ ~b => /\ Len(s) <= LIMIT
                            /\ Len(s) = LIMIT => Head(s) + Most(p, 0) > WINDOW

\* A tick leaves a deque a deque: the young entries have no Oldest one behind
\* them, and what was promised comes nearer as the head ages.
LEMMA DequeTick ==
  ASSUME NEW s \in Seq(Age), NEW g, NEW h, NEW p \in NoPromise .. WINDOW + 1,
         NEW b,
         Ages(g), Shifted(g, h), Log(s, g, NoTtl), Deque(s, g, p, b)
  PROVE  Deque(Aged(s, WINDOW), h, IF p >= 0 THEN p - 1 ELSE p, b)
<1> USE LimitAssumption
<1> DEFINE u == Aged(s, WINDOW)
           q == IF p >= 0 THEN p - 1 ELSE p
<1>1. /\ Len(s) \in Nat /\ DOMAIN s = 1 .. Len(s)
      /\ \A i \in DOMAIN s : s[i] \in 0 .. Oldest
  BY ListOf DEF Age
<1>2. /\ u \in Seq(Age) /\ Len(u) = Len(s)
      /\ \A n : Times(u, n, Oldest) = Times(s, n, WINDOW) + Times(s, n, Oldest)
  BY TimesAged DEF Age, Oldest
<1>3. DOMAIN u = DOMAIN s /\ \A i \in DOMAIN s : u[i] = IF s[i] = Oldest THEN Oldest ELSE s[i] + 1
  BY DEF Aged, Oldest
<1>4. h[Oldest] = g[WINDOW] /\ g[WINDOW] \in Nat
  BY DEF Shifted, Ages, Oldest
<1> HIDE DEF u
<1>5. ASSUME NEW i \in DOMAIN u, NEW j \in DOMAIN u, i < j
      PROVE  u[j] <= u[i] + 1
  <2>1. s[j] <= s[i] + 1 /\ s[i] \in 0 .. Oldest /\ s[j] \in 0 .. Oldest
    BY <1>1, <1>3, <1>5 DEF Deque
  <2> QED
    BY <1>3, <2>1 DEF Oldest
<1>6. ASSUME NEW i \in DOMAIN u, u[i] <= WINDOW
      PROVE  Times(u, i, Oldest) <= h[Oldest]
  <2>1. i \in DOMAIN s /\ s[i] <= WINDOW - 1 /\ i \in 1 .. Len(s)
    BY <1>1, <1>3, <1>6 DEF Oldest
  <2>2. ASSUME NEW j \in DOMAIN s, j > i PROVE s[j] # Oldest
    <3>1. i < j
      BY <1>1, <2>1, <2>2
    <3>2. s[j] <= s[i] + 1
      BY <2>1, <3>1 DEF Deque
    <3> QED
      BY <1>1, <2>1, <3>2 DEF Oldest
  <2>3. Times(s, i, Oldest) = 0
    BY <2>2, TimesNever
  <2>4. Times(s, i, WINDOW) <= Times(s, 0, WINDOW)
    <3>1. 0 \in Int /\ i \in Int /\ 0 <= i
      BY <2>1
    <3> QED
      BY <3>1, TimesFall
  <2>5. Times(s, 0, WINDOW) <= g[WINDOW]
    BY DEF Log
  <2>6. Times(s, 0, WINDOW) \in Nat /\ Times(s, i, WINDOW) \in Nat
    BY TimesType
  <2> QED
    BY <1>2, <1>4, <2>3, <2>4, <2>5, <2>6
<1>7. ASSUME q # NoPromise, ~b
      PROVE  Len(u) <= LIMIT /\ (Len(u) = LIMIT => Head(u) + Most(q, 0) > WINDOW)
  <2>1. p # NoPromise /\ Len(s) <= LIMIT
    BY <1>7 DEF Deque, NoPromise
  <2>2. ASSUME Len(u) = LIMIT PROVE Head(u) + Most(q, 0) > WINDOW
    <3>1. s # <<>> /\ u # <<>> /\ 1 \in DOMAIN s
      BY <1>1, <1>2, <2>2
    <3>2. Head(s) = s[1] /\ Head(u) = u[1]
      BY <1>2, <3>1
    <3>3. s[1] + Most(p, 0) > WINDOW
      BY <1>2, <1>7, <2>1, <2>2, <3>2 DEF Deque
    <3> QED
      BY <1>1, <1>3, <3>1, <3>2, <3>3 DEF Oldest, Most
  <2> QED
    BY <1>2, <2>1, <2>2
<1> HIDE DEF q
<1>8. Deque(u, h, q, b)
  BY <1>5, <1>6, <1>7 DEF Deque
<1> QED
  BY <1>8 DEF u, q

\* So does an append, of a time a tick old at most.
LEMMA DequeGrant ==
  ASSUME NEW s \in Seq(Age), NEW g, NEW h, NEW p, NEW e \in 0 .. 1,
         NEW b,
         Ages(g), Gained(g, h, e), Deque(s, g, p, b)
  PROVE  Deque(Append(s, e), h, NoPromise, FALSE)
<1> USE LimitAssumption
<1> DEFINE u == Append(s, e)
<1>1. /\ Len(s) \in Nat /\ DOMAIN s = 1 .. Len(s)
      /\ \A i \in DOMAIN s : s[i] \in 0 .. Oldest
  BY ListOf DEF Age
<1>2. e \in Age /\ e # Oldest
  BY DEF Age, Oldest
<1>3. /\ u \in Seq(Age) /\ Len(u) = Len(s) + 1 /\ DOMAIN u = 1 .. Len(s) + 1
      /\ u[Len(s) + 1] = e /\ \A i \in 1 .. Len(s) : u[i] = s[i]
  BY <1>1, <1>2, AppendProperties
<1>4. \A i \in 0 .. Len(s) : Times(u, i, Oldest) = Times(s, i, Oldest)
  <2>1. \A i \in 0 .. Len(s) : Times(s, i, Oldest) \in Nat
    BY TimesType
  <2> QED
    BY <1>2, <2>1, TimesAppend
<1>5. h[Oldest] = g[Oldest] /\ g[Oldest] \in Nat
  BY <1>2 DEF Gained, Ages, Oldest
<1> HIDE DEF u
<1>6. ASSUME NEW i \in DOMAIN u, NEW j \in DOMAIN u, i < j
      PROVE  u[j] <= u[i] + 1
  <2>1. i \in 1 .. Len(s) /\ u[i] = s[i] /\ s[i] \in 0 .. Oldest
    BY <1>1, <1>3, <1>6
  <2>2. CASE j = Len(s) + 1
    BY <1>3, <2>1, <2>2 DEF Oldest
  <2>3. CASE j \in 1 .. Len(s)
    BY <1>1, <1>3, <1>6, <2>1, <2>3 DEF Deque
  <2> QED
    BY <1>1, <1>3, <2>2, <2>3
<1>7. ASSUME NEW i \in DOMAIN u, u[i] <= WINDOW
      PROVE  Times(u, i, Oldest) <= h[Oldest]
  <2>1. CASE i \in 1 .. Len(s)
    <3>1. s[i] <= WINDOW /\ i \in DOMAIN s /\ i \in 0 .. Len(s)
      BY <1>1, <1>3, <1>7, <2>1
    <3>2. Times(s, i, Oldest) <= g[Oldest]
      BY <3>1 DEF Deque
    <3> QED
      BY <1>4, <1>5, <3>1, <3>2
  <2>2. CASE i = Len(s) + 1
    <3>1. i \in Int /\ i >= Len(u)
      BY <1>1, <1>3, <2>2
    <3>2. Times(u, i, Oldest) = 0
      BY <1>3, <3>1, TimesEnd
    <3> QED
      BY <1>5, <3>2
  <2> QED
    BY <1>1, <1>3, <2>1, <2>2
<1> QED
  BY <1>6, <1>7 DEF Deque, u

\* So does a popleft: whoever was promised a place keeps it.
LEMMA DequeDrops ==
  ASSUME NEW s \in Seq(Age), s # <<>>, NEW g, NEW h, NEW p, NEW b, h[Oldest] = g[Oldest],
         Deque(s, g, p, b)
  PROVE  Deque(Tail(s), h, p, b)
<1> USE LimitAssumption
<1> DEFINE u == Tail(s)
<1>1. /\ Len(s) \in Nat \ {0} /\ DOMAIN s = 1 .. Len(s)
      /\ \A i \in DOMAIN s : s[i] \in 0 .. Oldest
  BY ListOf, EmptySeq DEF Age
<1>2. /\ u \in Seq(Age) /\ Len(u) = Len(s) - 1 /\ DOMAIN u = 1 .. Len(s) - 1
      /\ \A i \in 1 .. Len(s) - 1 : u[i] = s[i + 1]
  BY <1>1, HeadTailProperties, LenProperties
<1>3. \A i \in Nat : Times(u, i, Oldest) = Times(s, i + 1, Oldest)
  BY TimesTail
<1> HIDE DEF u
<1>4. ASSUME NEW i \in DOMAIN u
      PROVE  /\ i \in Nat /\ i + 1 \in DOMAIN s /\ u[i] = s[i + 1]
             /\ Times(u, i, Oldest) = Times(s, i + 1, Oldest)
  <2>1. i \in 1 .. Len(s) - 1 /\ i \in Nat /\ i + 1 \in DOMAIN s
    BY <1>1, <1>2
  <2> QED
    BY <1>2, <1>3, <2>1
<1>5. ASSUME NEW i \in DOMAIN u, NEW j \in DOMAIN u, i < j
      PROVE  u[j] <= u[i] + 1
  <2>1. i + 1 < j + 1 /\ i + 1 \in DOMAIN s /\ j + 1 \in DOMAIN s
    BY <1>4, <1>5
  <2>2. s[j + 1] <= s[i + 1] + 1
    BY <2>1 DEF Deque
  <2> QED
    BY <1>4, <2>2
<1>6. ASSUME NEW i \in DOMAIN u, u[i] <= WINDOW
      PROVE  Times(u, i, Oldest) <= h[Oldest]
  BY <1>4, <1>6 DEF Deque
<1>7. p # NoPromise /\ ~b => Len(u) < LIMIT
  <2>1. p # NoPromise /\ ~b => Len(s) <= LIMIT
    BY DEF Deque
  <2> QED
    BY <1>1, <1>2, <2>1
<1>8. p # NoPromise /\ ~b => Len(u) <= LIMIT /\ (Len(u) = LIMIT => Head(u) + Most(p, 0) > WINDOW)
  <2>1. Len(u) \in Nat /\ LIMIT \in Nat
    BY <1>1, <1>2
  <2> QED
    BY <1>7, <2>1
<1> QED
  BY <1>5, <1>6, <1>8 DEF Deque, u

\* What a call whose now is age ticks old knows of the deque, when it has seen a
\* first entry that it still counts, or none: there is no more than was let
\* through, and no other one where a wait is over.
Sees(s, g, p, b, age) ==
  /\ Times(s, 0, Oldest) <= g[Oldest]
  /\ age = 0 => \A i \in DOMAIN s : s[i] <= WINDOW
  /\ p # NoPromise /\ p + age <= 0 /\ ~b => Len(s) < LIMIT

\* It sees that by the order of the deque.
LEMMA SeesFirst ==
  ASSUME NEW s \in Seq(Age), NEW g, NEW p \in NoPromise .. WINDOW + 1, NEW b, NEW age \in 0 .. 1,
         Ages(g), Deque(s, g, p, b), s # <<>> => Head(s) - age < WINDOW
  PROVE  Sees(s, g, p, b, age)
<1> USE LimitAssumption
<1>1. g[Oldest] \in Nat
  BY DEF Ages, Oldest
<1>2. CASE s = <<>>
  <2>1. Times(s, 0, Oldest) = 0 /\ Len(s) = 0 /\ DOMAIN s = {}
    BY <1>2, TimesNone
  <2> QED
    BY <1>1, <2>1 DEF Sees
<1>3. CASE s # <<>>
  <2>1. /\ 1 \in DOMAIN s /\ Head(s) = s[1] /\ s[1] - age < WINDOW /\ DOMAIN s = 1 .. Len(s)
        /\ \A i \in DOMAIN s : s[i] \in 0 .. Oldest
    <3>1. 1 \in DOMAIN s /\ Head(s) = s[1]
      BY <1>3, ListOf, EmptySeq
    <3>2. DOMAIN s = 1 .. Len(s) /\ \A i \in DOMAIN s : s[i] \in 0 .. Oldest
      BY ListOf DEF Age
    <3>3. Head(s) - age < WINDOW
      BY <1>3
    <3> QED
      BY <3>1, <3>2, <3>3
  <2> DEFINE e == s[1]
  <2>2. e \in Int /\ Head(s) = e /\ e <= WINDOW /\ e # Oldest /\ (age = 0 => e < WINDOW)
    <3>1. e \in Int /\ e - age < WINDOW /\ (age = 0 \/ age = 1) /\ Head(s) = e
      BY <2>1 DEF Oldest
    <3> HIDE DEF e
    <3> QED
      BY <3>1 DEF Oldest
  <2>3. Times(s, 0, Oldest) <= g[Oldest]
    <3>1. Times(s, 0, Oldest) = Times(s, 1, Oldest)
      <4>1. Times(s, 1, Oldest) \in Nat
        BY TimesType
      <4> QED
        BY <1>3, <2>2, <4>1, TimesHead
    <3> QED
      BY <2>1, <2>2, <3>1 DEF Deque
  <2>4. ASSUME age = 0, NEW i \in DOMAIN s PROVE s[i] <= WINDOW
    <3>1. i = 1 \/ 1 < i
      BY <2>1
    <3>2. 1 < i => s[i] <= s[1] + 1
      BY <2>1 DEF Deque
    <3> QED
      BY <2>1, <2>4, <3>1, <3>2 DEF Oldest
  <2>5. ASSUME p # NoPromise, p + age <= 0, ~b PROVE Len(s) < LIMIT
    <3>1. Len(s) <= LIMIT /\ (Len(s) = LIMIT => Head(s) + Most(p, 0) > WINDOW)
      BY <2>5 DEF Deque
    <3>2. Most(p, 0) = 0
      BY <2>5 DEF Most, NoPromise
    <3> HIDE DEF e
    <3>3. ~(e + 0 > WINDOW)
      BY <2>2
    <3>4. Len(s) # LIMIT
      BY <2>2, <3>1, <3>2, <3>3
    <3> QED
      BY <3>1, <3>4, LenProperties
  <2> QED
    BY <2>3, <2>4, <2>5 DEF Sees
<1> QED
  BY <1>2, <1>3

\* A tick later it still does.
LEMMA SeesTick ==
  ASSUME NEW s \in Seq(Age), NEW g, NEW h, NEW p \in NoPromise .. WINDOW + 1, NEW b,
         Ages(g), Shifted(g, h), Log(s, g, NoTtl), Sees(s, g, p, b, 0)
  PROVE  Sees(Aged(s, WINDOW), h, IF p >= 0 THEN p - 1 ELSE p, b, 1)
<1> USE LimitAssumption
<1> DEFINE u == Aged(s, WINDOW)
<1>1. Len(u) = Len(s) /\ Times(u, 0, Oldest) = Times(s, 0, WINDOW) + Times(s, 0, Oldest)
  BY TimesAged DEF Age, Oldest
<1>2. h[Oldest] = g[WINDOW] /\ g[WINDOW] \in Nat
  BY DEF Shifted, Ages, Oldest
<1>3. Times(s, 0, Oldest) = 0
  <2>1. \A i \in DOMAIN s : s[i] # Oldest
    BY ListOf DEF Sees, Age, Oldest
  <2> QED
    BY <2>1, TimesNever
<1>4. Times(s, 0, WINDOW) <= g[WINDOW] /\ Times(s, 0, WINDOW) \in Nat
  BY TimesType DEF Log
<1>5. ASSUME (IF p >= 0 THEN p - 1 ELSE p) # NoPromise, (IF p >= 0 THEN p - 1 ELSE p) + 1 <= 0, ~b
      PROVE  Len(s) < LIMIT
  BY <1>5 DEF Sees, NoPromise
<1> HIDE DEF u
<1> QED
  BY <1>1, <1>2, <1>3, <1>4, <1>5 DEF Sees, u

\* So it does when a request was let through and appended.
LEMMA SeesGrant ==
  ASSUME NEW s \in Seq(Age), NEW g, NEW h, NEW p, NEW b, NEW age, NEW e \in 0 .. 1,
         Ages(g), Gained(g, h, e), Sees(s, g, p, b, age)
  PROVE  Sees(Append(s, e), h, NoPromise, FALSE, age)
<1> USE LimitAssumption
<1> DEFINE u == Append(s, e)
<1>1. Len(s) \in Nat /\ DOMAIN s = 1 .. Len(s) /\ e \in Age /\ e # Oldest /\ e <= WINDOW
  BY ListOf DEF Age, Oldest
<1>2. /\ DOMAIN u = 1 .. Len(s) + 1
      /\ u[Len(s) + 1] = e /\ \A i \in 1 .. Len(s) : u[i] = s[i]
  BY <1>1, AppendProperties
<1>3. Times(u, 0, Oldest) = Times(s, 0, Oldest)
  <2>1. 0 \in 0 .. Len(s) /\ Times(s, 0, Oldest) \in Nat
    BY <1>1, TimesType
  <2> QED
    BY <1>1, <2>1, TimesAppend
<1>4. h[Oldest] = g[Oldest]
  BY <1>1 DEF Gained, Oldest
<1> HIDE DEF u
<1>5. ASSUME age = 0, NEW i \in DOMAIN u PROVE u[i] <= WINDOW
  <2>1. i = Len(s) + 1 \/ i \in DOMAIN s
    BY <1>1, <1>2
  <2> QED
    BY <1>1, <1>2, <1>5, <2>1 DEF Sees
<1> QED
  BY <1>3, <1>4, <1>5 DEF Sees, u

\* So it does when another thread popped the first entry, whichever it was.
LEMMA SeesDrops ==
  ASSUME NEW s \in Seq(Age), s # <<>>, NEW g, NEW h, NEW p, NEW b, NEW age,
         h[Oldest] = g[Oldest], g[Oldest] \in Nat, Sees(s, g, p, b, age)
  PROVE  Sees(Tail(s), h, p, b, age)
<1> DEFINE u == Tail(s)
<1>1. /\ Len(s) \in Nat \ {0} /\ DOMAIN s = 1 .. Len(s) /\ Len(u) = Len(s) - 1
      /\ DOMAIN u = 1 .. Len(s) - 1 /\ \A i \in 1 .. Len(s) - 1 : u[i] = s[i + 1]
  <2>1. Len(s) \in Nat \ {0} /\ DOMAIN s = 1 .. Len(s)
    BY ListOf, EmptySeq
  <2> QED
    BY <2>1, HeadTailProperties, LenProperties
<1>2. Times(u, 0, Oldest) <= Times(s, 0, Oldest)
  <2>1. Times(u, 0, Oldest) = Times(s, 0 + 1, Oldest)
    BY TimesTail, SMTT(30)
  <2>2. Times(s, 1, Oldest) <= Times(s, 0, Oldest)
    BY TimesFall
  <2> QED
    BY <2>1, <2>2
<1>3. Times(u, 0, Oldest) \in Nat /\ Times(s, 0, Oldest) \in Nat
  <2>1. u \in Seq(Age)
    BY HeadTailProperties
  <2> HIDE DEF u
  <2> QED
    BY <2>1, TimesType
<1> HIDE DEF u
<1>4. ASSUME age = 0, NEW i \in DOMAIN u PROVE u[i] <= WINDOW
  <2>1. i + 1 \in DOMAIN s /\ u[i] = s[i + 1]
    BY <1>1
  <2> QED
    BY <1>4, <2>1 DEF Sees
<1>5. Len(s) < LIMIT => Len(u) < LIMIT
  BY <1>1, LimitAssumption
<1> QED
  BY <1>2, <1>3, <1>4, <1>5 DEF Sees, u

\* What it then counts is no more than was let through.
LEMMA SeesEarned ==
  ASSUME NEW s \in Seq(Age), NEW g, NEW p, NEW b, NEW age, Ages(g),
         Log(s, g, NoTtl), Sees(s, g, p, b, age)
  PROVE  Len(s) <= Over(g, 0, Oldest)
<1> USE LimitAssumption
<1>1. \A i \in DOMAIN s : s[i] \in 0 .. Oldest
  BY ListOf DEF Age
<1>2. \A a \in 0 .. Oldest : Times(s, 0, a) <= g[a]
  BY DEF Log, Sees, Oldest
<1>3. Oldest \in 0 .. Oldest /\ \A j \in DOMAIN s : s[j] <= Oldest
  BY <1>1 DEF Oldest
<1> QED
  BY <1>2, <1>3, LogEarned

-----------------------------------------------------------------------------
(* Fixed windows *)

\* The lesser of two numbers.
Least(a, b) == IF a < b THEN a ELSE b

\* How much of the current bucket is over, and which bucket it is.
Elapsed(ph) == IF ph < WINDOW THEN ph ELSE ph - WINDOW
\* ... and which of the two buckets it is.
Current(ph) == IF ph < WINDOW THEN 0 ELSE 1

\* What the buckets count is what was granted, up to the quota.
Buckets(g, c, ph) ==
  /\ Over(g, 0, Elapsed(ph)) = Least(c[Current(ph)], LIMIT)
  /\ Over(g, Elapsed(ph) + 1, WINDOW) <= LIMIT
  /\ Elapsed(ph) = 0 => Over(g, 1, WINDOW) = Least(c[1 - Current(ph)], LIMIT)

\* The bucket of a call whose now is age ticks old.
BucketOf(ph, age) ==
  IF age = 0 \/ Elapsed(ph) > 0 THEN Current(ph) ELSE 1 - Current(ph)

\* The remainders there are.
LEMMA Modulo ==
  ASSUME NEW m \in Nat \ {0}, NEW k \in 0 .. m - 1
  PROVE  /\ k % m = k /\ (k + m) % m = k
         /\ k < m /\ k \div m = 0 /\ (k + m) \div m = 1
OBVIOUS

\* A tick leaves the buckets true; if it is the first of a bucket, the other one's
\* count is what was let through in the window just over.
LEMMA BucketsTick ==
  ASSUME NEW g, NEW h, Ages(g), Shifted(g, h), NEW c \in [0 .. 1 -> 0 .. LIMIT + 1],
         NEW ph \in 0 .. 2 * WINDOW - 1, NEW qh \in 0 .. 2 * WINDOW - 1,
         qh = IF ph = 2 * WINDOW - 1 THEN 0 ELSE ph + 1,
         Buckets(g, c, ph)
  PROVE  Buckets(h, [b \in 0 .. 1 |-> IF qh = b * WINDOW THEN 0 ELSE c[b]], qh)
<1> USE LimitAssumption
<1> DEFINE d == [b \in 0 .. 1 |-> IF qh = b * WINDOW THEN 0 ELSE c[b]]
           E == Elapsed(ph)
           C == Current(ph)
<1>1. /\ E \in 0 .. WINDOW - 1 /\ C \in 0 .. 1 /\ WINDOW \in Nat \ {0} /\ LIMIT \in Nat \ {0}
      /\ c[C] \in Nat /\ c[1 - C] \in Nat
  BY DEF Elapsed, Current
<1>2. d[0] = (IF qh = 0 THEN 0 ELSE c[0]) /\ d[1] = (IF qh = WINDOW THEN 0 ELSE c[1])
  OBVIOUS
<1>3. CASE E < WINDOW - 1
  <2>1. Elapsed(qh) = E + 1 /\ Current(qh) = C /\ qh # 0 /\ qh # WINDOW
    BY <1>3 DEF Elapsed, Current
  <2>2. d[C] = c[C]
    BY <1>1, <1>2, <2>1
  <2> HIDE DEF d, E, C
  <2>3. Over(h, 0, E + 1) = Over(g, 0, E)
    <3> DEFINE n == E + 1
    <3>1. n \in Int /\ n <= Oldest /\ n = E + 1
      BY <1>1, <1>3 DEF Oldest
    <3> HIDE DEF n
    <3>2. Over(h, 0, n) = Over(g, 0, E)
      BY <1>1, <3>1, OlderOver
    <3> QED
      BY <3>2 DEF n
  <2>4. Over(h, E + 1 + 1, WINDOW) = Over(g, E + 1, WINDOW - 1)
    <3> DEFINE m == E + 1 + 1
               k == E + 1
               l == WINDOW - 1
    <3>1. /\ m \in Int /\ k \in Int /\ m >= 1 /\ m = k + 1
          /\ l \in Int /\ WINDOW \in Int /\ WINDOW = l + 1 /\ WINDOW <= Oldest
      BY <1>1 DEF Oldest
    <3> HIDE DEF m, k, l
    <3>2. Over(h, m, WINDOW) = Over(g, k, l)
      BY <3>1, OlderOver
    <3> QED
      BY <3>2 DEF m, k, l
  <2>5. Over(g, E + 1, WINDOW - 1) <= Over(g, E + 1, WINDOW) /\ Over(g, E + 1, WINDOW - 1) \in Nat
         /\ Over(g, E + 1, WINDOW) \in Nat
    <3> DEFINE k == E + 1
               l == WINDOW - 1
    <3>1. /\ k \in Nat /\ k \in Int /\ l \in Int /\ WINDOW \in Int
          /\ l <= WINDOW /\ WINDOW <= Oldest /\ k <= k /\ l <= Oldest
      BY <1>1 DEF Oldest
    <3> HIDE DEF k, l
    <3>2. Over(g, k, l) <= Over(g, k, WINDOW)
      BY <3>1, AgesWithin
    <3>3. Over(g, k, l) \in Nat /\ Over(g, k, WINDOW) \in Nat
      BY <3>1, AgesOver
    <3> QED
      BY <3>2, <3>3 DEF k, l
  <2>6. Over(g, 0, E) = Least(c[C], LIMIT) /\ Over(g, E + 1, WINDOW) <= LIMIT
    BY DEF Buckets, E, C
  <2>7. Over(h, E + 1 + 1, WINDOW) <= LIMIT
    BY <1>1, <2>4, <2>5, <2>6
  <2>8. Over(h, 0, E + 1) = Least(d[C], LIMIT)
    BY <2>2, <2>3, <2>6
  <2>9. E + 1 # 0
    BY <1>1
  <2>10. Buckets(h, d, qh)
    BY <2>1, <2>7, <2>8, <2>9 DEF Buckets
  <2> QED
    BY <2>10 DEF d
<1>4. CASE E = WINDOW - 1
  <2>1. Elapsed(qh) = 0 /\ Current(qh) = 1 - C /\ qh = (1 - C) * WINDOW /\ qh # C * WINDOW
        /\ 1 - C \in 0 .. 1 /\ 1 - (1 - C) = C
    BY <1>4 DEF Elapsed, Current
  <2>2. d[1 - C] = 0 /\ d[C] = c[C]
    BY <1>1, <2>1
  <2> HIDE DEF d, E, C
  <2>3. Over(h, 0, 0) = 0
    <3>1. h[0] = 0
      BY DEF Shifted, Oldest
    <3> QED
      BY <3>1, OverOne
  <2>4. Over(h, 1, WINDOW) = Over(g, 0, WINDOW - 1)
    <3> DEFINE l == WINDOW - 1
    <3>1. /\ l \in Int /\ WINDOW \in Int /\ WINDOW = l + 1 /\ WINDOW <= Oldest
          /\ 1 \in Int /\ 0 \in Int /\ 1 >= 1 /\ 1 = 0 + 1
      BY <1>1 DEF Oldest
    <3> HIDE DEF l
    <3>2. Over(h, 1, WINDOW) = Over(g, 0, l)
      BY <3>1, OlderOver
    <3> QED
      BY <3>2 DEF l
  <2>5. Over(g, 0, WINDOW - 1) = Least(c[C], LIMIT)
    BY <1>4 DEF Buckets, E, C
  <2>6. Least(c[C], LIMIT) <= LIMIT /\ Least(0, LIMIT) = 0
    BY <1>1 DEF Least
  <2>7. Buckets(h, d, qh)
    BY <2>1, <2>2, <2>3, <2>4, <2>5, <2>6 DEF Buckets
  <2> QED
    BY <2>7 DEF d
<1> QED
  BY <1>1, <1>3, <1>4

\* One request: let through below the quota, and counted anyway.
LEMMA BucketsCount ==
  ASSUME NEW g, NEW h, Ages(g), NEW c \in [0 .. 1 -> 0 .. LIMIT + 1],
         NEW ph \in 0 .. 2 * WINDOW - 1, NEW age \in 0 .. 1,
         NEW b, b = BucketOf(ph, age), NEW n, n = Incremented(c[b]),
         IF n <= LIMIT THEN Gained(g, h, age) ELSE h = g,
         Buckets(g, c, ph)
  PROVE  /\ Buckets(h, [c EXCEPT ![b] = n], ph)
         /\ n > LIMIT => Over(g, 0, Oldest) >= LIMIT
<1> USE LimitAssumption
<1> DEFINE d == [c EXCEPT ![b] = n]
           E == Elapsed(ph)
           C == Current(ph)
<1>1. /\ E \in 0 .. WINDOW - 1 /\ C \in 0 .. 1 /\ WINDOW \in Nat \ {0} /\ LIMIT \in Nat \ {0}
      /\ c[C] \in Nat /\ c[1 - C] \in Nat /\ 1 - C \in 0 .. 1 /\ 1 - C # C
      /\ b = IF age = 0 \/ E > 0 THEN C ELSE 1 - C
  BY DEF Elapsed, Current, BucketOf
<1>2. /\ d[b] = n /\ \A x \in 0 .. 1 : x # b => d[x] = c[x]
      /\ b \in 0 .. 1 /\ c[b] \in Nat
  BY <1>1
<1>3. n = IF c[b] > LIMIT THEN c[b] ELSE c[b] + 1
  BY DEF Incremented
<1>4. /\ Over(g, 0, E) = Least(c[C], LIMIT) /\ Over(g, E + 1, WINDOW) <= LIMIT
      /\ E = 0 => Over(g, 1, WINDOW) = Least(c[1 - C], LIMIT)
  BY DEF Buckets
<1> HIDE DEF d, E, C
<1>5. /\ 0 \in Nat /\ 1 \in Nat /\ E + 1 \in Nat /\ WINDOW \in Int /\ E \in Int /\ Oldest \in Int
      /\ E <= Oldest /\ WINDOW <= Oldest /\ 0 \in Int /\ 1 \in Int
  BY <1>1 DEF Oldest
<1>6. /\ Over(g, 0, E) \in Nat /\ Over(g, E + 1, WINDOW) \in Nat /\ Over(g, 1, WINDOW) \in Nat
      /\ Over(g, 0, Oldest) \in Nat
      /\ Over(g, 0, E) <= Over(g, 0, Oldest) /\ Over(g, 1, WINDOW) <= Over(g, 0, Oldest)
  <2>1. /\ Over(g, 0, E) \in Nat /\ Over(g, 1, WINDOW) \in Nat /\ Over(g, 0, Oldest) \in Nat
    BY <1>5, AgesOver
  <2>2. Over(g, 0, E) <= Over(g, 0, Oldest) /\ Over(g, 1, WINDOW) <= Over(g, 0, Oldest)
    BY <1>5, AgesWithin
  <2>3. Over(g, E + 1, WINDOW) \in Nat
    <3> DEFINE F == E + 1
    <3>1. F \in Nat
      BY <1>5
    <3> HIDE DEF F
    <3>2. Over(g, F, WINDOW) \in Nat
      BY <1>5, <3>1, AgesOver
    <3> QED
      BY <3>2 DEF F
  <2> QED
    BY <2>1, <2>3, <2>2
<1>7. CASE n <= LIMIT
  <2>1. ~(n > LIMIT) /\ n = c[b] + 1 /\ Least(c[b], LIMIT) + 1 = Least(n, LIMIT) /\ Least(n, LIMIT) <= LIMIT
    BY <1>1, <1>2, <1>3, <1>7 DEF Least
  <2>2. /\ Over(h, 0, E) = IF age \in 0 .. E THEN Over(g, 0, E) + 1 ELSE Over(g, 0, E)
        /\ Over(h, E + 1, WINDOW) = IF age \in E + 1 .. WINDOW THEN Over(g, E + 1, WINDOW) + 1
                                    ELSE Over(g, E + 1, WINDOW)
        /\ Over(h, 1, WINDOW) = IF age \in 1 .. WINDOW THEN Over(g, 1, WINDOW) + 1
                                ELSE Over(g, 1, WINDOW)
    BY <1>5, <1>7, GainedOver
  <2>3. CASE age = 0 \/ E > 0
    <3>1. b = C /\ age \in 0 .. E /\ age \notin E + 1 .. WINDOW /\ (E = 0 => age \notin 1 .. WINDOW)
      BY <1>1, <2>3
    <3>2. d[C] = n /\ d[1 - C] = c[1 - C]
      BY <1>1, <1>2, <3>1
    <3>3. /\ Over(h, 0, E) = Least(d[C], LIMIT)
          /\ Over(h, E + 1, WINDOW) <= LIMIT
          /\ E = 0 => Over(h, 1, WINDOW) = Least(d[1 - C], LIMIT)
      BY <1>4, <2>1, <2>2, <3>1, <3>2
    <3> QED
      BY <2>1, <3>3 DEF Buckets, E, C, d
  <2>4. CASE age = 1 /\ E = 0
    <3>1. b = 1 - C /\ age \notin 0 .. E /\ age \in 1 .. WINDOW /\ E + 1 = 1
      BY <1>1, <2>4
    <3>2. d[1 - C] = n /\ d[C] = c[C]
      BY <1>1, <1>2, <3>1
    <3>3. /\ Over(h, 0, E) = Least(d[C], LIMIT)
          /\ Over(h, 1, WINDOW) = Least(d[1 - C], LIMIT)
      BY <1>4, <2>1, <2>2, <2>4, <3>1, <3>2
    <3>4. Over(h, E + 1, WINDOW) <= LIMIT
      BY <2>1, <3>1, <3>2, <3>3
    <3> QED
      BY <2>1, <3>3, <3>4 DEF Buckets, E, C, d
  <2> QED
    BY <1>1, <2>3, <2>4
<1>8. CASE ~(n <= LIMIT)
  <2>1. /\ h = g
        /\ Least(c[b], LIMIT) = LIMIT /\ Least(n, LIMIT) = LIMIT
    BY <1>1, <1>2, <1>3, <1>8 DEF Least
  <2>2. \A x \in 0 .. 1 : Least(d[x], LIMIT) = Least(c[x], LIMIT)
    BY <1>2, <2>1
  <2>3. Buckets(g, d, ph)
    BY <1>1, <1>4, <2>2 DEF Buckets, E, C
  <2>4. Over(g, 0, Oldest) >= LIMIT
    <3>1. CASE b = C
      BY <1>1, <1>4, <1>6, <2>1, <3>1
    <3>2. CASE b = 1 - C /\ E = 0
      BY <1>1, <1>4, <1>6, <2>1, <3>2
    <3> QED
      BY <1>1, <3>1, <3>2
  <2> QED
    BY <2>1, <2>3, <2>4 DEF d
<1> QED
  BY <1>7, <1>8

\* A window touches two buckets.
LEMMA BucketsQuota ==
  ASSUME NEW g, Ages(g), NEW c \in [0 .. 1 -> 0 .. LIMIT + 1],
         NEW ph \in 0 .. 2 * WINDOW - 1, Buckets(g, c, ph)
  PROVE  Over(g, 0, WINDOW - 1) <= 2 * LIMIT
<1> USE LimitAssumption
<1> DEFINE E == Elapsed(ph)
           F == E + 1
           V == WINDOW - 1
<1>1. /\ E \in 0 .. WINDOW - 1 /\ Current(ph) \in 0 .. 1 /\ c[Current(ph)] \in Nat
      /\ F \in Nat /\ F \in Int /\ V \in Int /\ V <= WINDOW /\ WINDOW <= Oldest
      /\ F = E + 1 /\ 0 <= F /\ E <= WINDOW /\ E \in Int
      /\ 0 \in Nat /\ 0 \in Int /\ WINDOW \in Int /\ E <= Oldest
  BY DEF Elapsed, Current, Oldest
<1>2. Over(g, 0, E) <= LIMIT /\ Over(g, F, WINDOW) <= LIMIT
  BY <1>1 DEF Buckets, Least
<1> HIDE DEF E, F, V
<1>3. /\ Over(g, 0, V) <= Over(g, 0, WINDOW)
      /\ Over(g, 0, WINDOW) = Over(g, 0, E) + Over(g, F, WINDOW)
      /\ Over(g, 0, V) \in Nat
      /\ Over(g, 0, E) \in Nat /\ Over(g, F, WINDOW) \in Nat
  <2>1. /\ Over(g, 0, V) \in Nat /\ Over(g, 0, E) \in Nat /\ Over(g, F, WINDOW) \in Nat
    <3>1. V <= Oldest
      BY <1>1 DEF V, Oldest
    <3> QED
      BY <1>1, <3>1, AgesOver
  <2>2. Over(g, 0, V) <= Over(g, 0, WINDOW)
    BY <1>1, AgesWithin
  <2>3. Over(g, 0, WINDOW) = Over(g, 0, E) + Over(g, F, WINDOW)
    BY <1>1, AgesSplit
  <2> QED
    BY <2>1, <2>2, <2>3
<1>4. Over(g, 0, V) <= 2 * LIMIT
  BY <1>2, <1>3
<1> QED
  BY <1>4 DEF V

-----------------------------------------------------------------------------
(* INCR and EXPIRE *)

\* A key counts up to n, and its first INCR was b ticks ago (or longer).
Since(g, n, x, b) ==
  /\ Over(g, 0, b - 1) < Least(n, LIMIT)
  /\ Over(g, 0, b) <= Least(n, LIMIT)
  /\ Over(g, b + 1, WINDOW - 1) < LIMIT
  /\ x # NoTtl => b >= WINDOW - x

\* A counter, what was granted, the key's ttl.
Counter(g, n, x) ==
  /\ n = 0 => Over(g, 0, WINDOW - 1) < LIMIT /\ g[0] = 0 /\ x = NoTtl
  /\ n > 0 => \E b \in 0 .. WINDOW : Since(g, n, x, b)

\* An INCR that stays within the limit.
LEMMA CounterGrant ==
  ASSUME NEW g, NEW h, Ages(g), NEW n \in 0 .. LIMIT + 1, NEW x \in {NoTtl} \cup 1 .. WINDOW,
         n < LIMIT, Gained(g, h, 0), Counter(g, n, x)
  PROVE  Counter(h, n + 1, x)
<1> USE LimitAssumption
<1> DEFINE V == WINDOW - 1
<1>1. V \in Nat /\ V <= Oldest /\ V \in Int /\ WINDOW \in Int /\ Oldest \in Int
  BY DEF Oldest
<1>2. CASE n = 0
  <2>1. Over(g, 0, V) < LIMIT /\ g[0] = 0 /\ x = NoTtl /\ h[0] = 1
    BY <1>2 DEF Counter, Gained, Oldest
  <2>2. Over(h, 0, 0) = 1
    BY <2>1, OverOne
  <2>3. Over(h, 0, 0 - 1) = 0
    <3> DEFINE z == 0 - 1
    <3>1. z \in Int /\ z < 0
      OBVIOUS
    <3>2. \A y \in 0 .. z : h[y] \in Nat
      OBVIOUS
    <3> HIDE DEF z
    <3>3. Over(h, 0, z) = 0
      BY <3>1, <3>2, OverType
    <3> QED
      BY <3>3 DEF z
  <2>4. Over(h, 0 + 1, WINDOW - 1) < LIMIT
    <3> DEFINE i == 0 + 1
    <3>1. i \in Nat /\ i \in Int /\ 0 <= i /\ 0 \notin i .. V /\ 0 \in Nat
      OBVIOUS
    <3> HIDE DEF i, V
    <3>2. Over(h, i, V) = Over(g, i, V)
      BY <1>1, <3>1, GainedOver
    <3>3. Over(g, i, V) <= Over(g, 0, V)
      BY <1>1, <3>1, AgesWithin
    <3>4. Over(g, i, V) \in Nat /\ Over(g, 0, V) \in Nat
      BY <1>1, <3>1, AgesOver
    <3>5. Over(h, i, V) < LIMIT
      BY <2>1, <3>2, <3>3, <3>4
    <3> QED
      BY <3>5 DEF i, V
  <2>5. Least(0 + 1, LIMIT) = 1
    BY DEF Least
  <2>6. Since(h, 0 + 1, x, 0)
    BY <2>1, <2>2, <2>3, <2>4, <2>5 DEF Since
  <2> QED
    BY <1>2, <2>6 DEF Counter
<1>3. CASE n > 0
  <2>1. PICK b \in 0 .. WINDOW : Since(g, n, x, b)
    BY <1>3 DEF Counter
  <2> DEFINE a == b - 1
             c == b + 1
  <2>2. /\ a \in Int /\ b \in Int /\ c \in Nat /\ a <= Oldest /\ b <= Oldest /\ 0 \in Nat
        /\ 0 \notin c .. V
    BY DEF Oldest
  <2>3. Least(n, LIMIT) = n /\ Least(n + 1, LIMIT) = n + 1
    BY DEF Least
  <2>4. Over(g, 0, a) < n /\ Over(g, 0, b) <= n /\ Over(g, c, V) < LIMIT /\ (x # NoTtl => b >= WINDOW - x)
    BY <2>1, <2>3 DEF Since
  <2> HIDE DEF a, c, V
  <2>5. Over(g, 0, a) \in Nat /\ Over(g, 0, b) \in Nat
    BY <2>2, AgesOver
  <2>6. Over(h, 0, a) <= Over(g, 0, a) + 1 /\ Over(h, 0, b) <= Over(g, 0, b) + 1
    <3>1. Over(h, 0, a) = IF 0 \in 0 .. a THEN Over(g, 0, a) + 1 ELSE Over(g, 0, a)
      BY <2>2, GainedOver
    <3>2. Over(h, 0, b) = IF 0 \in 0 .. b THEN Over(g, 0, b) + 1 ELSE Over(g, 0, b)
      BY <2>2, GainedOver
    <3> QED
      BY <2>5, <3>1, <3>2
  <2>7. Over(h, c, V) = Over(g, c, V)
    BY <1>1, <2>2, GainedOver
  <2>8. Over(h, 0, a) \in Nat /\ Over(h, 0, b) \in Nat
    <3>1. Ages(h)
      BY GainedAges
    <3> QED
      BY <2>2, <3>1, AgesOver
  <2>9. Over(h, 0, a) < n + 1 /\ Over(h, 0, b) <= n + 1 /\ Over(h, c, V) < LIMIT
    BY <2>4, <2>5, <2>6, <2>7, <2>8
  <2>10. Since(h, n + 1, x, b)
    BY <2>3, <2>4, <2>9 DEF Since, a, c, V
  <2>11. n + 1 # 0
    BY <1>3
  <2> QED
    BY <2>10, <2>11 DEF Counter
<1> QED
  BY <1>2, <1>3

\* Counting on beyond the quota changes nothing.
LEMMA CounterDeny ==
  ASSUME NEW g, Ages(g), NEW n \in 0 .. LIMIT + 1, NEW x, NEW m \in 0 .. LIMIT + 1,
         n >= LIMIT, m >= n, Counter(g, n, x)
  PROVE  Counter(g, m, x)
<1>1. Least(n, LIMIT) = Least(m, LIMIT) /\ n > 0 /\ m > 0
  BY LimitAssumption DEF Least
<1>2. PICK b \in 0 .. WINDOW : Since(g, n, x, b)
  BY <1>1 DEF Counter
<1>3. Since(g, m, x, b)
  BY <1>1, <1>2 DEF Since
<1> QED
  BY <1>1, <1>3 DEF Counter

\* EXPIRE.
LEMMA CounterExpire ==
  ASSUME NEW g, Ages(g), NEW n \in 0 .. LIMIT + 1, NEW x, n > 0, Counter(g, n, x)
  PROVE  Counter(g, n, WINDOW)
<1>1. PICK b \in 0 .. WINDOW : Since(g, n, x, b)
  BY DEF Counter
<1>2. Since(g, n, WINDOW, b)
  BY <1>1, LimitAssumption DEF Since
<1>3. n # 0
  OBVIOUS
<1> QED
  BY <1>2, <1>3 DEF Counter

\* A tick; if the key expires, the window since its first INCR is over.
LEMMA CounterTick ==
  ASSUME NEW g, NEW h, Ages(g), Shifted(g, h),
         NEW n \in 0 .. LIMIT + 1, NEW x \in {NoTtl} \cup 1 .. WINDOW, Counter(g, n, x)
  PROVE  Counter(h, IF x = 1 THEN 0 ELSE n, IF x \in {NoTtl, 1} THEN NoTtl ELSE x - 1)
<1> USE LimitAssumption
<1> DEFINE V == WINDOW - 1
           U == WINDOW - 2
           y == IF x \in {NoTtl, 1} THEN NoTtl ELSE x - 1
<1>1. /\ V \in Nat /\ V <= Oldest /\ V \in Int /\ WINDOW \in Int /\ Oldest \in Int
      /\ U \in Int /\ U <= V /\ V = U + 1 /\ 0 \in Nat /\ 0 \in Int /\ 0 <= 0 /\ WINDOW <= Oldest
      /\ WINDOW = V + 1 /\ V <= WINDOW
  BY DEF Oldest
<1>2. h[0] = 0
  BY DEF Shifted, Oldest
<1>3. Ages(h)
  BY OlderAges
<1> HIDE DEF U, V
<1>4. Over(h, 0, V) = Over(g, 0, U) /\ Over(h, 0, WINDOW) = Over(g, 0, V)
  BY <1>1, OlderOver
<1>5. Over(g, 0, U) <= Over(g, 0, V)
  BY <1>1, AgesWithin
<1>6. Over(g, 0, V) \in Nat /\ Over(g, 0, WINDOW) \in Nat
  BY <1>1, AgesOver
<1>7. Over(g, 0, U) \in Nat
  <2>1. U <= Oldest
    BY <1>1
  <2> QED
    BY <1>1, <2>1, AgesOver
<1>8. CASE n = 0
  <2>1. Over(g, 0, V) < LIMIT /\ x = NoTtl
    BY <1>8 DEF Counter, V
  <2>2. Over(h, 0, V) < LIMIT
    BY <1>4, <1>5, <1>6, <1>7, <2>1
  <2>3. Counter(h, 0, NoTtl)
    BY <1>2, <2>2 DEF Counter, V
  <2> QED
    BY <1>8, <2>1, <2>3 DEF NoTtl
<1>9. CASE n > 0 /\ x = 1
  <2>1. PICK b \in 0 .. WINDOW : Since(g, n, x, b)
    BY <1>9 DEF Counter
  <2> DEFINE a == b - 1
  <2>2. a \in Int /\ a <= Oldest /\ U <= a
    BY <1>9, <2>1 DEF Since, NoTtl, Oldest, U
  <2>3. Over(g, 0, a) < LIMIT
    <3>1. Over(g, 0, a) < Least(n, LIMIT)
      BY <2>1 DEF Since
    <3>2. Over(g, 0, a) \in Nat
      BY <1>1, <2>2, AgesOver
    <3> HIDE DEF a
    <3> QED
      BY <3>1, <3>2 DEF Least
  <2> HIDE DEF a
  <2>4. Over(g, 0, U) <= Over(g, 0, a) /\ Over(g, 0, a) \in Nat
    BY <1>1, <2>2, AgesWithin, AgesOver
  <2>5. Over(h, 0, V) < LIMIT
    BY <1>4, <1>7, <2>3, <2>4
  <2>6. Counter(h, 0, NoTtl)
    BY <1>2, <2>5 DEF Counter, V
  <2> QED
    BY <1>9, <2>6
<1>10. CASE n > 0 /\ x # 1
  <2>1. PICK b \in 0 .. WINDOW : Since(g, n, x, b)
    BY <1>10 DEF Counter
  <2> DEFINE a == b - 1
             c == b + 1
             d == b + 1 + 1
             L == Least(n, LIMIT)
  <2>2. Over(g, 0, a) < L /\ Over(g, 0, b) <= L /\ Over(g, c, V) < LIMIT
    BY <2>1 DEF Since, V
  <2>3. y # NoTtl => y = x - 1 /\ x # NoTtl /\ x \in Int /\ b >= WINDOW - x
    BY <1>10, <2>1 DEF Since
  <2>4. L \in Int
    BY DEF Least
  <2>5. CASE b < WINDOW
    <3>1. /\ a \in Int /\ b \in Int /\ c \in Int /\ d \in Int /\ b = a + 1 /\ c = b + 1 /\ d = c + 1
          /\ b <= Oldest /\ c <= Oldest /\ d >= 1 /\ c \in Nat /\ d \in Nat /\ c <= c /\ c \in 0 .. WINDOW
      BY <2>5 DEF Oldest
    <3>2. y # NoTtl => c >= WINDOW - y
      BY <2>3
    <3> HIDE DEF a, c, d, L, y
    <3>3. Over(h, 0, b) = Over(g, 0, a) /\ Over(h, 0, c) = Over(g, 0, b)
      BY <3>1, OlderOver
    <3>4. Over(h, d, V) = Over(g, c, U)
      BY <1>1, <3>1, OlderOver
    <3>5. Over(g, c, U) <= Over(g, c, V)
      BY <1>1, <3>1, AgesWithin
    <3>6. Over(g, c, V) \in Nat
      BY <1>1, <3>1, AgesOver
    <3>7. Over(h, d, V) \in Nat
      BY <1>1, <1>3, <3>1, AgesOver
    <3>8. Over(h, d, V) < LIMIT
      BY <2>2, <3>4, <3>5, <3>6, <3>7
    <3>9. c - 1 = b /\ c + 1 = d
      BY <3>1
    <3>10. Since(h, n, y, c)
      BY <2>2, <3>2, <3>3, <3>8, <3>9 DEF Since, L, V
    <3>11. Counter(h, n, y)
      BY <1>10, <3>1, <3>10 DEF Counter
    <3> QED
      BY <1>10, <3>11 DEF y
  <2>6. CASE b = WINDOW
    <3>1. /\ a = V /\ WINDOW + 1 \in Nat /\ WINDOW \in 0 .. WINDOW
          /\ WINDOW - 1 = V
      BY <2>6 DEF V
    <3>2. y # NoTtl => WINDOW >= WINDOW - y
      BY <2>3, <2>6
    <3> HIDE DEF a, c, d, L, y
    <3>3. Over(g, 0, V) < L
      BY <2>2, <3>1
    <3>4. Over(h, 0, V) < L /\ Over(h, 0, WINDOW) <= L
      BY <1>4, <1>5, <1>6, <1>7, <2>4, <3>3
    <3>5. Over(h, WINDOW + 1, V) < LIMIT
      <4> DEFINE e == WINDOW + 1
      <4>1. e \in Nat /\ V < e
        BY <1>1
      <4> HIDE DEF e
      <4>2. Over(h, e, V) = 0
        BY <1>1, <1>3, <4>1, AgesOver
      <4> QED
        BY <4>2 DEF e
    <3>6. Since(h, n, y, WINDOW)
      BY <3>1, <3>2, <3>4, <3>5 DEF Since, L
    <3>7. Counter(h, n, y)
      BY <1>10, <3>1, <3>6 DEF Counter
    <3> QED
      BY <1>10, <3>7 DEF y
  <2> QED
    BY <2>5, <2>6
<1> QED
  BY <1>8, <1>9, <1>10

\* A window has requests of two keys' lives, one of which let in fewer than the
\* limit.
LEMMA CounterQuota ==
  ASSUME NEW g, Ages(g), NEW n \in 0 .. LIMIT + 1, NEW x, Counter(g, n, x)
  PROVE  Over(g, 0, WINDOW - 1) <= 2 * LIMIT - 1
<1> USE LimitAssumption
<1> DEFINE V == WINDOW - 1
<1>1. V \in Nat /\ V <= Oldest /\ V \in Int /\ 0 \in Nat
  BY DEF Oldest
<1>2. Over(g, 0, V) \in Nat
  BY <1>1, AgesOver
<1>3. CASE n = 0
  <2>1. Over(g, 0, V) < LIMIT
    BY <1>3 DEF Counter
  <2> HIDE DEF V
  <2>2. Over(g, 0, V) <= 2 * LIMIT - 1
    BY <1>2, <2>1
  <2> QED
    BY <2>2 DEF V
<1>4. CASE n > 0
  <2>1. PICK b \in 0 .. WINDOW : Since(g, n, x, b)
    BY <1>4 DEF Counter
  <2> DEFINE a == b - 1
             c == b + 1
  <2>2. Over(g, 0, a) < Least(n, LIMIT) /\ Over(g, 0, b) <= Least(n, LIMIT) /\ Over(g, c, V) < LIMIT
    BY <2>1 DEF Since
  <2>3. Least(n, LIMIT) <= LIMIT /\ Least(n, LIMIT) \in Int
    BY DEF Least
  <2>4. CASE b = WINDOW
    <3>1. a = V
      BY <2>4
    <3> HIDE DEF a, c, V
    <3>2. Over(g, 0, V) <= 2 * LIMIT - 1
      BY <1>2, <2>2, <2>3, <3>1
    <3> QED
      BY <3>2 DEF V
  <2>5. CASE b < WINDOW
    <3>1. b \in Int /\ c \in Int /\ c = b + 1 /\ 0 <= c /\ b <= V /\ c \in Nat /\ b <= Oldest
      BY <2>5 DEF Oldest
    <3> HIDE DEF a, c, V
    <3>2. Over(g, 0, V) = Over(g, 0, b) + Over(g, c, V)
      BY <1>1, <3>1, AgesSplit
    <3>3. Over(g, 0, b) \in Nat /\ Over(g, c, V) \in Nat
      BY <1>1, <3>1, AgesOver
    <3>4. Over(g, 0, V) <= 2 * LIMIT - 1
      BY <2>2, <2>3, <3>2, <3>3
    <3> QED
      BY <3>4 DEF V
  <2> QED
    BY <2>4, <2>5
<1> QED
  BY <1>3, <1>4
-----------------------------------------------------------------------------
(* Types *)

\* The limiters there are.
Limiter == {"memory", "tuples", "lua", "fixed", "counter"}
\* Where a call can be.
Statement ==
  {"idle", "allow", "head", "pop", "count", "append", "retry", "first", "expire", "ttl"}

\* TypeOK without the bound on the lists, and with the histories.
Types ==
  /\ limiter \in {a[1] : a \in Asks}
  /\ call \in [Thread -> [at : Statement, user : User, age : 0 .. 1]]
  /\ hits \in [User -> Seq(Age)]
  /\ count \in [User -> [0 .. 1 -> 0 .. LIMIT + 1]]
  /\ ttl \in [User -> {NoTtl} \cup 1 .. WINDOW]
  /\ phase \in 0 .. 2 * WINDOW - 1
  /\ granted \in [User -> [0 .. Oldest -> Nat]]
  /\ forgotten \in [User -> [0 .. Oldest -> Nat]]
  /\ promise \in [User -> NoPromise .. WINDOW + 1]
  /\ short \in [User -> BOOLEAN]

\* What a limiter does not use stays as it was.
Unused ==
  /\ limiter \notin {"lua", "counter"} => \A u \in User : ttl[u] = NoTtl
  /\ limiter \notin {"memory", "counter"} => \A u \in User : promise[u] = NoPromise
  /\ limiter \in {"fixed", "counter"} => \A u \in User : Len(hits[u]) = 0

\* Only these limiters are asked.
LEMMA LimiterType == Types => limiter \in Limiter
BY AsksAssumption DEF Types, Limiter

\* At first.
LEMMA TypesInit == Init => Types /\ Unused
<1> SUFFICES ASSUME Init PROVE Types /\ Unused
  OBVIOUS
<1> USE LimitAssumption
<1>1. Idle \in [at : Statement, user : User, age : 0 .. 1]
  BY AsksAssumption DEF Idle, Statement
<1>2. call \in [Thread -> [at : Statement, user : User, age : 0 .. 1]]
  <2> HIDE DEF Idle
  <2> QED
    BY <1>1 DEF Init
<1>3. /\ hits \in [User -> Seq(Age)] /\ \A u \in User : Len(hits[u]) = 0
  <2>1. <<>> \in Seq(Age) /\ Len(<<>>) = 0
    OBVIOUS
  <2> QED
    BY <2>1 DEF Init
<1>4. /\ ttl \in [User -> {NoTtl} \cup 1 .. WINDOW] /\ \A u \in User : ttl[u] = NoTtl
      /\ promise \in [User -> NoPromise .. WINDOW + 1] /\ \A u \in User : promise[u] = NoPromise
  BY DEF Init, NoPromise, NoTtl
<1>5. /\ granted \in [User -> [0 .. Oldest -> Nat]]
      /\ forgotten \in [User -> [0 .. Oldest -> Nat]]
      /\ count \in [User -> [0 .. 1 -> 0 .. LIMIT + 1]]
      /\ phase \in 0 .. 2 * WINDOW - 1
      /\ short \in [User -> BOOLEAN]
      /\ limiter \in {a[1] : a \in Asks}
  BY DEF Init
<1> QED
  BY <1>2, <1>3, <1>4, <1>5 DEF Types, Unused

\* What a call leaves of granted, promise and short.
LEMMA GrantOf ==
  ASSUME Types, NEW u \in User, NEW e \in 0 .. 1, Grant(u, e)
  PROVE  /\ granted' \in [User -> [0 .. Oldest -> Nat]]
         /\ short' \in [User -> BOOLEAN]
         /\ promise' \in [User -> NoPromise .. WINDOW + 1]
         /\ Gained(granted[u], granted'[u], e) /\ short'[u] = FALSE /\ promise'[u] = NoPromise
         /\ \A v \in User : v # u =>
              granted'[v] = granted[v] /\ short'[v] = short[v] /\ promise'[v] = promise[v]
<1>1. e \in 0 .. Oldest /\ granted[u] \in [0 .. Oldest -> Nat]
  BY LimitAssumption, SMTT(30) DEF Types, Oldest
<1>2. /\ granted' = [granted EXCEPT ![u] = [granted[u] EXCEPT ![e] = @ + 1]]
      /\ short' = [short EXCEPT ![u] = FALSE]
      /\ promise' = [promise EXCEPT ![u] = NoPromise]
  BY DEF Grant
<1> DEFINE h == [granted[u] EXCEPT ![e] = @ + 1]
<1>3. h \in [0 .. Oldest -> Nat] /\ Gained(granted[u], h, e)
  <2> DEFINE g == granted[u]
  <2> HIDE DEF g
  <2>1. g \in [0 .. Oldest -> Nat] => g[e] + 1 \in Nat
    BY <1>1
  <2>2. g \in [0 .. Oldest -> Nat] =>
          [g EXCEPT ![e] = @ + 1] \in [0 .. Oldest -> Nat] /\ Gained(g, [g EXCEPT ![e] = @ + 1], e)
    BY <1>1, <2>1 DEF Gained
  <2> QED
    BY <1>1, <2>2 DEF g
<1> HIDE DEF h
<1>4. /\ granted' \in [User -> [0 .. Oldest -> Nat]] /\ granted'[u] = h
      /\ \A v \in User : v # u => granted'[v] = granted[v]
  BY <1>2, <1>3 DEF Types, h
<1>5. /\ short' \in [User -> BOOLEAN] /\ short'[u] = FALSE
      /\ \A v \in User : v # u => short'[v] = short[v]
  BY <1>2 DEF Types
<1>6. /\ promise' \in [User -> NoPromise .. WINDOW + 1] /\ promise'[u] = NoPromise
      /\ \A v \in User : v # u => promise'[v] = promise[v]
  BY <1>2, LimitAssumption DEF Types, NoPromise
<1> QED
  BY <1>3, <1>4, <1>5, <1>6

\* What a Retry-After leaves of them: it is the promise now, or one that is sure
\* stays.
LEMMA PromiseOf ==
  ASSUME Types, NEW u \in User, NEW left \in 0 .. WINDOW + 1, NEW doubt \in BOOLEAN,
         Promise(u, left, doubt)
  PROVE  /\ granted' = granted
         /\ promise' \in [User -> NoPromise .. WINDOW + 1]
         /\ short' \in [User -> BOOLEAN]
         /\ \/ promise'[u] = left /\ short'[u] = doubt
            \/ promise'[u] = promise[u] /\ short'[u] = short[u]
         /\ \A v \in User : v # u => promise'[v] = promise[v] /\ short'[v] = short[v]
<1> DEFINE new == promise[u] = NoPromise \/ short[u] \/ (~doubt /\ left < promise[u])
<1>1. /\ promise' = [promise EXCEPT ![u] = IF new THEN left ELSE @]
      /\ short' = [short EXCEPT ![u] = IF new THEN doubt ELSE @]
      /\ granted' = granted
  BY DEF Promise
<1>2. left \in NoPromise .. WINDOW + 1
  BY LimitAssumption DEF NoPromise
<1> HIDE DEF new
<1> QED
  BY <1>1, <1>2, Zenon DEF Types

\* The TTL of a key is the promise, or it is a tick less and can be short.
LEMMA TtlOf ==
  ASSUME Types, NEW t \in Thread, Ttl(t)
  PROVE  LET u == call[t].user IN
         /\ granted' = granted
         /\ promise' \in [User -> NoPromise .. WINDOW + 1]
         /\ short' \in [User -> BOOLEAN]
         /\ \/ promise'[u] = 0 /\ short'[u] = FALSE /\ count[u][0] = 0
            \/ promise'[u] = ttl[u] /\ ttl[u] # NoTtl
            \/ short'[u] = TRUE
            \/ promise'[u] = promise[u] /\ short'[u] = short[u]
         /\ \A v \in User : v # u => promise'[v] = promise[v] /\ short'[v] = short[v]
<1> USE LimitAssumption
<1> DEFINE u == call[t].user
<1>1. u \in User /\ ttl[u] \in {NoTtl} \cup 1 .. WINDOW
  BY DEF Types
<1>2. \/ count[u][0] = 0 /\ Promise(u, 0, FALSE)
      \/ ttl[u] # NoTtl /\ \E left \in {ttl[u], ttl[u] - 1} : Promise(u, left, left < ttl[u])
      \/ UNCHANGED answers
  BY Zenon DEF Ttl
<1> HIDE DEF u
<1>3. CASE count[u][0] = 0 /\ Promise(u, 0, FALSE)
  <2>1. 0 \in 0 .. WINDOW + 1
    OBVIOUS
  <2> QED
    BY <1>1, <1>3, <2>1, PromiseOf DEF u
<1>4. ASSUME ttl[u] # NoTtl, NEW left \in {ttl[u], ttl[u] - 1}, Promise(u, left, left < ttl[u])
      PROVE  /\ granted' = granted
             /\ promise' \in [User -> NoPromise .. WINDOW + 1]
             /\ short' \in [User -> BOOLEAN]
             /\ \/ promise'[u] = ttl[u]
                \/ short'[u] = TRUE
                \/ promise'[u] = promise[u] /\ short'[u] = short[u]
             /\ \A v \in User : v # u => promise'[v] = promise[v] /\ short'[v] = short[v]
  <2>1. left \in 0 .. WINDOW + 1 /\ ttl[u] \in Int
    BY <1>1, <1>4
  <2> DEFINE doubt == left < ttl[u]
  <2>2. doubt \in BOOLEAN /\ (left = ttl[u] \/ doubt = TRUE)
    BY <1>4, <2>1
  <2>3. Promise(u, left, doubt)
    BY <1>4
  <2> HIDE DEF doubt
  <2>4. /\ granted' = granted
        /\ promise' \in [User -> NoPromise .. WINDOW + 1]
        /\ short' \in [User -> BOOLEAN]
        /\ \/ promise'[u] = left /\ short'[u] = doubt
           \/ promise'[u] = promise[u] /\ short'[u] = short[u]
        /\ \A v \in User : v # u => promise'[v] = promise[v] /\ short'[v] = short[v]
    BY <1>1, <2>1, <2>2, <2>3, PromiseOf
  <2> QED
    BY <2>2, <2>4
<1>5. CASE UNCHANGED answers
  BY <1>5 DEF Types, answers, u
<1>6. CASE ttl[u] # NoTtl /\ \E left \in {ttl[u], ttl[u] - 1} : Promise(u, left, left < ttl[u])
  BY <1>4, <1>6 DEF u
<1> QED
  BY <1>2, <1>3, <1>5, <1>6

\* A history after a tick.
LEMMA OlderOf ==
  ASSUME NEW log \in [User -> [0 .. Oldest -> Nat]]
  PROVE  /\ Older(log) \in [User -> [0 .. Oldest -> Nat]]
         /\ \A u \in User : Shifted(log[u], Older(log)[u])
<1>1. Oldest \in Nat
  BY LimitAssumption DEF Oldest
<1>2. ASSUME NEW u \in User
      PROVE  [a \in 0 .. Oldest |-> IF a = 0 THEN 0 ELSE log[u][a - 1]] \in [0 .. Oldest -> Nat]
  <2>1. ASSUME NEW a \in 0 .. Oldest, a # 0 PROVE log[u][a - 1] \in Nat
    <3>1. log[u] \in [0 .. Oldest -> Nat]
      OBVIOUS
    <3>2. a - 1 \in 0 .. Oldest
      BY <1>1, <2>1
    <3> QED
      BY <3>1, <3>2
  <2> QED
    BY <2>1
<1> QED
  BY <1>2 DEF Older, Shifted

\* What a tick leaves of a user's data.
LEMMA TickOf ==
  ASSUME Types, Tick, NEW u \in User
  PROVE  /\ Ages(granted[u]) /\ Shifted(granted[u], granted'[u])
         /\ Ages(forgotten[u]) /\ Shifted(forgotten[u], forgotten'[u])
         /\ hits'[u] = IF ttl[u] = 1 THEN <<>> ELSE Aged(hits[u], WINDOW)
         /\ ttl'[u] = IF ttl[u] \in {NoTtl, 1} THEN NoTtl ELSE ttl[u] - 1
         /\ promise'[u] = IF promise[u] >= 0 THEN promise[u] - 1 ELSE promise[u]
         /\ short'[u] = short[u]
         /\ limiter' = limiter
<1>1. /\ Ages(granted[u]) /\ Shifted(granted[u], granted'[u])
      /\ Ages(forgotten[u]) /\ Shifted(forgotten[u], forgotten'[u])
  BY OlderOf DEF Types, Tick, Ages
<1>2. hits'[u] = IF ttl[u] = 1 THEN <<>> ELSE Aged(hits[u], WINDOW)
  BY DEF Tick, Expiring, Aged, Oldest
<1> QED
  BY <1>1, <1>2 DEF Tick

\* A remainder is smaller than the divisor.
LEMMA ModType ==
  ASSUME NEW a \in Nat, NEW m \in Nat \ {0}
  PROVE  a % m \in 0 .. m - 1
OBVIOUS

\* A tick keeps the types.
LEMMA TypesTick ==
  ASSUME Types, Unused, Tick
  PROVE  Types' /\ Unused'
<1> USE LimitAssumption
<1>1. limiter' = limiter
  BY DEF Tick
<1>2. call' \in [Thread -> [at : Statement, user : User, age : 0 .. 1]]
  <2>1. ASSUME NEW t \in Thread
        PROVE  [call[t] EXCEPT !.age = 1] \in [at : Statement, user : User, age : 0 .. 1]
    <3>1. call[t] \in [at : Statement, user : User, age : 0 .. 1]
      BY DEF Types
    <3>2. 1 \in 0 .. 1
      OBVIOUS
    <3> QED
      BY <3>1, <3>2
  <2>2. call' = [t \in Thread |-> IF Dated(t) THEN [call[t] EXCEPT !.age = 1] ELSE call[t]]
    BY DEF Tick
  <2> QED
    BY <2>1, <2>2 DEF Types
<1>3. ASSUME NEW u \in User PROVE hits'[u] \in Seq(Age) /\ (Len(hits[u]) = 0 => Len(hits'[u]) = 0)
  <2>1. hits'[u] = IF ttl[u] = 1 THEN <<>> ELSE Aged(hits[u], WINDOW)
    BY TickOf
  <2>2. hits[u] \in Seq(Age)
    BY DEF Types
  <2>3. Aged(hits[u], WINDOW) \in Seq(Age) /\ Len(Aged(hits[u], WINDOW)) = Len(hits[u])
    BY <2>2, TimesAged DEF Age, Oldest
  <2>4. <<>> \in Seq(Age) /\ Len(<<>>) = 0
    OBVIOUS
  <2> QED
    BY <2>1, <2>3, <2>4
<1>4. hits' \in [User -> Seq(Age)]
  <2> DEFINE f(u) == IF Expiring(u) THEN <<>>
                ELSE [i \in DOMAIN hits[u] |-> IF hits[u][i] = Oldest THEN Oldest ELSE hits[u][i] + 1]
  <2>1. hits' = [u \in User |-> f(u)]
    BY DEF Tick
  <2> HIDE DEF f
  <2> QED
    BY <1>3, <2>1
<1>5. /\ ttl' \in [User -> {NoTtl} \cup 1 .. WINDOW]
      /\ \A u \in User : ttl[u] = NoTtl => ttl'[u] = NoTtl
  BY SMTT(30) DEF Types, Tick, NoTtl
<1>6. /\ promise' \in [User -> NoPromise .. WINDOW + 1]
      /\ \A u \in User : promise[u] = NoPromise => promise'[u] = NoPromise
  BY SMTT(30) DEF Types, Tick, NoPromise
<1>7. phase' \in 0 .. 2 * WINDOW - 1
  <2>1. 2 * WINDOW \in Nat \ {0} /\ phase + 1 \in Nat
    BY DEF Types
  <2>2. (phase + 1) % (2 * WINDOW) \in 0 .. 2 * WINDOW - 1
    BY <2>1, ModType
  <2> QED
    BY <2>1, <2>2 DEF Tick
<1>8. count' \in [User -> [0 .. 1 -> 0 .. LIMIT + 1]]
  BY DEF Types, Tick
<1>9. /\ granted' \in [User -> [0 .. Oldest -> Nat]]
      /\ forgotten' \in [User -> [0 .. Oldest -> Nat]]
  BY OlderOf DEF Types, Tick
<1>10. short' \in [User -> BOOLEAN]
  BY DEF Types, Tick
<1>11. Types'
  BY <1>1, <1>2, <1>4, <1>5, <1>6, <1>7, <1>8, <1>9, <1>10 DEF Types
<1>12. Unused'
  BY <1>1, <1>3, <1>5, <1>6 DEF Unused
<1> QED
  BY <1>11, <1>12

\* A call is a user's, at a statement, and stays one.
LEMMA TypesCalls ==
  ASSUME Types, NEW t \in Thread
  PROVE  /\ call[t].user \in User /\ call[t].age \in 0 .. 1 /\ call[t].at \in Statement
         /\ \A s \in Statement :
              Goto(t, s) => call' \in [Thread -> [at : Statement, user : User, age : 0 .. 1]]
         /\ Return(t) => call' \in [Thread -> [at : Statement, user : User, age : 0 .. 1]]
<1>1. Idle \in [at : Statement, user : User, age : 0 .. 1]
  BY AsksAssumption DEF Idle, Statement
<1>2. Return(t) => call' \in [Thread -> [at : Statement, user : User, age : 0 .. 1]]
  <2> HIDE DEF Idle
  <2> QED
    BY <1>1 DEF Types, Return
<1>3. /\ call[t].user \in User /\ call[t].age \in 0 .. 1 /\ call[t].at \in Statement
      /\ \A s \in Statement :
           Goto(t, s) => call' \in [Thread -> [at : Statement, user : User, age : 0 .. 1]]
  <2>1. call \in [Thread -> [at : Statement, user : User, age : 0 .. 1]]
    BY DEF Types
  <2>2. call[t] \in [at : Statement, user : User, age : 0 .. 1]
    BY <2>1
  <2>3. ASSUME NEW s \in Statement
        PROVE  [call[t] EXCEPT !.at = s] \in [at : Statement, user : User, age : 0 .. 1]
    BY <2>2
  <2>4. ASSUME NEW s \in Statement, Goto(t, s)
        PROVE  call' \in [Thread -> [at : Statement, user : User, age : 0 .. 1]]
    BY <2>1, <2>3, <2>4 DEF Goto
  <2> QED
    BY <2>2, <2>4
<1> QED
  BY <1>2, <1>3

\* What a call keeps is a list of ages, also with its own now behind it.
LEMMA KeptOf ==
  ASSUME Types, NEW t \in Thread, NEW u \in User
  PROVE  /\ Kept(t, hits[u]) \in Seq(Age) /\ Len(Kept(t, hits[u])) <= Len(hits[u])
         /\ Append(Kept(t, hits[u]), call[t].age) \in Seq(Age)
<1>1. hits[u] \in Seq(Age)
  BY DEF Types
<1>2. Kept(t, hits[u]) \in Seq(Age) /\ Len(Kept(t, hits[u])) <= Len(hits[u])
  BY <1>1, KeptKeeps
<1>3. call[t].age \in Age
  BY TypesCalls, LimitAssumption DEF Age, Oldest
<1> DEFINE k == Kept(t, hits[u])
<1> HIDE DEF k
<1>4. k \in Seq(Age) => Append(k, call[t].age) \in Seq(Age)
  BY <1>3
<1> QED
  BY <1>2, <1>4 DEF k

\* The bucket of a call's now is the current one, or the one before it.
LEMMA BucketIs ==
  ASSUME Types, NEW t \in Thread
  PROVE  /\ Bucket(t) = BucketOf(phase, call[t].age)
         /\ Bucket(t) \in 0 .. 1
<1> USE LimitAssumption
<1> DEFINE m == 2 * WINDOW
           e == call[t].age
           k == IF phase >= e THEN phase - e ELSE m - 1
<1>1. e \in 0 .. 1 /\ phase \in 0 .. m - 1 /\ m \in Nat \ {0}
  <2>1. e \in 0 .. 1
    BY TypesCalls
  <2> QED
    BY <2>1 DEF Types
<1>2. k \in 0 .. m - 1 /\ phase + m - e = IF phase >= e THEN k + m ELSE k
  BY <1>1
<1> HIDE DEF k
<1>3. k % m = k /\ (k + m) % m = k
  BY <1>1, <1>2, Modulo
<1>4. (phase + m - e) % m = k
  BY <1>2, <1>3
<1>5. Bucket(t) = k \div WINDOW
  BY <1>4 DEF Bucket
<1>6. k \div WINDOW = IF k < WINDOW THEN 0 ELSE 1
  <2>1. CASE k < WINDOW
    <3>1. k \in 0 .. WINDOW - 1
      BY <1>2, <2>1
    <3> QED
      BY <2>1, <3>1, Modulo
  <2>2. CASE k >= WINDOW
    <3> DEFINE l == k - WINDOW
    <3>1. l \in 0 .. WINDOW - 1 /\ k = l + WINDOW
      BY <1>2, <2>2
    <3> HIDE DEF l
    <3>2. (l + WINDOW) \div WINDOW = 1
      BY <3>1, Modulo
    <3> QED
      BY <1>2, <2>2, <3>1, <3>2
  <2> QED
    BY <1>2, <2>1, <2>2
<1> QED
  BY <1>1, <1>5, <1>6 DEF k, BucketOf, Elapsed, Current

\* What the header of a denied call promises: where the deque is not over LIMIT, that
\* the first entry will be gone.
LEMMA FirstOf ==
  ASSUME Types, NEW t \in Thread, First(t)
  PROVE  LET u == call[t].user
             s == hits[u] IN
         /\ granted' = granted
         /\ promise' \in [User -> NoPromise .. WINDOW + 1]
         /\ short' \in [User -> BOOLEAN]
         /\ \/ /\ s # <<>> /\ promise'[u] = Wait(Head(s)) + 1 /\ promise'[u] >= 1
               /\ Head(s) + promise'[u] > WINDOW
               /\ short'[u] \/ Len(s) <= LIMIT
            \/ promise'[u] = promise[u] /\ short'[u] = short[u]
         /\ \A v \in User : v # u => promise'[v] = promise[v] /\ short'[v] = short[v]
<1> USE LimitAssumption
<1> DEFINE u == call[t].user
           s == hits[u]
           w == Wait(Head(s)) + 1
           doubt == Len(s) > LIMIT
<1>1. u \in User /\ s \in Seq(Age)
  BY DEF Types
<1>2. CASE s = <<>>
  BY <1>2 DEF First, answers, Types
<1>3. CASE s # <<>>
  <2>1. Promise(u, w, doubt)
    BY <1>3 DEF First
  <2>2. Head(s) \in 0 .. Oldest
    <3> HIDE DEF s
    <3> QED
      BY <1>1, <1>3, HeadTailProperties DEF Age
  <2>3. w \in 0 .. WINDOW + 1 /\ w >= 1 /\ Head(s) + w > WINDOW
    BY <2>2 DEF Wait, Oldest
  <2>4. doubt \in BOOLEAN /\ (doubt \/ Len(s) <= LIMIT)
    <3>1. Len(s) \in Nat
      BY <1>1, LenProperties
    <3> QED
      BY <3>1
  <2> HIDE DEF u, w, doubt
  <2>5. /\ granted' = granted
        /\ promise' \in [User -> NoPromise .. WINDOW + 1]
        /\ short' \in [User -> BOOLEAN]
        /\ \/ promise'[u] = w /\ short'[u] = doubt
           \/ promise'[u] = promise[u] /\ short'[u] = short[u]
        /\ \A v \in User : v # u => promise'[v] = promise[v] /\ short'[v] = short[v]
    BY <1>1, <2>1, <2>3, <2>4, PromiseOf
  <2> HIDE DEF s
  <2>6. \/ /\ s # <<>> /\ promise'[u] = w /\ promise'[u] >= 1
           /\ Head(s) + promise'[u] > WINDOW
           /\ short'[u] \/ Len(s) <= LIMIT
        \/ promise'[u] = promise[u] /\ short'[u] = short[u]
    <3>1. CASE promise'[u] = w /\ short'[u] = doubt
      BY <1>3, <2>3, <2>4, <3>1
    <3> QED
      BY <2>5, <3>1
  <2> QED
    BY <2>5, <2>6, Zenon DEF u, s, w
<1> QED
  BY <1>2, <1>3

\* What a popleft leaves: it takes the first entry, and where the call still counts
\* that one it is forgotten.
LEMMA DropOf ==
  ASSUME Types, NEW t \in Thread, Drop(t)
  PROVE  LET u == call[t].user
             s == hits[u] IN
         /\ hits' \in [User -> Seq(Age)]
         /\ forgotten' \in [User -> [0 .. Oldest -> Nat]]
         /\ \/ hits' = hits /\ forgotten' = forgotten
            \/ /\ s # <<>> /\ hits'[u] = Tail(s) /\ Goto(t, "allow")
               /\ IF InWindow(t, Head(s)) THEN Gained(forgotten[u], forgotten'[u], Head(s))
                  ELSE forgotten'[u] = forgotten[u]
         /\ \A v \in User : v # u => hits'[v] = hits[v] /\ forgotten'[v] = forgotten[v]
<1> USE LimitAssumption
<1> DEFINE u == call[t].user
           s == hits[u]
           e == Head(s)
<1>1. u \in User /\ s \in Seq(Age)
  BY DEF Types
<1>2. CASE s = <<>>
  BY <1>2 DEF Drop, Types
<1>3. CASE s # <<>>
  <2>1. e \in 0 .. Oldest /\ Tail(s) \in Seq(Age)
    <3> HIDE DEF s
    <3> QED
      BY <1>1, <1>3, HeadTailProperties DEF Age
  <2>2. /\ hits' = [hits EXCEPT ![u] = Tail(s)] /\ Goto(t, "allow")
        /\ forgotten' = IF InWindow(t, e)
                          THEN [forgotten EXCEPT ![u] = [forgotten[u] EXCEPT ![e] = @ + 1]]
                          ELSE forgotten
    BY <1>3 DEF Drop
  <2> DEFINE f == forgotten[u]
             h == [f EXCEPT ![e] = @ + 1]
  <2>3. f \in [0 .. Oldest -> Nat]
    BY <1>1 DEF Types
  <2>4. h \in [0 .. Oldest -> Nat] /\ Gained(f, h, e)
    <3> HIDE DEF f, e
    <3>1. f[e] + 1 \in Nat
      BY <2>1, <2>3
    <3> QED
      BY <2>1, <2>3, <3>1 DEF Gained
  <2>5. forgotten' = IF InWindow(t, e) THEN [forgotten EXCEPT ![u] = h] ELSE forgotten
    BY <2>2
  <2> HIDE DEF h, e, u, s
  <2>6. /\ forgotten' \in [User -> [0 .. Oldest -> Nat]]
        /\ IF InWindow(t, e) THEN Gained(f, forgotten'[u], e) ELSE forgotten'[u] = f
        /\ \A v \in User : v # u => forgotten'[v] = forgotten[v]
    BY <1>1, <2>4, <2>5 DEF Types
  <2>7. /\ hits' \in [User -> Seq(Age)] /\ hits'[u] = Tail(s)
        /\ \A v \in User : v # u => hits'[v] = hits[v]
    BY <1>1, <2>1, <2>2 DEF Types
  <2> QED
    BY <1>3, <2>2, <2>6, <2>7 DEF u, s, e
<1> QED
  BY <1>2, <1>3

\* Every step keeps the types.
LEMMA TypesStep ==
  ASSUME Types, Unused, [Next]_vars
  PROVE  Types' /\ Unused'
<1> USE LimitAssumption
<1>1. CASE UNCHANGED vars
  BY <1>1 DEF vars, redis, answers, Types, Unused
<1>2. CASE Tick
  BY <1>2, TypesTick
<1>3. ASSUME NEW t \in Thread, Crash(t)
      PROVE  Types' /\ Unused'
  <2>1. call' \in [Thread -> [at : Statement, user : User, age : 0 .. 1]]
    BY <1>3, TypesCalls DEF Crash
  <2> QED
    BY <1>3, <2>1 DEF Crash, redis, answers, Types, Unused
<1>4. ASSUME NEW t \in Thread, NEW u \in User, Ask(t, u)
      PROVE  Types' /\ Unused'
  <2>1. call' \in [Thread -> [at : Statement, user : User, age : 0 .. 1]]
    BY <1>4 DEF Ask, Types, Statement
  <2> QED
    BY <1>4, <2>1 DEF Ask, redis, answers, Types, Unused
<1>5. ASSUME NEW t \in Thread, Step(t)
      PROVE  Types' /\ Unused'
  <2> DEFINE u == call[t].user
             e == call[t].age
  <2>1. /\ u \in User /\ e \in 0 .. 1 /\ e \in Age
        /\ hits[u] \in Seq(Age)
    <3>1. u \in User /\ e \in 0 .. 1
      BY TypesCalls
    <3> QED
      BY <3>1, SMTT(30) DEF Types, Age, Oldest
  <2>2. /\ \A s \in Statement :
             Goto(t, s) => call' \in [Thread -> [at : Statement, user : User, age : 0 .. 1]]
        /\ Return(t) => call' \in [Thread -> [at : Statement, user : User, age : 0 .. 1]]
    BY TypesCalls
  <2>3. CASE Look(t)
    <3>1. call' \in [Thread -> [at : Statement, user : User, age : 0 .. 1]]
      BY <2>2, <2>3 DEF Look, Statement
    <3> QED
      BY <2>3, <3>1 DEF Look, At, redis, answers, Types, Unused
  <2>4. CASE Test(t)
    <3>1. call' \in [Thread -> [at : Statement, user : User, age : 0 .. 1]]
      BY <2>2, <2>4 DEF Test, Statement
    <3> QED
      BY <2>4, <3>1 DEF Test, At, redis, answers, Types, Unused
  <2>5. CASE Drop(t)
    <3>1. call' \in [Thread -> [at : Statement, user : User, age : 0 .. 1]]
      BY <2>2, <2>5 DEF Drop, Statement
    <3>2. hits' \in [User -> Seq(Age)] /\ forgotten' \in [User -> [0 .. Oldest -> Nat]]
      BY <2>1, <2>5, DropOf
    <3> QED
      BY <2>5, <3>1, <3>2 DEF Drop, At, redis, answers, Types, Unused
  <2>6. CASE Count(t)
    <3>1. call' \in [Thread -> [at : Statement, user : User, age : 0 .. 1]]
      <4> DEFINE r == [call[t] EXCEPT !.at = "retry"]
      <4>1. r \in [at : Statement, user : User, age : 0 .. 1]
        <5>1. call[t] \in [at : Statement, user : User, age : 0 .. 1] /\ "retry" \in Statement
          BY DEF Types, Statement
        <5> HIDE DEF Statement
        <5> QED
          BY <5>1
      <4>2. [r EXCEPT !.age = 0] \in [at : Statement, user : User, age : 0 .. 1]
        <5>1. 0 \in 0 .. 1
          OBVIOUS
        <5> HIDE DEF r
        <5> QED
          BY <4>1, <5>1
      <4>3. CASE call' = [call EXCEPT ![t].at = "retry", ![t].age = 0]
        BY <4>2, <4>3 DEF Types
      <4>4. CASE Goto(t, "append")
        BY <2>2, <4>4 DEF Statement
      <4> QED
        BY <2>6, <4>3, <4>4 DEF Count
    <3> QED
      BY <2>6, <3>1 DEF Count, Deny, At, redis, answers, Types, Unused
  <2>13. CASE Record(t)
    <3>1. Append(hits[u], e) \in Seq(Age)
      BY <2>1
    <3>2. hits' \in [User -> Seq(Age)]
      BY <2>1, <2>13, <3>1 DEF Record, Types
    <3>3. call' \in [Thread -> [at : Statement, user : User, age : 0 .. 1]]
      BY <2>2, <2>13 DEF Record
    <3>4. /\ granted' \in [User -> [0 .. Oldest -> Nat]]
          /\ short' \in [User -> BOOLEAN]
          /\ promise' \in [User -> NoPromise .. WINDOW + 1]
      BY <2>1, <2>13, GrantOf DEF Record
    <3> QED
      BY <2>13, <3>2, <3>3, <3>4 DEF Record, At, redis, Types, Unused
  <2>14. CASE RetryAfter(t)
    <3>1. call' \in [Thread -> [at : Statement, user : User, age : 0 .. 1]]
      BY <2>2, <2>14 DEF RetryAfter, Statement
    <3>2. /\ granted' = granted /\ promise' \in [User -> NoPromise .. WINDOW + 1]
          /\ short' \in [User -> BOOLEAN]
      <4>1. 1 \in 0 .. WINDOW + 1
        OBVIOUS
      <4>2. CASE Promise(u, 1, FALSE)
        BY <2>1, <4>1, <4>2, PromiseOf
      <4>3. CASE UNCHANGED answers
        BY <4>3 DEF answers, Types
      <4> QED
        BY <2>14, <4>2, <4>3 DEF RetryAfter
    <3> QED
      BY <2>14, <3>1, <3>2 DEF RetryAfter, At, redis, Types, Unused
  <2>15. CASE First(t)
    <3>1. call' \in [Thread -> [at : Statement, user : User, age : 0 .. 1]]
      BY <2>2, <2>15 DEF First
    <3>2. /\ granted' = granted /\ promise' \in [User -> NoPromise .. WINDOW + 1]
          /\ short' \in [User -> BOOLEAN]
      BY <2>1, <2>15, FirstOf DEF Types
    <3> QED
      BY <2>15, <3>1, <3>2 DEF First, At, redis, Types, Unused
  <2>7. CASE Tuples(t)
    <3> DEFINE log == [v \in User |-> Kept(t, hits[v])]
    <3>1. log \in [User -> Seq(Age)] /\ Append(log[u], e) \in Seq(Age)
      BY <2>1, KeptOf
    <3>2. call' \in [Thread -> [at : Statement, user : User, age : 0 .. 1]]
      BY <2>2, <2>7 DEF Tuples
    <3>3. \/ hits' = log /\ Deny
          \/ hits' = [log EXCEPT ![u] = Append(@, e)] /\ Grant(u, e)
      BY <2>7 DEF Tuples
    <3>4. limiter = "tuples" /\ limiter' = limiter /\ UNCHANGED <<redis, phase, forgotten, crashes>>
      BY <2>7 DEF Tuples, At
    <3> HIDE DEF log
    <3>5. CASE hits' = log /\ Deny
      <4>1. UNCHANGED <<granted, promise, short>>
        BY <3>5 DEF Deny, answers
      <4> QED
        BY <3>1, <3>2, <3>4, <3>5, <4>1 DEF redis, Types, Unused
    <3>6. CASE hits' = [log EXCEPT ![u] = Append(@, e)] /\ Grant(u, e)
      <4>1. /\ granted' \in [User -> [0 .. Oldest -> Nat]]
            /\ short' \in [User -> BOOLEAN]
            /\ promise' \in [User -> NoPromise .. WINDOW + 1]
            /\ promise'[u] = NoPromise
            /\ \A v \in User : v # u => promise'[v] = promise[v]
        BY <2>1, <3>6, GrantOf
      <4>2. hits' \in [User -> Seq(Age)]
        BY <2>1, <3>1, <3>6
      <4> QED
        BY <3>2, <3>4, <4>1, <4>2 DEF redis, Types, Unused
    <3> QED
      BY <3>3, <3>5, <3>6
  <2>8. CASE Script(t)
    <3> DEFINE set == Kept(t, hits[u])
    <3>1. set \in Seq(Age) /\ Append(set, e) \in Seq(Age)
      BY <2>1, KeptOf
    <3>2. call' \in [Thread -> [at : Statement, user : User, age : 0 .. 1]]
      BY <2>2, <2>8 DEF Script
    <3>3. \/ /\ hits' = [hits EXCEPT ![u] = set]
             /\ ttl' = [ttl EXCEPT ![u] = IF set = <<>> THEN NoTtl ELSE @]
             /\ Deny
          \/ /\ hits' = [hits EXCEPT ![u] = Append(set, e)]
             /\ ttl' = [ttl EXCEPT ![u] = WINDOW]
             /\ Grant(u, e)
      BY <2>8 DEF Script
    <3>4. limiter = "lua" /\ limiter' = limiter /\ UNCHANGED <<count, phase, forgotten, crashes>>
      BY <2>8 DEF Script, At
    <3> HIDE DEF set
    <3>5. hits' \in [User -> Seq(Age)] /\ ttl' \in [User -> {NoTtl} \cup 1 .. WINDOW]
      <4>1. CASE /\ hits' = [hits EXCEPT ![u] = set]
                 /\ ttl' = [ttl EXCEPT ![u] = IF set = <<>> THEN NoTtl ELSE @]
        BY <2>1, <3>1, <4>1 DEF Types
      <4>2. CASE /\ hits' = [hits EXCEPT ![u] = Append(set, e)]
                 /\ ttl' = [ttl EXCEPT ![u] = WINDOW]
        <5> DEFINE new == Append(set, e)
        <5>1. new \in Seq(Age) /\ WINDOW \in {NoTtl} \cup 1 .. WINDOW
          BY <3>1
        <5> HIDE DEF new
        <5> QED
          BY <2>1, <4>2, <5>1 DEF Types, new
      <4> QED
        BY <3>3, <4>1, <4>2
    <3>6. CASE Deny
      <4>1. UNCHANGED <<granted, promise, short>>
        BY <3>6 DEF Deny, answers
      <4> QED
        BY <3>2, <3>4, <3>5, <4>1 DEF Types, Unused
    <3>7. CASE Grant(u, e)
      <4>1. /\ granted' \in [User -> [0 .. Oldest -> Nat]]
            /\ short' \in [User -> BOOLEAN]
            /\ promise' \in [User -> NoPromise .. WINDOW + 1]
            /\ promise'[u] = NoPromise
            /\ \A v \in User : v # u => promise'[v] = promise[v]
        BY <2>1, <3>7, GrantOf
      <4> QED
        BY <3>2, <3>4, <3>5, <4>1 DEF Types, Unused
    <3> QED
      BY <3>3, <3>6, <3>7
  <2>9. CASE Pipeline(t)
    <3> DEFINE b == Bucket(t)
               n == Incremented(count[u][b])
    <3>1. b \in 0 .. 1
      BY BucketIs
    <3>2. n \in 0 .. LIMIT + 1
      <4>1. count[u][b] \in 0 .. LIMIT + 1
        BY <2>1, <3>1 DEF Types
      <4> QED
        BY <4>1 DEF Incremented
    <3>3. count' = [count EXCEPT ![u][b] = n] /\ (IF n <= LIMIT THEN Grant(u, e) ELSE Deny)
      BY <2>9 DEF Pipeline
    <3>4. limiter = "fixed" /\ limiter' = limiter /\ UNCHANGED <<hits, ttl, phase, forgotten, crashes>>
          /\ call' \in [Thread -> [at : Statement, user : User, age : 0 .. 1]]
      BY <2>2, <2>9 DEF Pipeline, At
    <3> HIDE DEF b, n
    <3>5. count' \in [User -> [0 .. 1 -> 0 .. LIMIT + 1]]
      BY <2>1, <3>1, <3>2, <3>3 DEF Types
    <3>6. CASE Deny
      <4>1. UNCHANGED <<granted, promise, short>>
        BY <3>6 DEF Deny, answers
      <4> QED
        BY <3>4, <3>5, <4>1 DEF Types, Unused
    <3>7. CASE Grant(u, e)
      <4>1. /\ granted' \in [User -> [0 .. Oldest -> Nat]]
            /\ short' \in [User -> BOOLEAN]
            /\ promise' \in [User -> NoPromise .. WINDOW + 1]
            /\ promise'[u] = NoPromise
            /\ \A v \in User : v # u => promise'[v] = promise[v]
        BY <2>1, <3>7, GrantOf
      <4> QED
        BY <3>4, <3>5, <4>1 DEF Types, Unused
    <3> QED
      BY <3>3, <3>6, <3>7
  <2>10. CASE Incr(t)
    <3> DEFINE n == Incremented(count[u][0])
    <3>1. n \in 0 .. LIMIT + 1
      <4>1. count[u][0] \in 0 .. LIMIT + 1
        BY <2>1 DEF Types
      <4> QED
        BY <4>1 DEF Incremented
    <3>2. count' = [count EXCEPT ![u][0] = n] /\ (IF n <= LIMIT THEN Grant(u, 0) ELSE Deny)
      BY <2>10 DEF Incr
    <3>3. limiter = "counter" /\ limiter' = limiter /\ UNCHANGED <<hits, ttl, phase, forgotten, crashes>>
          /\ call' \in [Thread -> [at : Statement, user : User, age : 0 .. 1]]
      BY <2>2, <2>10 DEF Incr, At, Statement
    <3> HIDE DEF n
    <3>4. count' \in [User -> [0 .. 1 -> 0 .. LIMIT + 1]]
      BY <2>1, <3>1, <3>2 DEF Types
    <3>5. CASE Deny
      <4>1. UNCHANGED <<granted, promise, short>>
        BY <3>5 DEF Deny, answers
      <4> QED
        BY <3>3, <3>4, <4>1 DEF Types, Unused
    <3>6. CASE Grant(u, 0)
      <4>1. /\ granted' \in [User -> [0 .. Oldest -> Nat]]
            /\ short' \in [User -> BOOLEAN]
            /\ promise' \in [User -> NoPromise .. WINDOW + 1]
        <5>1. 0 \in 0 .. 1
          OBVIOUS
        <5> QED
          BY <2>1, <3>6, <5>1, GrantOf
      <4> QED
        BY <3>3, <3>4, <4>1 DEF Types, Unused
    <3> QED
      BY <3>2, <3>5, <3>6
  <2>11. CASE Expire(t)
    <3>1. call' \in [Thread -> [at : Statement, user : User, age : 0 .. 1]]
      BY <2>2, <2>11 DEF Expire
    <3>2. ttl' \in [User -> {NoTtl} \cup 1 .. WINDOW]
      BY <2>11 DEF Expire, Types
    <3> QED
      BY <2>11, <3>1, <3>2 DEF Expire, At, answers, Types, Unused
  <2>12. CASE Ttl(t)
    <3>1. call' \in [Thread -> [at : Statement, user : User, age : 0 .. 1]]
      BY <2>2, <2>12 DEF Ttl
    <3>2. /\ granted' = granted /\ promise' \in [User -> NoPromise .. WINDOW + 1]
          /\ short' \in [User -> BOOLEAN]
      BY <2>12, TtlOf DEF Types
    <3> QED
      BY <2>12, <3>1, <3>2 DEF Ttl, At, redis, Types, Unused
  <2> QED
    BY <1>5, <2>3, <2>4, <2>5, <2>6, <2>7, <2>8, <2>9, <2>10, <2>11, <2>12, <2>13, <2>14,
       <2>15 DEF Step
<1> QED
  BY <1>1, <1>2, <1>3, <1>4, <1>5 DEF Next

\* The limiter that a step belongs to.
LEMMA StepOf ==
  ASSUME NEW t \in Thread, Step(t)
  PROVE  /\ limiter' = limiter
         /\ limiter = "memory" => \/ Look(t) \/ Test(t) \/ Drop(t) \/ Count(t) \/ Record(t)
                                 \/ RetryAfter(t) \/ First(t)
         /\ limiter = "tuples" => Tuples(t)
         /\ limiter = "lua" => Script(t)
         /\ limiter = "fixed" => Pipeline(t)
         /\ limiter = "counter" => Incr(t) \/ Expire(t) \/ Ttl(t)
BY DEF Step, Look, Test, Drop, Count, Record, RetryAfter, First, Tuples, Script, Pipeline, Incr, Expire, Ttl, At

\* One user's part of the types.
LEMMA TypesOf ==
  ASSUME Types, NEW u \in User
  PROVE  /\ hits[u] \in Seq(Age) /\ Ages(granted[u]) /\ Ages(forgotten[u])
         /\ promise[u] \in NoPromise .. WINDOW + 1 /\ ttl[u] \in {NoTtl} \cup 1 .. WINDOW
         /\ count[u] \in [0 .. 1 -> 0 .. LIMIT + 1]
BY DEF Types, Ages

-----------------------------------------------------------------------------
(* The steps of the memory limiter *)

\* The memory limiter's invariant, of one user's deque, of what was let through,
\* forgotten and promised: the deque is a log of what is left, in order.
MemoryOf(s, g, f, p, b) ==
  /\ Fewer(g, f)
  /\ Log(s, Left(g, f), NoTtl)
  /\ Deque(s, Left(g, f), p, b)

\* The threads between the test of the length and the append.
Appending(u) == {t \in Thread : call[t].at = "append" /\ call[t].user = u}
\* What a thread at that test has seen.
Seen(u) ==
  \A t \in Thread : call[t].at = "count" /\ call[t].user = u =>
    Sees(hits[u], Left(granted[u], forgotten[u]), promise[u], short[u], call[t].age)
\* ... and each that is past it found a place, so that together they overdraw the
\* deque by their number less one at most.
MemoryOk(u) ==
  /\ MemoryOf(hits[u], granted[u], forgotten[u], promise[u], short[u])
  /\ Len(hits[u]) + Cardinality(Appending(u)) < LIMIT + Cardinality(Thread)
  /\ Seen(u)

\* Threads are finitely many.
LEMMA ThreadsCount ==
  ASSUME NEW A \in SUBSET Thread
  PROVE  /\ IsFiniteSet(A) /\ Cardinality(A) \in Nat /\ Cardinality(Thread) \in Nat
         /\ Cardinality(A) <= Cardinality(Thread)
BY PoolAssumption, FS_Subset, FS_CardinalityType

\* What a statement leaves of the calls.
LEMMA CallOf ==
  ASSUME Types, NEW t \in Thread
  PROVE  /\ Return(t) => call'[t].at = "idle" /\ \A w \in Thread : w # t => call'[w] = call[w]
         /\ \A a \in Statement : Goto(t, a) =>
              /\ call'[t].at = a /\ call'[t].user = call[t].user /\ call'[t].age = call[t].age
              /\ \A w \in Thread : w # t => call'[w] = call[w]
<1>1. Idle.at = "idle"
  BY DEF Idle
<1>2. Return(t) => call'[t].at = "idle" /\ \A w \in Thread : w # t => call'[w] = call[w]
  <2> HIDE DEF Idle
  <2> QED
    BY <1>1 DEF Types, Return
<1> QED
  BY <1>2 DEF Types, Goto

\* A tick ages the deque and what was let through and forgotten.
LEMMA MemoryTick ==
  ASSUME Types, limiter = "memory", NEW u \in User, ttl[u] = NoTtl, Tick, MemoryOk(u)
  PROVE  MemoryOk(u)'
<1> USE LimitAssumption
<1> DEFINE s == hits[u]
           k == Left(granted[u], forgotten[u])
           h == Left(granted'[u], forgotten'[u])
           p == promise[u]
           q == promise'[u]
           b == short[u]
<1>1. /\ Fewer(granted[u], forgotten[u]) /\ Log(s, k, NoTtl) /\ Deque(s, k, p, b)
      /\ Len(s) + Cardinality(Appending(u)) < LIMIT + Cardinality(Thread)
      /\ s \in Seq(Age) /\ p \in NoPromise .. WINDOW + 1
  BY TypesOf DEF MemoryOk, MemoryOf
<1>2. /\ Shifted(granted[u], granted'[u]) /\ Shifted(forgotten[u], forgotten'[u])
      /\ hits'[u] = Aged(s, WINDOW) /\ short'[u] = b
      /\ q = IF p >= 0 THEN p - 1 ELSE p
  BY TickOf DEF NoTtl
<1>3. Fewer(granted'[u], forgotten'[u]) /\ Shifted(k, h) /\ Ages(k)
  BY <1>1, <1>2, LeftTick, LeftOver
<1>4. Len(Aged(s, WINDOW)) = Len(s)
  BY <1>1, TimesAged, ZenonT(30) DEF Age, Oldest
<1>5. \A t \in Thread : /\ call'[t].at = call[t].at /\ call'[t].user = call[t].user
                        /\ call[t].at = "count" => call[t].age = 0 /\ call'[t].age = 1
  BY DEF Tick, Dated, Types
<1>6. Cardinality(Appending(u))' = Cardinality(Appending(u))
  <2>1. Appending(u)' = Appending(u)
    BY <1>5 DEF Appending
  <2> QED
    BY <2>1, Zenon
<1> HIDE DEF s, k, h, p, q, b
<1>7. Log(Aged(s, WINDOW), h, NoTtl)
  <2>1. NoTtl \in {NoTtl} \cup 1 .. WINDOW
    OBVIOUS
  <2>2. Log(IF NoTtl = 1 THEN <<>> ELSE Aged(s, WINDOW), h,
            IF NoTtl \in {NoTtl, 1} THEN NoTtl ELSE NoTtl - 1)
    BY <1>1, <1>3, <2>1, LogTick
  <2> QED
    BY <2>2 DEF NoTtl
<1>8. Deque(Aged(s, WINDOW), h, q, b)
  BY <1>1, <1>2, <1>3, DequeTick
<1>9. ASSUME NEW t \in Thread, call'[t].at = "count", call'[t].user = u
      PROVE  Sees(Aged(s, WINDOW), h, q, b, 1) /\ call'[t].age = 1
  <2>1. Sees(s, k, p, b, 0)
    BY <1>5, <1>9 DEF MemoryOk, Seen, s, k, p, b
  <2> QED
    BY <1>1, <1>2, <1>3, <1>5, <1>9, <2>1, SeesTick
<1>10. Seen(u)'
  BY <1>2, <1>9 DEF Seen, s, h, q, b
<1>11. MemoryOf(hits'[u], granted'[u], forgotten'[u], promise'[u], short'[u])
  BY <1>2, <1>3, <1>7, <1>8 DEF MemoryOf, s, h, q, b
<1> QED
  BY <1>1, <1>2, <1>4, <1>6, <1>10, <1>11 DEF MemoryOk, s

\* A thread that takes up no place and, if it comes to the test of the length, has
\* seen the first entry.
Mild(t, u) ==
  /\ \A w \in Thread : w # t => call'[w] = call[w]
  /\ ~(call'[t].at = "append" /\ call'[t].user = u)
  /\ call'[t].at = "count" /\ call'[t].user = u =>
       (hits[u] # <<>> => Head(hits[u]) - call'[t].age < WINDOW)

\* A step that leaves a user's data alone.
LEMMA MemoryMild ==
  ASSUME Types, Types', NEW t \in Thread, NEW u \in User, Mild(t, u), MemoryOk(u),
         hits'[u] = hits[u], granted'[u] = granted[u], forgotten'[u] = forgotten[u],
         promise'[u] = promise[u], short'[u] = short[u]
  PROVE  MemoryOk(u)'
<1> DEFINE k == Left(granted[u], forgotten[u])
<1>1. /\ MemoryOf(hits[u], granted[u], forgotten[u], promise[u], short[u])
      /\ Len(hits[u]) + Cardinality(Appending(u)) < LIMIT + Cardinality(Thread)
      /\ hits[u] \in Seq(Age) /\ promise[u] \in NoPromise .. WINDOW + 1 /\ Ages(k)
      /\ Deque(hits[u], k, promise[u], short[u])
  BY TypesOf, LeftOver DEF MemoryOk, MemoryOf
<1>2. Cardinality(Appending(u))' <= Cardinality(Appending(u))
      /\ Cardinality(Appending(u))' \in Nat /\ Cardinality(Appending(u)) \in Nat
      /\ Cardinality(Thread) \in Nat
  <2> DEFINE A == Appending(u)
             B == Appending(u)'
  <2>1. B \in SUBSET A /\ A \in SUBSET Thread /\ B \in SUBSET Thread
    BY DEF Mild, Appending
  <2> HIDE DEF A, B
  <2>2. /\ IsFiniteSet(A) /\ Cardinality(A) \in Nat /\ Cardinality(B) \in Nat
        /\ Cardinality(Thread) \in Nat
    BY <2>1, ThreadsCount
  <2>3. Cardinality(B) <= Cardinality(A)
    BY <2>1, <2>2, FS_Subset
  <2>4. Cardinality(Appending(u))' = Cardinality(B)
    BY DEF B
  <2> QED
    BY <2>2, <2>3, <2>4 DEF A
<1> HIDE DEF k
<1>3. ASSUME NEW w \in Thread, call'[w].at = "count", call'[w].user = u
      PROVE  Sees(hits[u], k, promise[u], short[u], call'[w].age)
  <2>1. CASE w # t
    BY <1>3, <2>1 DEF Mild, MemoryOk, Seen, k
  <2>2. CASE w = t
    <3>1. call'[t].age \in 0 .. 1
      BY DEF Types
    <3>2. hits[u] # <<>> => Head(hits[u]) - call'[t].age < WINDOW
      BY <1>3, <2>2 DEF Mild
    <3> QED
      BY <1>1, <2>2, <3>1, <3>2, SeesFirst
  <2> QED
    BY <2>1, <2>2
<1>4. Seen(u)'
  BY <1>3 DEF Seen, k
<1>5. Len(hits[u]) \in Nat
  BY <1>1, LenProperties
<1>6. Len(hits[u]) + Cardinality(Appending(u))' < LIMIT + Cardinality(Thread)
  BY <1>1, <1>2, <1>5, LimitAssumption
<1> QED
  BY <1>1, <1>4, <1>6 DEF MemoryOk

\* A popleft of the user's own deque.
LEMMA MemoryDrop ==
  ASSUME Types, Types', NEW t \in Thread, NEW u \in User, u = call[t].user, Drop(t),
         MemoryOk(u)
  PROVE  MemoryOk(u)'
<1> USE LimitAssumption
<1> DEFINE s == hits[u]
           g == granted[u]
           f == forgotten[u]
           k == Left(g, f)
           p == promise[u]
           b == short[u]
<1>1. call[t].age \in 0 .. 1 /\ call[t].at = "pop"
  BY TypesCalls DEF Drop, At
<1>2. UNCHANGED <<granted, promise, short>>
  BY DEF Drop, answers
<1>3. \/ hits' = hits /\ forgotten' = forgotten
      \/ /\ s # <<>> /\ hits'[u] = Tail(s) /\ Goto(t, "allow")
         /\ IF InWindow(t, Head(s)) THEN Gained(f, forgotten'[u], Head(s))
            ELSE forgotten'[u] = f
  BY DropOf
<1>4. call'[t].at \in {"idle", "allow"} /\ \A w \in Thread : w # t => call'[w] = call[w]
  BY CallOf DEF Drop, Statement
<1>5. CASE hits' = hits /\ forgotten' = forgotten
  <2>1. Mild(t, u)
    BY <1>4 DEF Mild
  <2> QED
    BY <1>2, <1>5, <2>1, MemoryMild
<1>6. CASE /\ s # <<>> /\ hits'[u] = Tail(s)
           /\ IF InWindow(t, Head(s)) THEN Gained(f, forgotten'[u], Head(s))
              ELSE forgotten'[u] = f
  <2> DEFINE e == forgotten'[u]
             l == Left(g, e)
             a == Head(s)
  <2>1. /\ Fewer(g, f) /\ Log(s, k, NoTtl) /\ Deque(s, k, p, b) /\ Ages(k)
        /\ Len(s) + Cardinality(Appending(u)) < LIMIT + Cardinality(Thread)
        /\ s \in Seq(Age) /\ Seen(u) /\ k[Oldest] \in Nat
    <3>1. s \in Seq(Age)
      BY TypesOf
    <3>2. /\ Fewer(g, f) /\ Log(s, k, NoTtl) /\ Deque(s, k, p, b)
          /\ Len(s) + Cardinality(Appending(u)) < LIMIT + Cardinality(Thread) /\ Seen(u)
      BY DEF MemoryOk, MemoryOf
    <3>3. Ages(k)
      BY <3>2, LeftOver
    <3>4. k[Oldest] \in Nat
      BY <3>3 DEF Ages, Oldest
    <3> QED
      BY <3>1, <3>2, <3>3, <3>4
  <2>2. a \in 0 .. Oldest /\ Len(s) \in Nat /\ Len(Tail(s)) = Len(s) - 1 /\ Tail(s) \in Seq(Age)
    <3>1. Len(s) \in Nat \ {0}
      BY <1>6, <2>1, EmptySeq
    <3>2. Head(s) \in Age /\ Tail(s) \in Seq(Age) /\ Len(Tail(s)) = Len(s) - 1
      BY <1>6, <2>1, HeadTailProperties, EmptySeq
    <3> QED
      BY <3>1, <3>2 DEF Age
  <2>3. InWindow(t, a) => a <= WINDOW
    BY <1>1, <2>2 DEF InWindow
  <2>4. ~InWindow(t, a) => a >= WINDOW
    BY <1>1, <2>2 DEF InWindow
  <2> HIDE DEF s, g, f, k, p, b, a
  <2>5. Fewer(g, e) /\ Log(Tail(s), l, NoTtl) /\ l[Oldest] = k[Oldest]
    <3>1. CASE InWindow(t, a)
      <4>1. Gained(f, e, a) /\ a = Head(s)
        BY <1>6, <3>1 DEF a, s, f
      <4>2. k[a] >= 1
        <5>1. Times(s, 0, a) <= k[a]
          BY <2>1, <2>2, <2>3, <3>1 DEF Log
        <5>2. Times(s, 0, a) = Times(s, 1, a) + 1 /\ Times(s, 1, a) \in Nat
          BY <1>6, <2>1, <4>1, TimesHead, TimesType
        <5>3. k[a] \in Nat
          BY <2>1, <2>2 DEF Ages
        <5> QED
          BY <5>1, <5>2, <5>3
      <4>3. Fewer(g, e) /\ Gained(l, k, a)
        <5> HIDE DEF e
        <5> QED
          BY <2>1, <2>2, <4>1, <4>2, LeftForgets DEF k
      <4>4. Ages(l)
        BY <4>3, LeftOver
      <4> HIDE DEF l
      <4>5. Log(Tail(s), l, NoTtl)
        BY <1>6, <2>1, <4>1, <4>3, <4>4, LogForgets
      <4>6. l[Oldest] = k[Oldest]
        BY <2>2, <2>3, <3>1, <4>3 DEF Gained, Oldest
      <4> QED
        BY <4>3, <4>5, <4>6
    <3>2. CASE ~InWindow(t, a)
      <4>1. e = f /\ l = k /\ Head(s) >= WINDOW
        BY <1>6, <2>4, <3>2 DEF a, s, f, k
      <4> HIDE DEF e, l
      <4> QED
        BY <1>6, <2>1, <4>1, LogTail
    <3> QED
      BY <3>1, <3>2
  <2>6. Deque(Tail(s), l, p, b)
    <3> HIDE DEF l
    <3> QED
      BY <1>6, <2>1, <2>5, DequeDrops
  <2>7. ASSUME NEW w \in Thread, call'[w].at = "count", call'[w].user = u
        PROVE  Sees(Tail(s), l, p, b, call'[w].age)
    <3>1. w # t /\ call'[w] = call[w]
      BY <1>4, <2>7
    <3>2. Sees(s, k, p, b, call[w].age)
      BY <2>1, <2>7, <3>1 DEF Seen, s, k, g, f, p, b
    <3> HIDE DEF l
    <3> QED
      BY <1>6, <2>1, <2>5, <3>1, <3>2, SeesDrops
  <2>8. Cardinality(Appending(u)') = Cardinality(Appending(u)) /\ Cardinality(Appending(u)) \in Nat
        /\ Cardinality(Thread) \in Nat
    <3>1. Appending(u)' = Appending(u) /\ Appending(u) \in SUBSET Thread
      BY <1>1, <1>4 DEF Appending
    <3>2. Cardinality(Appending(u)') = Cardinality(Appending(u))
      BY <3>1, Zenon
    <3> QED
      BY <3>1, <3>2, ThreadsCount
  <2>9. /\ hits'[u] = Tail(s) /\ granted'[u] = g /\ promise'[u] = p /\ short'[u] = b
        /\ forgotten'[u] = e
    BY <1>2, <1>6 DEF s, g, p, b
  <2> HIDE DEF l, e
  <2>10. MemoryOf(hits'[u], granted'[u], forgotten'[u], promise'[u], short'[u])
    BY <2>5, <2>6, <2>9 DEF MemoryOf, l
  <2>11. Len(hits'[u]) + Cardinality(Appending(u)') < LIMIT + Cardinality(Thread)
    BY <2>1, <2>2, <2>8, <2>9
  <2>12. \A w \in Thread : call'[w].at = "count" /\ call'[w].user = u =>
           Sees(hits'[u], Left(granted'[u], forgotten'[u]), promise'[u], short'[u], call'[w].age)
    BY <2>7, <2>9 DEF l
  <2> QED
    BY <2>10, <2>11, <2>12 DEF MemoryOk, Seen
<1> QED
  BY <1>3, <1>5, <1>6

\* The thread that finds a place.
LEMMA MemoryPlace ==
  ASSUME Types, NEW t \in Thread, NEW u \in User, u = call[t].user, call[t].at = "count",
         ~Full(Len(hits[u])), Goto(t, "append"), MemoryOk(u),
         hits'[u] = hits[u], granted'[u] = granted[u], forgotten'[u] = forgotten[u],
         promise'[u] = promise[u], short'[u] = short[u]
  PROVE  MemoryOk(u)'
<1>1. /\ call'[t].at = "append" /\ call'[t].user = u
      /\ \A w \in Thread : w # t => call'[w] = call[w]
  BY CallOf DEF Statement
<1>2. Cardinality(Appending(u)') <= Cardinality(Thread)
      /\ Cardinality(Appending(u)') \in Nat /\ Cardinality(Thread) \in Nat
  <2> DEFINE A == Appending(u)'
  <2>1. A \in SUBSET Thread
    BY DEF Appending
  <2> HIDE DEF A
  <2>2. Cardinality(A) <= Cardinality(Thread) /\ Cardinality(A) \in Nat /\ Cardinality(Thread) \in Nat
    BY <2>1, ThreadsCount
  <2> QED
    BY <2>2 DEF A
<1>3. Len(hits[u]) \in Nat /\ Len(hits[u]) < LIMIT
  <2>1. hits[u] \in Seq(Age)
    BY TypesOf
  <2>2. Len(hits[u]) \in Nat
    BY <2>1, LenProperties
  <2> QED
    BY <2>2, LimitAssumption DEF Full
<1>4. Len(hits[u]) + Cardinality(Appending(u)') < LIMIT + Cardinality(Thread)
  BY <1>2, <1>3, LimitAssumption
<1>5. ASSUME NEW w \in Thread, call'[w].at = "count", call'[w].user = u
      PROVE  Sees(hits[u], Left(granted[u], forgotten[u]), promise[u], short[u], call'[w].age)
  BY <1>1, <1>5 DEF MemoryOk, Seen
<1>6. Seen(u)'
  BY <1>5 DEF Seen
<1> QED
  BY <1>4, <1>6 DEF MemoryOk

\* The thread that appends, which takes the place.
LEMMA MemoryRecord ==
  ASSUME Types, NEW t \in Thread, NEW u \in User, u = call[t].user, Record(t), MemoryOk(u)
  PROVE  MemoryOk(u)'
<1> USE LimitAssumption
<1> DEFINE s == hits[u]
           f == forgotten[u]
           k == Left(granted[u], f)
           l == Left(granted'[u], f)
           p == promise[u]
           b == short[u]
           e == call[t].age
<1>1. e \in 0 .. 1 /\ call[t].at = "append" /\ e \in Age
  BY TypesCalls DEF Record, At, Age, Oldest
<1>2. /\ Gained(granted[u], granted'[u], e) /\ short'[u] = FALSE /\ promise'[u] = NoPromise
      /\ hits'[u] = Append(s, e) /\ forgotten'[u] = f
  BY <1>1, GrantOf DEF Record, Types
<1>3. /\ Fewer(granted[u], f) /\ Log(s, k, NoTtl) /\ Deque(s, k, p, b) /\ Ages(k)
      /\ Len(s) + Cardinality(Appending(u)) < LIMIT + Cardinality(Thread)
      /\ s \in Seq(Age) /\ Seen(u)
  BY TypesOf, LeftOver DEF MemoryOk, MemoryOf
<1>4. Fewer(granted'[u], f) /\ Gained(k, l, e)
  BY <1>2, <1>3, LeftGrant
<1>5. call'[t].at = "idle" /\ \A w \in Thread : w # t => call'[w] = call[w]
  BY CallOf DEF Record
<1>6. /\ Cardinality(Appending(u)') = Cardinality(Appending(u)) - 1
      /\ Cardinality(Appending(u)) \in Nat /\ Cardinality(Thread) \in Nat
  <2> DEFINE A == Appending(u)
  <2>1. t \in A /\ Appending(u)' = A \ {t} /\ A \in SUBSET Thread
    BY <1>1, <1>5 DEF Appending
  <2> HIDE DEF A
  <2>2. IsFiniteSet(A) /\ Cardinality(A) \in Nat /\ Cardinality(Thread) \in Nat
    BY <2>1, ThreadsCount
  <2>3. Cardinality(A \ {t}) = Cardinality(A) - 1
    BY <2>1, <2>2, FS_RemoveElement
  <2>4. Cardinality(Appending(u)') = Cardinality(A \ {t})
    BY <2>1, Zenon
  <2> QED
    BY <2>2, <2>3, <2>4 DEF A
<1> HIDE DEF s, f, k, l, p, b, e
<1>7. Len(Append(s, e)) = Len(s) + 1 /\ Len(s) \in Nat
  BY <1>1, <1>3, AppendProperties, LenProperties
<1>8. Log(Append(s, e), l, NoTtl)
  BY <1>1, <1>3, <1>4, LogGrant
<1>9. Deque(Append(s, e), l, NoPromise, FALSE)
  BY <1>1, <1>3, <1>4, DequeGrant
<1>10. ASSUME NEW w \in Thread, call'[w].at = "count", call'[w].user = u
       PROVE  Sees(Append(s, e), l, NoPromise, FALSE, call'[w].age)
  <2>1. Sees(s, k, p, b, call[w].age) /\ call'[w] = call[w]
    BY <1>3, <1>5, <1>10 DEF Seen, s, k, f, p, b
  <2> QED
    BY <1>1, <1>3, <1>4, <2>1, SeesGrant
<1>11. MemoryOf(hits'[u], granted'[u], forgotten'[u], promise'[u], short'[u])
  BY <1>2, <1>4, <1>8, <1>9 DEF MemoryOf, l
<1>12. Len(hits'[u]) + Cardinality(Appending(u)') < LIMIT + Cardinality(Thread)
  BY <1>2, <1>3, <1>6, <1>7
<1>13. \A w \in Thread : call'[w].at = "count" /\ call'[w].user = u =>
         Sees(hits'[u], Left(granted'[u], forgotten'[u]), promise'[u], short'[u], call'[w].age)
  BY <1>2, <1>10 DEF l
<1> QED
  BY <1>11, <1>12, <1>13 DEF MemoryOk, Seen

\* A promise that is not over, and that the first entry keeps where the deque is not
\* over LIMIT.
LEMMA MemoryPromise ==
  ASSUME Types, Types', NEW t \in Thread, NEW u \in User, MemoryOk(u), call'[t].at = "idle",
         \A w \in Thread : w # t => call'[w] = call[w],
         hits'[u] = hits[u], granted'[u] = granted[u], forgotten'[u] = forgotten[u],
         promise'[u] >= 1,
         short'[u] \/ (/\ Len(hits[u]) <= LIMIT
                       /\ Len(hits[u]) = LIMIT => Head(hits[u]) + promise'[u] > WINDOW)
  PROVE  MemoryOk(u)'
<1> USE LimitAssumption
<1> DEFINE s == hits[u]
           k == Left(granted[u], forgotten[u])
           q == promise'[u]
           c == short'[u]
<1>1. /\ Fewer(granted[u], forgotten[u]) /\ Log(s, k, NoTtl) /\ Deque(s, k, promise[u], short[u])
      /\ Len(s) + Cardinality(Appending(u)) < LIMIT + Cardinality(Thread)
      /\ s \in Seq(Age) /\ Seen(u)
  BY TypesOf DEF MemoryOk, MemoryOf
<1>2. q >= 1 /\ q \in Int /\ Most(q, 0) = q
  BY DEF Types, NoPromise, Most
<1>3. c \/ (Len(s) <= LIMIT /\ (Len(s) = LIMIT => Head(s) + q > WINDOW))
  OBVIOUS
<1>4. Cardinality(Appending(u)') <= Cardinality(Appending(u))
      /\ Cardinality(Appending(u)') \in Nat /\ Cardinality(Appending(u)) \in Nat
      /\ Cardinality(Thread) \in Nat
  <2> DEFINE A == Appending(u)
             B == Appending(u)'
  <2>1. B \in SUBSET A /\ A \in SUBSET Thread /\ B \in SUBSET Thread
    BY DEF Appending
  <2> HIDE DEF A, B
  <2>2. /\ IsFiniteSet(A) /\ Cardinality(A) \in Nat /\ Cardinality(B) \in Nat
        /\ Cardinality(Thread) \in Nat
    BY <2>1, ThreadsCount
  <2>3. Cardinality(B) <= Cardinality(A)
    BY <2>1, <2>2, FS_Subset
  <2> QED
    BY <2>2, <2>3 DEF A, B
<1> HIDE DEF s, k, q, c
<1>5. Deque(s, k, q, c)
  BY <1>1, <1>2, <1>3 DEF Deque
<1>6. ASSUME NEW w \in Thread, call'[w].at = "count", call'[w].user = u
      PROVE  Sees(s, k, q, c, call'[w].age)
  <2>1. Sees(s, k, promise[u], short[u], call'[w].age) /\ call'[w].age \in 0 .. 1
    BY <1>1, <1>6 DEF Seen, Types, s, k
  <2>2. ~(q + call'[w].age <= 0)
    BY <1>2, <2>1
  <2> QED
    BY <2>1, <2>2 DEF Sees
<1>7. MemoryOf(hits'[u], granted'[u], forgotten'[u], promise'[u], short'[u])
  BY <1>1, <1>5 DEF MemoryOf, s, k, q, c
<1>8. Seen(u)'
  BY <1>6 DEF Seen, s, k, q, c
<1>9. Len(s) \in Nat
  BY <1>1, LenProperties
<1>10. Len(hits'[u]) + Cardinality(Appending(u)') < LIMIT + Cardinality(Thread)
  BY <1>1, <1>4, <1>9 DEF s
<1> QED
  BY <1>7, <1>8, <1>10 DEF MemoryOk

\* Every step of every thread keeps it.
LEMMA MemoryStep ==
  ASSUME Types, Unused, Types', limiter = "memory", [Next]_vars, \A u \in User : MemoryOk(u)
  PROVE  \A u \in User : MemoryOk(u)'
<1> USE LimitAssumption
<1> SUFFICES ASSUME NEW u \in User PROVE MemoryOk(u)'
  OBVIOUS
<1>1. MemoryOk(u) /\ hits[u] \in Seq(Age) /\ Len(hits[u]) \in Nat /\ ttl[u] = NoTtl
  BY TypesOf, LenProperties DEF Unused
<1>2. ASSUME NEW t \in Thread, Mild(t, u),
             hits'[u] = hits[u], granted'[u] = granted[u], forgotten'[u] = forgotten[u],
             promise'[u] = promise[u], short'[u] = short[u]
      PROVE  MemoryOk(u)'
  BY <1>1, <1>2, MemoryMild
<1>3. CASE UNCHANGED vars
  BY <1>1, <1>3 DEF vars, answers, MemoryOk, Appending, Seen
<1>4. CASE Tick
  BY <1>1, <1>4, MemoryTick
<1>5. ASSUME NEW t \in Thread, NEW v \in User, Ask(t, v)
      PROVE  MemoryOk(u)'
  <2>1. Mild(t, u)
    BY <1>5 DEF Ask, Mild, Types
  <2> QED
    BY <1>2, <1>5, <2>1 DEF Ask, answers
<1>6. ASSUME NEW t \in Thread, Step(t)
      PROVE  MemoryOk(u)'
  <2> DEFINE v == call[t].user
  <2>1. v \in User
    BY TypesCalls
  <2>2. CASE Look(t)
    <3>1. \/ hits[v] = <<>> /\ Goto(t, "count")
          \/ Goto(t, "head")
      BY <2>2 DEF Look
    <3>2. Mild(t, u)
      <4>1. CASE hits[v] = <<>> /\ Goto(t, "count")
        <5>1. /\ call'[t].at = "count" /\ call'[t].user = v
              /\ \A w \in Thread : w # t => call'[w] = call[w]
          BY <4>1, CallOf DEF Statement
        <5> QED
          BY <4>1, <5>1 DEF Mild
      <4>2. CASE Goto(t, "head")
        <5>1. call'[t].at = "head" /\ \A w \in Thread : w # t => call'[w] = call[w]
          BY <4>2, CallOf DEF Statement
        <5> QED
          BY <5>1 DEF Mild
      <4> QED
        BY <3>1, <4>1, <4>2
    <3> QED
      BY <1>2, <2>2, <3>2 DEF Look, answers
  <2>3. CASE Test(t)
    <3>1. \/ Return(t)
          \/ InWindow(t, Head(hits[v])) /\ Goto(t, "count")
          \/ Goto(t, "pop")
      BY <2>3 DEF Test
    <3>2. Mild(t, u)
      <4>1. CASE Return(t)
        BY <4>1, CallOf DEF Mild
      <4>2. CASE InWindow(t, Head(hits[v])) /\ Goto(t, "count")
        <5>1. /\ call'[t].at = "count" /\ call'[t].user = v /\ call'[t].age = call[t].age
              /\ \A w \in Thread : w # t => call'[w] = call[w]
          BY <4>2, CallOf DEF Statement
        <5> QED
          BY <4>2, <5>1 DEF Mild, InWindow
      <4>3. CASE Goto(t, "pop")
        <5>1. call'[t].at = "pop" /\ \A w \in Thread : w # t => call'[w] = call[w]
          BY <4>3, CallOf DEF Statement
        <5> QED
          BY <5>1 DEF Mild
      <4> QED
        BY <3>1, <4>1, <4>2, <4>3
    <3> QED
      BY <1>2, <2>3, <3>2 DEF Test, answers
  <2>4. CASE Drop(t)
    <3>1. CASE u = v
      BY <1>1, <2>4, <3>1, MemoryDrop
    <3>2. CASE u # v
      <4>1. call'[t].at \in {"idle", "allow"} /\ \A w \in Thread : w # t => call'[w] = call[w]
        BY <2>4, CallOf DEF Drop, Statement
      <4>2. Mild(t, u)
        BY <4>1 DEF Mild
      <4>3. hits'[u] = hits[u] /\ forgotten'[u] = forgotten[u]
        BY <2>4, <3>2, DropOf
      <4> QED
        BY <1>2, <2>4, <4>2, <4>3 DEF Drop, answers
    <3> QED
      BY <3>1, <3>2
  <2>5. CASE Count(t)
    <3>1. /\ UNCHANGED <<hits, forgotten, granted, promise, short>> /\ call[t].at = "count"
          /\ \/ call' = [call EXCEPT ![t].at = "retry", ![t].age = 0]
             \/ ~Full(Len(hits[v])) /\ Goto(t, "append")
      BY <2>5 DEF Count, At, Deny, answers
    <3>2. CASE call' = [call EXCEPT ![t].at = "retry", ![t].age = 0]
      <4>1. Mild(t, u)
        BY <3>2 DEF Mild, Types
      <4> QED
        BY <1>2, <3>1, <4>1
    <3>3. CASE ~Full(Len(hits[v])) /\ Goto(t, "append")
      <4>1. CASE u = v
        BY <1>1, <3>1, <3>3, <4>1, MemoryPlace
      <4>2. CASE u # v
        <5>1. /\ call'[t].at = "append" /\ call'[t].user = v
              /\ \A w \in Thread : w # t => call'[w] = call[w]
          BY <3>3, CallOf DEF Statement
        <5>2. Mild(t, u)
          BY <4>2, <5>1 DEF Mild
        <5> QED
          BY <1>2, <3>1, <5>2
      <4> QED
        BY <4>1, <4>2
    <3> QED
      BY <3>1, <3>2, <3>3
  <2>6. CASE Record(t)
    <3>1. CASE u = v
      BY <1>1, <2>6, <3>1, MemoryRecord
    <3>2. CASE u # v
      <4>1. Grant(v, call[t].age) /\ call[t].age \in 0 .. 1
        BY <2>6, TypesCalls DEF Record
      <4>2. granted'[u] = granted[u] /\ promise'[u] = promise[u] /\ short'[u] = short[u]
        BY <2>1, <3>2, <4>1, GrantOf
      <4>3. Mild(t, u)
        BY <2>6, CallOf DEF Record, Mild
      <4> QED
        BY <1>2, <2>1, <2>6, <3>2, <4>2, <4>3 DEF Record, Types
    <3> QED
      BY <3>1, <3>2
  <2>7. CASE RetryAfter(t)
    <3>1. hits' = hits /\ forgotten' = forgotten
      BY <2>7 DEF RetryAfter
    <3>2. CASE ~Full(Len(hits[v])) /\ Promise(v, 1, FALSE) /\ Return(t)
      <4>1. /\ granted' = granted
            /\ \/ promise'[v] = 1 /\ short'[v] = FALSE
               \/ promise'[v] = promise[v] /\ short'[v] = short[v]
            /\ \A w \in User : w # v => promise'[w] = promise[w] /\ short'[w] = short[w]
        <5>1. 1 \in 0 .. WINDOW + 1
          OBVIOUS
        <5> QED
          BY <2>1, <3>2, <5>1, PromiseOf
      <4>2. call'[t].at = "idle" /\ \A w \in Thread : w # t => call'[w] = call[w]
        BY <3>2, CallOf
      <4>3. Mild(t, u)
        BY <4>2 DEF Mild
      <4>4. CASE u = v /\ promise'[v] = 1 /\ short'[v] = FALSE
        <5>1. Len(hits[u]) < LIMIT /\ promise'[u] >= 1
          BY <1>1, <3>2, <4>4 DEF Full
        <5>2. Len(hits[u]) <= LIMIT /\ Len(hits[u]) # LIMIT
          BY <1>1, <5>1
        <5> QED
          BY <1>1, <3>1, <4>1, <4>2, <5>1, <5>2, MemoryPromise
      <4>5. CASE promise'[u] = promise[u] /\ short'[u] = short[u]
        BY <1>2, <3>1, <4>1, <4>3, <4>5
      <4> QED
        BY <4>1, <4>4, <4>5
    <3>3. CASE Goto(t, "first") /\ UNCHANGED answers
      <4>1. call'[t].at = "first" /\ \A w \in Thread : w # t => call'[w] = call[w]
        BY <3>3, CallOf DEF Statement
      <4>2. Mild(t, u)
        BY <4>1 DEF Mild
      <4> QED
        BY <1>2, <3>1, <3>3, <4>2 DEF answers
    <3> QED
      BY <2>7, <3>2, <3>3 DEF RetryAfter
  <2>8. CASE First(t)
    <3> DEFINE s == hits[v]
    <3>1. /\ granted' = granted
          /\ \/ /\ promise'[v] >= 1 /\ Head(s) + promise'[v] > WINDOW
                /\ short'[v] \/ Len(s) <= LIMIT
             \/ promise'[v] = promise[v] /\ short'[v] = short[v]
          /\ \A w \in User : w # v => promise'[w] = promise[w] /\ short'[w] = short[w]
      BY <2>8, FirstOf
    <3>2. call'[t].at = "idle" /\ \A w \in Thread : w # t => call'[w] = call[w]
      BY <2>8, CallOf DEF First
    <3>3. hits' = hits /\ forgotten' = forgotten
      BY <2>8 DEF First
    <3>4. CASE /\ u = v /\ promise'[v] >= 1 /\ Head(s) + promise'[v] > WINDOW
               /\ short'[v] \/ Len(s) <= LIMIT
      BY <1>1, <3>1, <3>2, <3>3, <3>4, MemoryPromise
    <3>5. CASE promise'[u] = promise[u] /\ short'[u] = short[u]
      <4>1. Mild(t, u)
        BY <3>2 DEF Mild
      <4> QED
        BY <1>2, <3>1, <3>3, <3>5, <4>1
    <3> QED
      BY <3>1, <3>4, <3>5
  <2> QED
    BY <1>6, <2>2, <2>3, <2>4, <2>5, <2>6, <2>7, <2>8, StepOf
<1>7. ~ \E t \in Thread : Crash(t)
  BY DEF Crash
<1> QED
  BY <1>3, <1>4, <1>5, <1>6, <1>7 DEF Next

-----------------------------------------------------------------------------
(* The steps of the tuples and of the script *)

\* The invariant of the tuples and of the script: a log of LIMIT entries at most.
LogOf(s, g, x) == Log(s, g, x) /\ Len(s) <= LIMIT

LogOk(u) == LogOf(hits[u], granted[u], ttl[u])

\* What the call keeps of a log is a log; if it is full, the user's requests filled it.
LEMMA KeptLog ==
  ASSUME Types, NEW t \in Thread, NEW u \in User, Log(hits[u], granted[u], ttl[u])
  PROVE  LET k == Kept(t, hits[u]) IN
         /\ k \in Seq(Age) /\ Len(k) <= Len(hits[u])
         /\ Log(k, granted[u], ttl[u]) /\ Log(k, granted[u], NoTtl)
         /\ Len(k) <= Over(granted[u], 0, WINDOW)
<1> USE LimitAssumption
<1> DEFINE s == hits[u]
           g == granted[u]
           k == Kept(t, s)
           e == call[t].age
<1>1. s \in Seq(Age) /\ Ages(g) /\ e \in 0 .. 1
  <2>1. s \in Seq(Age) /\ Ages(g)
    BY TypesOf
  <2>2. e \in 0 .. 1
    BY TypesCalls
  <2> QED
    BY <2>1, <2>2
<1>2. /\ k \in Seq(Age) /\ Len(k) <= Len(s)
      /\ \A j \in DOMAIN k : \E l \in DOMAIN s : k[j] = s[l] /\ InWindow(t, s[l])
      /\ \A a : Times(k, 0, a) = IF InWindow(t, a) THEN Times(s, 0, a) ELSE 0
  <2> HIDE DEF s
  <2>1. s \in Seq(Age)
    BY <1>1
  <2>2. /\ Kept(t, s) \in Seq(Age) /\ Len(Kept(t, s)) <= Len(s)
        /\ \A j \in DOMAIN Kept(t, s) : \E l \in DOMAIN s :
             Kept(t, s)[j] = s[l] /\ InWindow(t, s[l])
        /\ \A a : Times(Kept(t, s), 0, a) = IF InWindow(t, a) THEN Times(s, 0, a) ELSE 0
    BY <2>1, KeptKeeps
  <2> QED
    BY <2>2
<1>3. \A a \in 0 .. Oldest : (a < WINDOW => InWindow(t, a)) /\ (InWindow(t, a) => a <= WINDOW)
  BY <1>1 DEF InWindow, Oldest
<1>4. \A a : Times(s, 0, a) \in Nat
  BY <1>1, TimesType
<1>5. \A i \in DOMAIN s : s[i] \in 0 .. Oldest
  BY <1>1, ListOf DEF Age
<1> HIDE DEF k, s, g, e
<1>6. \A a \in 0 .. WINDOW : Times(k, 0, a) <= Times(s, 0, a)
  BY <1>2, <1>4
<1>7. \A a \in 0 .. WINDOW - 1 : Times(k, 0, a) = Times(s, 0, a)
  BY <1>2, <1>3 DEF Oldest
<1>8. \A i \in DOMAIN k : \E j \in DOMAIN s : k[i] = s[j]
  BY <1>2
<1>9. Log(s, g, ttl[u])
  BY DEF s, g
<1>10. Log(k, g, ttl[u]) /\ Log(k, g, NoTtl)
  BY <1>1, <1>2, <1>6, <1>7, <1>8, <1>9, LogDrops
<1>11. \A j \in DOMAIN k : k[j] <= WINDOW
  BY <1>2, <1>3, <1>5
<1>12. \A a \in 0 .. WINDOW : Times(k, 0, a) <= g[a]
  BY <1>10 DEF Log
<1>13. WINDOW \in 0 .. Oldest
  BY DEF Oldest
<1>14. Len(k) <= Over(g, 0, WINDOW)
  BY <1>1, <1>2, <1>11, <1>12, <1>13, LogEarned
<1> QED
  BY <1>2, <1>10, <1>14 DEF k, s, g

\* Every call and every tick keeps it.
LEMMA LogStep ==
  ASSUME Types, Unused, limiter \in {"tuples", "lua"}, [Next]_vars, \A u \in User : LogOk(u)
  PROVE  \A u \in User : LogOk(u)'
<1> USE LimitAssumption
<1> SUFFICES ASSUME NEW u \in User PROVE LogOk(u)'
  OBVIOUS
<1> DEFINE s == hits[u]
           g == granted[u]
           x == ttl[u]
<1>1. Log(s, g, x) /\ Len(s) <= LIMIT
  BY DEF LogOk, LogOf
<1>2. s \in Seq(Age) /\ Ages(g) /\ x \in {NoTtl} \cup 1 .. WINDOW /\ Len(s) \in Nat
  BY TypesOf, LenProperties
<1>3. ASSUME hits'[u] = hits[u], granted'[u] = granted[u], ttl'[u] = ttl[u]
      PROVE  LogOk(u)'
  BY <1>3 DEF LogOk
<1>4. CASE UNCHANGED vars
  BY <1>3, <1>4 DEF vars, redis, answers
<1>5. CASE Tick
  <2>1. /\ Shifted(g, granted'[u])
        /\ hits'[u] = IF x = 1 THEN <<>> ELSE Aged(s, WINDOW)
        /\ ttl'[u] = IF x \in {NoTtl, 1} THEN NoTtl ELSE x - 1
    BY <1>5, TickOf
  <2>2. Log(IF x = 1 THEN <<>> ELSE Aged(s, WINDOW), granted'[u], IF x \in {NoTtl, 1} THEN NoTtl ELSE x - 1)
    BY <1>1, <1>2, <2>1, LogTick
  <2>3. Len(<<>>) = 0 /\ Len(Aged(s, WINDOW)) = Len(s)
    BY <1>2, TimesAged DEF Age, Oldest
  <2>4. Len(hits'[u]) <= LIMIT
    BY <1>1, <2>1, <2>3
  <2> QED
    BY <2>1, <2>2, <2>4 DEF LogOk, LogOf
<1>6. ASSUME NEW t \in Thread, NEW v \in User, Ask(t, v)
      PROVE  LogOk(u)'
  BY <1>3, <1>6 DEF Ask, redis, answers
<1>7. ASSUME NEW t \in Thread, Step(t)
      PROVE  LogOk(u)'
  <2> DEFINE v == call[t].user
             e == call[t].age
             k == Kept(t, s)
             y == ttl'[u]
  <2>1. v \in User /\ e \in 0 .. 1 /\ e \in Age
    <3>1. v \in User /\ e \in 0 .. 1
      BY TypesCalls
    <3> QED
      BY <3>1 DEF Age, Oldest
  <2>2. /\ k \in Seq(Age) /\ Len(k) <= Len(s)
        /\ Log(k, g, x) /\ Log(k, g, NoTtl)
    BY <1>1, KeptLog
  <2>3. Len(k) \in Nat
    BY <2>2, LenProperties
  <2> HIDE DEF k, s, g, x
  \* A call of the user's own.
  <2>4. ASSUME hits'[u] = k, y \in {x, NoTtl}, granted'[u] = g
        PROVE  LogOk(u)'
    <3>1. Len(k) <= LIMIT
      BY <1>1, <1>2, <2>2, <2>3
    <3>2. Log(k, g, y)
      BY <2>2, <2>4
    <3> QED
      BY <2>4, <3>1, <3>2 DEF LogOk, LogOf
  <2>5. ASSUME ~Full(Len(k)), hits'[u] = Append(k, e), y \in {NoTtl, WINDOW},
               Gained(g, granted'[u], e)
        PROVE  LogOk(u)'
    <3>1. Len(Append(k, e)) <= LIMIT
      <4>1. Len(Append(k, e)) = Len(k) + 1
        BY <2>1, <2>2, AppendProperties
      <4> QED
        BY <2>3, <2>5, <4>1 DEF Full
    <3>2. Log(Append(k, e), granted'[u], y)
      <4> HIDE DEF e, y
      <4>1. e \in 0 .. 1
        BY <2>1
      <4> QED
        BY <1>2, <2>2, <2>5, <4>1, LogGrant
    <3> QED
      BY <2>5, <3>1, <3>2 DEF LogOk, LogOf
  <2>6. CASE limiter = "tuples"
    <3> DEFINE log == [w \in User |-> Kept(t, hits[w])]
    <3>1. /\ ttl' = ttl /\ x = NoTtl
          /\ \/ Full(Len(log[v])) /\ hits' = log /\ Deny
             \/ ~Full(Len(log[v])) /\ hits' = [log EXCEPT ![v] = Append(@, e)] /\ Grant(v, e)
      BY <1>7, <2>6, StepOf DEF Tuples, redis, Unused, x
    <3>2. log[u] = k /\ y = NoTtl
      BY <3>1 DEF k, s, x
    <3>3. \A w \in User : log[w] = Kept(t, hits[w])
      OBVIOUS
    <3>4. DOMAIN log = User
      OBVIOUS
    <3> HIDE DEF log
    <3>5. CASE Full(Len(log[v])) /\ hits' = log /\ Deny
      <4>1. granted' = granted
        BY <3>5 DEF Deny, answers
      <4>2. CASE u = v
        BY <2>4, <3>2, <3>5, <4>1, <4>2 DEF g
      <4>3. CASE u # v
        <5>1. Len(k) <= LIMIT
          BY <1>1, <1>2, <2>2, <2>3
        <5> QED
          BY <1>1, <2>2, <3>1, <3>2, <3>5, <4>1, <4>3, <5>1 DEF LogOk, LogOf, g
      <4> QED
        BY <4>2, <4>3
    <3>6. CASE ~Full(Len(log[v])) /\ hits' = [log EXCEPT ![v] = Append(@, e)] /\ Grant(v, e)
      <4>1. /\ Gained(granted[v], granted'[v], e)
            /\ \A w \in User : w # v => granted'[w] = granted[w]
        BY <2>1, <3>6, GrantOf
      <4>2. CASE u = v
        <5>1. hits'[u] = Append(k, e)
          BY <3>2, <3>4, <3>6, <4>2
        <5> QED
          BY <2>5, <3>2, <3>6, <4>1, <4>2, <5>1 DEF g
      <4>3. CASE u # v
        <5>1. Len(k) <= LIMIT /\ hits'[u] = k
          BY <1>1, <1>2, <2>2, <2>3, <3>2, <3>4, <3>6, <4>3
        <5> QED
          BY <1>1, <2>2, <3>1, <3>2, <4>1, <4>3, <5>1 DEF LogOk, LogOf, g
      <4> QED
        BY <4>2, <4>3
    <3> QED
      BY <3>1, <3>5, <3>6
  <2>7. CASE limiter = "lua"
    <3> DEFINE set == Kept(t, hits[v])
    <3>1. \/ /\ Full(Len(set))
             /\ hits' = [hits EXCEPT ![v] = set]
             /\ ttl' = [ttl EXCEPT ![v] = IF set = <<>> THEN NoTtl ELSE @]
             /\ Deny
          \/ /\ ~Full(Len(set))
             /\ hits' = [hits EXCEPT ![v] = Append(set, e)]
             /\ ttl' = [ttl EXCEPT ![v] = WINDOW]
             /\ Grant(v, e)
      BY <1>7, <2>7, StepOf DEF Script
    <3>2. u = v => set = k
      BY DEF k, s
    <3> HIDE DEF set
    <3>3. CASE /\ Full(Len(set))
               /\ hits' = [hits EXCEPT ![v] = set]
               /\ ttl' = [ttl EXCEPT ![v] = IF set = <<>> THEN NoTtl ELSE @]
               /\ Deny
      <4>1. granted' = granted
        BY <3>3 DEF Deny, answers
      <4>2. CASE u = v
        <5>1. hits'[u] = k /\ y \in {x, NoTtl} /\ Full(Len(k)) /\ granted'[u] = g
          BY <3>2, <3>3, <4>1, <4>2 DEF Types, x, g
        <5> QED
          BY <2>4, <5>1
      <4>3. CASE u # v
        BY <1>3, <3>3, <4>1, <4>3 DEF Types
      <4> QED
        BY <4>2, <4>3
    <3>4. CASE /\ ~Full(Len(set))
               /\ hits' = [hits EXCEPT ![v] = Append(set, e)]
               /\ ttl' = [ttl EXCEPT ![v] = WINDOW]
               /\ Grant(v, e)
      <4>1. /\ Gained(granted[v], granted'[v], e)
            /\ \A w \in User : w # v => granted'[w] = granted[w]
        BY <2>1, <3>4, GrantOf
      <4>2. CASE u = v
        <5>1. hits'[u] = Append(k, e) /\ y \in {NoTtl, WINDOW} /\ ~Full(Len(k))
          BY <3>2, <3>4, <4>2 DEF Types
        <5> QED
          BY <2>5, <4>1, <4>2, <5>1 DEF g
      <4>3. CASE u # v
        BY <1>3, <3>4, <4>1, <4>3 DEF Types
      <4> QED
        BY <4>2, <4>3
    <3> QED
      BY <3>1, <3>3, <3>4
  <2> QED
    BY <2>6, <2>7
<1>8. ~ \E t \in Thread : Crash(t)
  BY DEF Crash
<1> QED
  BY <1>4, <1>5, <1>6, <1>7, <1>8 DEF Next

-----------------------------------------------------------------------------
(* The steps of the fixed windows *)

\* The fixed windows' invariant: the buckets count what was let through.
FixedOk(u) == Buckets(granted[u], count[u], phase)

\* Every pipeline and every tick keeps it.
LEMMA FixedStep ==
  ASSUME Types, Unused, limiter = "fixed", [Next]_vars, \A u \in User : FixedOk(u)
  PROVE  \A u \in User : FixedOk(u)'
<1> USE LimitAssumption
<1> SUFFICES ASSUME NEW u \in User PROVE FixedOk(u)'
  OBVIOUS
<1> DEFINE g == granted[u]
           c == count[u]
<1>1. /\ Buckets(g, c, phase)
      /\ Ages(g) /\ c \in [0 .. 1 -> 0 .. LIMIT + 1] /\ phase \in 0 .. 2 * WINDOW - 1
      /\ ttl[u] = NoTtl
  BY TypesOf DEF FixedOk, Types, Unused
<1>2. ASSUME granted'[u] = g, count'[u] = c, phase' = phase
      PROVE  FixedOk(u)'
  BY <1>2 DEF FixedOk
<1>3. CASE UNCHANGED vars
  BY <1>2, <1>3 DEF vars, redis, answers
<1>4. CASE Tick
  <2>1. Shifted(g, granted'[u])
    BY <1>4, TickOf
  <2>2. phase' = IF phase = 2 * WINDOW - 1 THEN 0 ELSE phase + 1
    <3> DEFINE m == 2 * WINDOW
    <3>1. m \in Nat \ {0} /\ phase \in 0 .. m - 1 /\ phase' = (phase + 1) % m
      BY <1>1, <1>4 DEF Tick
    <3> HIDE DEF m
    <3>2. CASE phase = m - 1
      <4>1. (0 + m) % m = 0 /\ phase + 1 = 0 + m
        BY <3>1, <3>2, Modulo
      <4> QED
        BY <3>1, <3>2, <4>1 DEF m
    <3>3. CASE phase # m - 1
      <4>1. phase + 1 \in 0 .. m - 1
        BY <3>1, <3>3
      <4>2. (phase + 1) % m = phase + 1
        BY <3>1, <4>1, Modulo
      <4> QED
        BY <3>1, <3>3, <4>2 DEF m
    <3> QED
      BY <3>2, <3>3
  <2>3. phase' \in 0 .. 2 * WINDOW - 1
    BY <1>1, <2>2
  <2>4. count'[u] = [b \in 0 .. 1 |-> IF phase' = b * WINDOW THEN 0 ELSE c[b]]
    <3>1. ~Expiring(u)
      BY <1>1 DEF Expiring, NoTtl
    <3> QED
      BY <1>4, <3>1 DEF Tick
  <2> HIDE DEF g, c
  <2>5. Buckets(granted'[u], [b \in 0 .. 1 |-> IF phase' = b * WINDOW THEN 0 ELSE c[b]], phase')
    BY <1>1, <2>1, <2>2, <2>3, BucketsTick
  <2> QED
    BY <2>4, <2>5 DEF FixedOk
<1>5. ASSUME NEW t \in Thread, NEW v \in User, Ask(t, v)
      PROVE  FixedOk(u)'
  BY <1>2, <1>5 DEF Ask, redis, answers
<1>6. ASSUME NEW t \in Thread, Step(t)
      PROVE  FixedOk(u)'
  <2> DEFINE v == call[t].user
             e == call[t].age
             b == Bucket(t)
             n == Incremented(count[v][b])
  <2>1. v \in User /\ e \in 0 .. 1
    BY TypesCalls
  <2>2. b = BucketOf(phase, e) /\ b \in 0 .. 1
    BY BucketIs
  <2>3. /\ count' = [count EXCEPT ![v][b] = n] /\ phase' = phase
        /\ IF n <= LIMIT THEN Grant(v, e) ELSE Deny
    BY <1>6, StepOf DEF Pipeline
  <2> HIDE DEF b, n
  <2>5. CASE u # v
    <3>1. count'[u] = c
      BY <2>1, <2>3, <2>5 DEF Types
    <3>2. CASE n <= LIMIT
      <4>1. Grant(v, e)
        BY <2>3, <3>2
      <4>2. granted'[u] = granted[u]
        BY <2>1, <2>5, <4>1, GrantOf
      <4> QED
        BY <1>2, <2>3, <3>1, <4>2
    <3>3. CASE ~(n <= LIMIT)
      <4>1. granted' = granted
        BY <2>3, <3>3 DEF Deny, answers
      <4> QED
        BY <1>2, <2>3, <3>1, <4>1
    <3> QED
      BY <3>2, <3>3
  <2>6. CASE u = v
    <3> DEFINE h == granted'[u]
    <3>1. count'[u] = [c EXCEPT ![b] = n] /\ n = Incremented(c[b])
      BY <2>1, <2>2, <2>3, <2>6 DEF Types, n
    <3>2. IF n <= LIMIT THEN Gained(g, h, e) ELSE h = g
      <4>1. CASE n <= LIMIT
        <5>1. Grant(v, e)
          BY <2>3, <4>1
        <5>2. Gained(granted[v], granted'[v], e)
          BY <2>1, <5>1, GrantOf
        <5> QED
          BY <2>6, <4>1, <5>2
      <4>2. CASE ~(n <= LIMIT)
        <5>1. granted' = granted
          BY <2>3, <4>2 DEF Deny, answers
        <5> QED
          BY <4>2, <5>1
      <4> QED
        BY <4>1, <4>2
    <3> HIDE DEF g, c, h, e
    <3>3. Buckets(h, [c EXCEPT ![b] = n], phase)
      BY <1>1, <2>1, <2>2, <3>1, <3>2, BucketsCount
    <3> QED
      BY <2>3, <3>1, <3>3 DEF FixedOk, h
  <2> QED
    BY <2>5, <2>6
<1>7. ~ \E t \in Thread : Crash(t)
  BY DEF Crash
<1> QED
  BY <1>3, <1>4, <1>5, <1>6, <1>7 DEF Next

-----------------------------------------------------------------------------
(* The steps of INCR and EXPIRE *)

\* The INCR and EXPIRE limiter's invariant, of one user's grants, count, ttl and
\* promise, and whether that can be short: if it cannot, it is the time the key
\* still has, and nothing is counted when it is over.
CounterOf(g, n, x, p, b) ==
  /\ Counter(g, n, x)
  /\ ~b => (p > 0 => x = p) /\ (p \in {0, Expired} => n = 0)

\* The calls between INCR and EXPIRE; only the first of a key is one.
Expirers(u) == {t \in Thread : call[t].at = "expire" /\ call[t].user = u}
CounterOk(u) ==
  /\ CounterOf(granted[u], count[u][0], ttl[u], promise[u], short[u])
  /\ \A s, t \in Expirers(u) : s = t
  /\ Expirers(u) # {} => count[u][0] > 0 /\ ttl[u] = NoTtl

\* Every statement, death and tick keeps it.
LEMMA CounterStep ==
  ASSUME Types, Unused, limiter = "counter", [Next]_vars, \A u \in User : CounterOk(u)
  PROVE  \A u \in User : CounterOk(u)'
<1> USE LimitAssumption
<1> SUFFICES ASSUME NEW u \in User PROVE CounterOk(u)'
  OBVIOUS
<1> DEFINE g == granted[u]
           n == count[u][0]
           x == ttl[u]
           p == promise[u]
           b == short[u]
<1>1. /\ Counter(g, n, x) /\ (~b => (p > 0 => x = p) /\ (p \in {0, Expired} => n = 0))
      /\ Ages(g) /\ n \in 0 .. LIMIT + 1 /\ x \in {NoTtl} \cup 1 .. WINDOW /\ p \in NoPromise .. WINDOW + 1
      /\ \A s, t \in Expirers(u) : s = t
      /\ Expirers(u) # {} => n > 0 /\ x = NoTtl
  <2>1. count[u] \in [0 .. 1 -> 0 .. LIMIT + 1]
    BY TypesOf
  <2>2. n \in 0 .. LIMIT + 1
    BY <2>1
  <2> QED
    BY <2>2, TypesOf DEF CounterOk, CounterOf
<1>2. ASSUME granted'[u] = g, count'[u][0] = n, ttl'[u] = x, promise'[u] = p, short'[u] = b,
             Expirers(u)' \subseteq Expirers(u)
      PROVE  CounterOk(u)'
  BY <1>1, <1>2 DEF CounterOk, CounterOf
<1>3. CASE UNCHANGED vars
  BY <1>2, <1>3 DEF vars, redis, answers, Expirers
<1>4. CASE Tick
  <2>1. /\ Shifted(g, granted'[u]) /\ short'[u] = b
        /\ ttl'[u] = IF x \in {NoTtl, 1} THEN NoTtl ELSE x - 1
        /\ promise'[u] = IF p >= 0 THEN p - 1 ELSE p
    BY <1>4, TickOf
  <2>2. count'[u][0] = IF x = 1 THEN 0 ELSE n
    BY <1>4 DEF Tick, Expiring
  <2>3. Expirers(u)' = Expirers(u)
    BY <1>4 DEF Tick, Dated, Expirers, Types
  <2> HIDE DEF g, n, x, p, b
  <2>4. Counter(granted'[u], IF x = 1 THEN 0 ELSE n, IF x \in {NoTtl, 1} THEN NoTtl ELSE x - 1)
    BY <1>1, <2>1, CounterTick
  <2>5. ~b => /\ promise'[u] > 0 => ttl'[u] = promise'[u]
              /\ promise'[u] \in {0, Expired} => count'[u][0] = 0
    BY <1>1, <2>1, <2>2 DEF NoTtl, NoPromise, Expired
  <2>6. Expirers(u) # {} => count'[u][0] > 0 /\ ttl'[u] = NoTtl
    BY <1>1, <2>1, <2>2 DEF NoTtl
  <2> QED
    BY <1>1, <2>1, <2>2, <2>3, <2>4, <2>5, <2>6 DEF CounterOk, CounterOf
<1>5. ASSUME NEW t \in Thread, NEW v \in User, Ask(t, v)
      PROVE  CounterOk(u)'
  <2>1. Expirers(u)' \subseteq Expirers(u)
    BY <1>5 DEF Ask, Expirers, Types
  <2> QED
    BY <1>2, <1>5, <2>1 DEF Ask, redis, answers
<1>6. ASSUME NEW t \in Thread, Return(t)
      PROVE  /\ Expirers(u)' \subseteq Expirers(u)
             /\ t \in Expirers(u) => Expirers(u)' = {}
  <2>1. call' = [call EXCEPT ![t] = Idle] /\ Idle.at = "idle"
    BY <1>6 DEF Return, Idle
  <2> HIDE DEF Idle
  <2>2. Expirers(u)' = Expirers(u) \ {t}
    BY <2>1 DEF Expirers, Types
  <2> QED
    BY <1>1, <2>2
<1>7. ASSUME NEW t \in Thread, Crash(t)
      PROVE  CounterOk(u)'
  BY <1>2, <1>6, <1>7 DEF Crash, redis, answers
<1>8. ASSUME NEW t \in Thread, Step(t)
      PROVE  CounterOk(u)'
  <2> DEFINE v == call[t].user
  <2>1. v \in User
    BY TypesCalls
  <2>2. CASE Incr(t)
    <3> DEFINE m == Incremented(count[v][0])
    <3>1. /\ call[t].at = "allow" /\ count' = [count EXCEPT ![v][0] = m] /\ ttl' = ttl
          /\ IF m <= LIMIT THEN Grant(v, 0) ELSE Deny
          /\ \/ Opens(m) /\ Goto(t, "expire")
             \/ ~Opens(m) /\ m > LIMIT /\ Goto(t, "ttl")
             \/ ~Opens(m) /\ m <= LIMIT /\ Return(t)
      BY <2>2 DEF Incr, At
    <3>2. m \in 0 .. LIMIT + 1
      BY <2>1, SMTT(30) DEF Incremented, Types
    <3> HIDE DEF m
    <3>3. 0 \in 0 .. 1
      OBVIOUS
    <3>4. /\ m <= LIMIT =>
               /\ Gained(granted[v], granted'[v], 0)
               /\ short'[v] = FALSE /\ promise'[v] = NoPromise
               /\ \A w \in User : w # v =>
                    granted'[w] = granted[w] /\ short'[w] = short[w] /\ promise'[w] = promise[w]
          /\ ~(m <= LIMIT) => granted' = granted /\ promise' = promise /\ short' = short
      <4>1. CASE m <= LIMIT
        <5>1. Grant(v, 0)
          BY <3>1, <4>1
        <5> QED
          BY <2>1, <3>3, <4>1, <5>1, GrantOf
      <4>2. CASE ~(m <= LIMIT)
        BY <3>1, <4>2 DEF Deny, answers
      <4> QED
        BY <4>1, <4>2
    <3>5. CASE u # v
      <4>1. Expirers(u)' \subseteq Expirers(u)
        <5>1. CASE Return(t)
          BY <1>6, <5>1
        <5>2. CASE Goto(t, "expire") \/ Goto(t, "ttl")
          BY <2>1, <3>5, <5>2, ZenonT(30) DEF Goto, Expirers, Types
        <5> QED
          BY <3>1, <5>1, <5>2
      <4>2. count'[u][0] = n
        BY <2>1, <3>1, <3>5 DEF Types
      <4>3. granted'[u] = g /\ promise'[u] = p /\ short'[u] = b
        BY <3>4, <3>5
      <4> QED
        BY <1>2, <3>1, <4>1, <4>2, <4>3
    <3>6. CASE u = v
      <4>1. /\ m = IF n > LIMIT THEN n ELSE n + 1
            /\ count'[u][0] = m /\ ttl'[u] = x
        BY <2>1, <3>1, <3>6 DEF Incremented, Types, m
      <4>2. CASE n = 0
        <5>1. m = 1 /\ m <= LIMIT /\ Opens(m) /\ x = NoTtl /\ Expirers(u) = {}
          BY <1>1, <4>1, <4>2 DEF Opens, Counter
        <5>2. Goto(t, "expire")
          BY <3>1, <5>1
        <5>3. Expirers(u)' \subseteq {t}
          BY <5>1, <5>2 DEF Goto, Expirers, Types
        <5>4. Gained(g, granted'[u], 0) /\ short'[u] = FALSE /\ promise'[u] = NoPromise
          BY <3>4, <3>6, <5>1
        <5> HIDE DEF g, n, x
        <5>5. Counter(granted'[u], n + 1, x)
          BY <1>1, <4>2, <5>4, CounterGrant
        <5>6. n + 1 = m
          BY <4>2, <5>1
        <5>7. Counter(granted'[u], m, x)
          BY <5>5, <5>6
        <5> QED
          BY <4>1, <5>1, <5>3, <5>4, <5>7 DEF CounterOk, CounterOf, NoPromise, Expired
      <4>3. CASE n > 0 /\ n < LIMIT
        <5>1. m = n + 1 /\ m <= LIMIT /\ ~Opens(m) /\ ~(m > LIMIT)
          BY <1>1, <4>1, <4>3 DEF Opens
        <5>2. Expirers(u)' \subseteq Expirers(u)
          BY <1>6, <3>1, <5>1
        <5>3. Gained(g, granted'[u], 0) /\ short'[u] = FALSE /\ promise'[u] = NoPromise
          BY <3>4, <3>6, <5>1
        <5> HIDE DEF g, n, x
        <5>4. Counter(granted'[u], n + 1, x)
          BY <1>1, <4>3, <5>3, CounterGrant
        <5>5. CounterOf(granted'[u], count'[u][0], ttl'[u], promise'[u], short'[u])
          BY <4>1, <5>1, <5>3, <5>4 DEF CounterOf, NoPromise, Expired
        <5>6. Expirers(u)' # {} => count'[u][0] > 0 /\ ttl'[u] = NoTtl
          BY <1>1, <4>1, <5>1, <5>2
        <5> QED
          BY <1>1, <5>2, <5>5, <5>6 DEF CounterOk
      <4>4. CASE n >= LIMIT
        <5>1. m \in 0 .. LIMIT + 1 /\ m >= n /\ ~(m <= LIMIT) /\ ~Opens(m) /\ m > 0
          BY <1>1, <3>2, <4>1, <4>4 DEF Opens
        <5>2. Expirers(u)' \subseteq Expirers(u)
          <6>1. Goto(t, "ttl")
            BY <3>1, <5>1
          <6> QED
            BY <3>1, <6>1 DEF Goto, Expirers, Types
        <5>3. granted'[u] = g /\ promise'[u] = p /\ short'[u] = b
          BY <3>4, <5>1
        <5> HIDE DEF g, n, x, p, b
        <5>4. Counter(g, m, x)
          BY <1>1, <4>4, <5>1, CounterDeny
        <5>5. CounterOf(granted'[u], count'[u][0], ttl'[u], promise'[u], short'[u])
          BY <1>1, <4>1, <4>4, <5>1, <5>3, <5>4, LimitAssumption DEF CounterOf, Expired
        <5>6. Expirers(u)' # {} => count'[u][0] > 0 /\ ttl'[u] = NoTtl
          BY <1>1, <4>1, <5>1, <5>2
        <5> QED
          BY <1>1, <5>2, <5>5, <5>6 DEF CounterOk
      <4> QED
        BY <1>1, <4>2, <4>3, <4>4
    <3> QED
      BY <3>5, <3>6
  <2>3. CASE Expire(t)
    <3>1. /\ call[t].at = "expire" /\ ttl' = [ttl EXCEPT ![v] = WINDOW] /\ Return(t)
          /\ UNCHANGED <<count, granted, promise, short>>
      BY <2>3 DEF Expire, At, answers
    <3>2. CASE u # v
      BY <1>2, <1>6, <2>1, <3>1, <3>2 DEF Types
    <3>3. CASE u = v
      <4>1. t \in Expirers(u) /\ ttl'[u] = WINDOW
        BY <2>1, <3>1, <3>3 DEF Expirers, Types
      <4>2. Expirers(u)' = {} /\ n > 0 /\ x = NoTtl
        BY <1>1, <1>6, <3>1, <4>1
      <4>3. ~b => ~(p > 0) /\ p \notin {0, Expired}
        BY <1>1, <4>2 DEF NoTtl
      <4> HIDE DEF g, n, x, p, b
      <4>4. Counter(g, n, WINDOW)
        BY <1>1, <4>2, CounterExpire
      <4>5. n # 0
        BY <4>2
      <4> QED
        BY <3>1, <4>1, <4>2, <4>3, <4>4, <4>5 DEF CounterOk, CounterOf, g, n, p, b
    <3> QED
      BY <3>2, <3>3
  <2>4. CASE Ttl(t)
    <3>1. /\ Return(t) /\ UNCHANGED <<count, ttl>>
      BY <2>4 DEF Ttl, redis
    <3>2. /\ granted' = granted
          /\ \/ promise'[v] = 0 /\ short'[v] = FALSE /\ count[v][0] = 0
             \/ promise'[v] = ttl[v] /\ ttl[v] # NoTtl
             \/ short'[v] = TRUE
             \/ promise'[v] = promise[v] /\ short'[v] = short[v]
          /\ \A w \in User : w # v => promise'[w] = promise[w] /\ short'[w] = short[w]
      BY <2>4, TtlOf
    <3>3. CASE u # v
      BY <1>2, <1>6, <2>1, <3>1, <3>2, <3>3
    <3>4. CASE u = v
      <4>1. \/ promise'[u] = 0 /\ n = 0
            \/ promise'[u] = x /\ x # NoTtl
            \/ short'[u]
            \/ promise'[u] = p /\ short'[u] = b
        BY <3>2, <3>4
      <4>2. ~short'[u] => /\ promise'[u] > 0 => x = promise'[u]
                          /\ promise'[u] \in {0, Expired} => n = 0
        BY <1>1, <4>1 DEF NoTtl, Expired
      <4>3. CounterOf(granted'[u], count'[u][0], ttl'[u], promise'[u], short'[u])
        BY <1>1, <3>1, <3>2, <4>2 DEF CounterOf
      <4>4. Expirers(u)' \subseteq Expirers(u)
        BY <1>6, <3>1
      <4> QED
        BY <1>1, <3>1, <4>3, <4>4 DEF CounterOk
    <3> QED
      BY <3>3, <3>4
  <2> QED
    BY <1>8, <2>2, <2>3, <2>4, StepOf
<1> QED
  BY <1>3, <1>4, <1>5, <1>7, <1>8 DEF Next

-----------------------------------------------------------------------------
(* The invariant and the theorems *)

\* The inductive invariant.
Inv ==
  /\ Types /\ Unused /\ crashes \in Nat
  /\ limiter = "memory" => \A u \in User : MemoryOk(u)
  /\ limiter \in {"tuples", "lua"} => \A u \in User : LogOk(u)
  /\ limiter = "fixed" => \A u \in User : FixedOk(u)
  /\ limiter = "counter" => \A u \in User : CounterOk(u)

\* Nobody has asked at first.
LEMMA InvInit == Init => Inv
<1> SUFFICES ASSUME Init PROVE Inv
  OBVIOUS
<1> USE LimitAssumption
<1>1. Types /\ Unused
  BY TypesInit
<1> SUFFICES ASSUME NEW u \in User
             PROVE  MemoryOk(u) /\ LogOk(u) /\ FixedOk(u) /\ CounterOk(u)
  BY <1>1 DEF Inv, Init
<1> DEFINE g == granted[u]
<1>2. /\ hits[u] = <<>> /\ count[u] = [b \in 0 .. 1 |-> 0] /\ ttl[u] = NoTtl /\ phase = 0
      /\ short[u] = FALSE /\ promise[u] = NoPromise
      /\ \A a \in 0 .. Oldest : g[a] = 0 /\ forgotten[u][a] = 0
      /\ \A t \in Thread : call[t].at = "idle"
  BY DEF Init, Idle
<1>3. Ages(g)
  BY <1>2 DEF Ages
<1> HIDE DEF g
<1>4. ASSUME NEW m \in Nat, NEW l \in Int, l <= Oldest
      PROVE  Over(g, m, l) = 0
  <2>1. IsFiniteSet(m .. l)
    BY FS_Interval
  <2>2. \A a \in m .. l : g[a] = 0
    BY <1>2, <1>4 DEF Oldest
  <2>3. Cardinality(m .. l) \in Nat
    BY <2>1, FS_CardinalityType
  <2>4. SumFunctionOnSet(g, m .. l) = 0 * Cardinality(m .. l)
    BY <2>1, <2>2, SumOfEqual
  <2> QED
    BY <2>3, <2>4 DEF Over
<1>5. Log(<<>>, g, NoTtl)
  <2>1. \A a : Times(<<>>, 0, a) = 0
    BY TimesNone
  <2>2. \A a \in 0 .. WINDOW : g[a] = 0
    BY <1>2 DEF Oldest
  <2> QED
    BY <2>1, <2>2 DEF Log
<1>6. MemoryOk(u)
  <2> DEFINE f == forgotten[u]
             k == Left(g, f)
  <2>1. /\ Fewer(g, f) /\ \A a \in 0 .. Oldest : k[a] = 0
    BY <1>2 DEF Fewer, Left
  <2> HIDE DEF f, k
  <2>2. Appending(u) = {}
    BY <1>2 DEF Appending
  <2>3. Cardinality({}) = 0
    BY FS_EmptySet
  <2>4. Cardinality(Appending(u)) = 0
    BY <2>2, <2>3, Zenon
  <2>5. Cardinality(Thread) \in Nat
    BY PoolAssumption, FS_CardinalityType
  <2>6. Log(<<>>, k, NoTtl)
    <3>1. \A a : Times(<<>>, 0, a) = 0
      BY TimesNone
    <3>2. \A a \in 0 .. WINDOW : k[a] = 0
      BY <2>1 DEF Oldest
    <3> QED
      BY <3>1, <3>2 DEF Log
  <2>7. Deque(<<>>, k, NoPromise, FALSE)
    BY DEF Deque
  <2>8. Seen(u)
    BY <1>2 DEF Seen
  <2>9. MemoryOf(hits[u], granted[u], forgotten[u], promise[u], short[u])
    BY <1>2, <2>1, <2>6, <2>7 DEF MemoryOf, g, f, k
  <2>10. Len(hits[u]) + Cardinality(Appending(u)) < LIMIT + Cardinality(Thread)
    <3>1. Len(hits[u]) = 0
      BY <1>2
    <3> QED
      BY <2>4, <2>5, <3>1
  <2> QED
    BY <2>8, <2>9, <2>10 DEF MemoryOk
<1>7. LogOk(u)
  BY <1>2, <1>5 DEF LogOk, LogOf, g
<1>8. FixedOk(u)
  <2>1. Elapsed(phase) = 0 /\ Current(phase) = 0
    BY <1>2 DEF Elapsed, Current
  <2>2. Over(g, 0, 0) = 0 /\ Over(g, 1, WINDOW) = 0
    BY <1>4 DEF Oldest
  <2>3. Over(g, 0 + 1, WINDOW) = 0
    BY <2>2
  <2>4. count[u][0] = 0 /\ count[u][1] = 0 /\ Least(0, LIMIT) = 0
    BY <1>2 DEF Least
  <2> QED
    BY <1>2, <2>1, <2>2, <2>3, <2>4 DEF FixedOk, Buckets, g
<1>9. CounterOk(u)
  <2>1. Over(g, 0, WINDOW - 1) = 0
    BY <1>4 DEF Oldest
  <2>2. count[u][0] = 0 /\ g[0] = 0
    BY <1>2 DEF Oldest
  <2>3. Counter(g, 0, NoTtl)
    BY <2>1, <2>2 DEF Counter
  <2>4. Expirers(u) = {}
    BY <1>2 DEF Expirers
  <2> QED
    BY <1>2, <2>2, <2>3, <2>4 DEF CounterOk, CounterOf, NoPromise, Expired, g
<1> QED
  BY <1>6, <1>7, <1>8, <1>9

\* One step, of whichever limiter it is.
LEMMA InvStep == Inv /\ [Next]_vars => Inv'
<1> SUFFICES ASSUME Inv, [Next]_vars PROVE Inv'
  OBVIOUS
<1>1. Types /\ Unused /\ Types' /\ Unused'
  BY TypesStep DEF Inv
<1>2. limiter' = limiter
  <2>1. ASSUME NEW t \in Thread, Step(t) PROVE limiter' = limiter
    BY <2>1, StepOf
  <2> QED
    BY <2>1 DEF Next, Tick, Crash, Ask, vars
<1>3. limiter = "memory" => \A u \in User : MemoryOk(u)'
  BY <1>1, MemoryStep DEF Inv
<1>4. limiter \in {"tuples", "lua"} => \A u \in User : LogOk(u)'
  BY <1>1, LogStep DEF Inv
<1>5. limiter = "fixed" => \A u \in User : FixedOk(u)'
  BY <1>1, FixedStep DEF Inv
<1>6. limiter = "counter" => \A u \in User : CounterOk(u)'
  BY <1>1, CounterStep DEF Inv
<1>7. crashes' \in Nat
  <2>1. crashes' \in {crashes, crashes + 1}
    BY DEF Next, Step, Look, Test, Drop, Count, Record, RetryAfter, First, Tuples, Script,
           Pipeline, Incr, Expire, Ttl, Crash, Tick, Ask, vars
  <2> QED
    BY <2>1 DEF Inv
<1> QED
  BY <1>1, <1>2, <1>3, <1>4, <1>5, <1>6, <1>7 DEF Inv

\* For any users, threads, limit and window: the inductive invariant holds always.
THEOREM InvHolds == Spec => []Inv
<1>1. Init => Inv
  BY InvInit
<1>2. Inv /\ [Next]_vars => Inv'
  BY InvStep
<1> QED
  BY <1>1, <1>2, PTL DEF Spec

\* The logs hold what the window let through, and their length is bounded; a window
\* touches two buckets, or two lives of a key.
LEMMA QuotaFromInv == Inv => QuotaKept
<1> SUFFICES ASSUME Inv, NEW u \in User PROVE Over(granted[u], 0, WINDOW - 1) <= Quota(u)
  BY DEF QuotaKept, Recent, Over
<1> USE LimitAssumption
<1> DEFINE s == hits[u]
           g == granted[u]
           V == WINDOW - 1
<1>1. Types /\ limiter \in Limiter
  BY LimiterType DEF Inv
<1>2. s \in Seq(Age) /\ Ages(g) /\ Len(s) \in Nat /\ count[u] \in [0 .. 1 -> 0 .. LIMIT + 1]
      /\ phase \in 0 .. 2 * WINDOW - 1
  <2>1. s \in Seq(Age) /\ Ages(g) /\ count[u] \in [0 .. 1 -> 0 .. LIMIT + 1]
    BY <1>1, TypesOf
  <2>2. phase \in 0 .. 2 * WINDOW - 1
    BY <1>1 DEF Types
  <2> HIDE DEF s, g
  <2>3. Len(s) \in Nat
    BY <2>1, LenProperties
  <2> QED
    BY <2>1, <2>2, <2>3
<1>3. Over(g, 0, V) \in Nat
  <2>1. V \in Int /\ V <= Oldest /\ 0 \in Nat /\ Ages(g)
    BY <1>2 DEF Oldest
  <2> HIDE DEF V, g
  <2> QED
    BY <2>1, AgesOver
<1>4. CASE limiter = "memory"
  <2> DEFINE f == forgotten[u]
             k == Left(g, f)
  <2>1. /\ Fewer(g, f) /\ Log(s, k, NoTtl)
        /\ Len(s) + Cardinality(Appending(u)) < LIMIT + Cardinality(Thread)
    BY <1>4 DEF Inv, MemoryOk, MemoryOf
  <2>2. /\ Ages(k) /\ Ages(f)
        /\ \A m \in Nat, n \in Int : n <= Oldest => Over(g, m, n) = Over(k, m, n) + Over(f, m, n)
    BY <2>1, LeftOver
  <2>3. Over(k, 0, V) <= Len(s)
    BY <1>2, <2>1, <2>2, LogQuota
  <2>4. V \in Int /\ V <= Oldest /\ 0 \in Nat
    BY DEF Oldest
  <2> HIDE DEF V, k, f
  <2>5. /\ Over(g, 0, V) = Over(k, 0, V) + Over(f, 0, V)
        /\ Over(k, 0, V) \in Nat /\ Over(f, 0, V) \in Nat
    BY <2>2, <2>4, AgesOver
  <2>6. Cardinality(Appending(u)) \in Nat /\ Cardinality(Thread) \in Nat
    <3>1. Appending(u) \in SUBSET Thread
      BY DEF Appending
    <3> QED
      BY <3>1, ThreadsCount
  <2>7. Quota(u) = LIMIT + Cardinality(Thread) - 1 + Over(f, 0, V)
    BY <1>4 DEF Quota, Over, f, V
  <2> HIDE DEF g, s
  <2>8. Over(g, 0, V) <= LIMIT + Cardinality(Thread) - 1 + Over(f, 0, V)
    BY <1>2, <2>1, <2>3, <2>5, <2>6, SMTT(30)
  <2> QED
    BY <2>7, <2>8 DEF V, g
<1>5. CASE limiter \in {"tuples", "lua"}
  <2>1. Log(s, g, ttl[u]) /\ Len(s) <= LIMIT
    BY <1>5 DEF Inv, LogOk, LogOf
  <2>2. Over(g, 0, V) <= Len(s)
    BY <1>2, <2>1, LogQuota
  <2>3. Quota(u) = LIMIT
    BY <1>5 DEF Quota
  <2> HIDE DEF V, g, s
  <2> QED
    BY <1>2, <1>3, <2>1, <2>2, <2>3 DEF V, g
<1>6. CASE limiter = "fixed"
  <2>1. Buckets(g, count[u], phase)
    BY <1>6 DEF Inv, FixedOk
  <2>2. Over(g, 0, V) <= 2 * LIMIT
    BY <1>2, <2>1, BucketsQuota
  <2> QED
    BY <1>6, <2>2 DEF Quota
<1>7. CASE limiter = "counter"
  <2>1. Counter(g, count[u][0], ttl[u])
    BY <1>7 DEF Inv, CounterOk, CounterOf
  <2>2. count[u][0] \in 0 .. LIMIT + 1
    BY <1>2
  <2>3. Over(g, 0, V) <= 2 * LIMIT - 1
    BY <1>2, <2>1, <2>2, CounterQuota
  <2> QED
    BY <1>7, <2>3 DEF Quota
<1> QED
  BY <1>1, <1>4, <1>5, <1>6, <1>7 DEF Limiter

\* For any constants: in no window are more requests let through than the limiter's
\* quota: LIMIT, and at the deque one more for each further thread and for each entry
\* of the window that a popleft meant for an older one took; twice LIMIT where buckets
\* change, and one less where a counter begins anew.
THEOREM QuotaHolds == Spec => []QuotaKept
BY InvHolds, QuotaFromInv, PTL

\* A denial and the statement it is made in.
LEMMA DeniedAt ==
  ASSUME Inv, [Next]_vars, NEW t \in Thread, Denied(t)
  PROVE  /\ granted' = granted /\ call[t].user \in User
         /\ limiter = "memory" => /\ Full(Len(hits[call[t].user])) /\ call[t].at = "count"
         /\ limiter = "tuples" => Tuples(t)
         /\ limiter = "lua" => Script(t)
         /\ limiter = "fixed" => Pipeline(t)
         /\ limiter = "counter" => Incr(t)
<1>1. /\ call[t].at \in {"allow", "count"} /\ call'[t].at \in {"idle", "retry", "ttl"}
      /\ granted' = granted /\ crashes' = crashes /\ call[t].user \in User
  BY TypesCalls DEF Inv, Denied
<1>2. ~UNCHANGED vars
  BY <1>1 DEF vars
<1>3. ~Tick
  <2>1. Tick => call'[t].at = call[t].at
    BY DEF Tick, Types, Inv
  <2> QED
    BY <1>1, <2>1
<1>4. ASSUME NEW w \in Thread, NEW u \in User PROVE ~Ask(w, u)
  <2>1. Ask(w, u) => call[w].at = "idle" /\ call' = [call EXCEPT ![w] = [at |-> "allow", user |-> u, age |-> 0]]
    BY DEF Ask
  <2>2. Ask(w, u) => call'[t].at \in {"allow", "count"}
    BY <1>1, <2>1 DEF Types, Inv
  <2> QED
    BY <1>1, <2>2
<1>5. ASSUME NEW w \in Thread PROVE ~Crash(w)
  <2>1. Crash(w) => crashes' = crashes + 1 /\ crashes \in Nat
    BY DEF Crash, Inv
  <2> QED
    BY <1>1, <2>1
<1>6. PICK w \in Thread : Step(w)
  BY <1>2, <1>3, <1>4, <1>5 DEF Next
<1>7. w = t
  <2>1. \A a \in Statement : Goto(w, a) => (w # t => call'[t] = call[t])
    BY CallOf DEF Inv
  <2>2. Return(w) => (w # t => call'[t] = call[t])
    BY CallOf DEF Inv
  <2>3. Return(w) \/ (\E a \in Statement : Goto(w, a)) \/ call' = [call EXCEPT ![w].at = "retry", ![w].age = 0]
    BY <1>6 DEF Step, Look, Test, Drop, Count, Record, RetryAfter, First, Tuples, Script,
                Pipeline, Incr, Expire, Ttl, Statement
  <2>4. call' = [call EXCEPT ![w].at = "retry", ![w].age = 0] => (w # t => call'[t] = call[t])
    BY DEF Types, Inv
  <2>5. call'[t] # call[t]
    BY <1>1
  <2> QED
    BY <2>1, <2>2, <2>3, <2>4, <2>5
<1>8. limiter = "memory" => Full(Len(hits[call[t].user])) /\ call[t].at = "count"
  <2> SUFFICES ASSUME limiter = "memory"
               PROVE  Full(Len(hits[call[t].user])) /\ call[t].at = "count"
    OBVIOUS
  <2>1. \/ Look(t) \/ Test(t) \/ Drop(t) \/ Count(t) \/ Record(t) \/ RetryAfter(t) \/ First(t)
    BY <1>6, <1>7, StepOf
  <2>2. Look(t) => call'[t].at \in {"count", "head"}
    BY CallOf DEF Look, Statement, Inv
  <2>3. Count(t) => call[t].at = "count" /\ (Full(Len(hits[call[t].user])) \/ Goto(t, "append"))
    BY DEF Count, At
  <2>4. Goto(t, "append") => call'[t].at = "append"
    BY CallOf DEF Statement, Inv
  <2> QED
    BY <1>1, <2>1, <2>2, <2>3, <2>4 DEF Test, Drop, Record, RetryAfter, First, At
<1>9. limiter = "counter" => Incr(t)
  BY <1>1, <1>6, <1>7, StepOf DEF Expire, Ttl, At
<1> QED
  BY <1>1, <1>6, <1>7, <1>8, <1>9, StepOf

\* A grant shows in the history.
LEMMA GrantShows ==
  ASSUME Types, NEW u \in User, NEW e \in 0 .. 1, Grant(u, e)
  PROVE  granted' # granted
<1>1. Gained(granted[u], granted'[u], e) /\ Ages(granted[u])
  BY GrantOf, TypesOf
<1>2. e \in 0 .. Oldest
  BY LimitAssumption DEF Oldest
<1> QED
  BY <1>1, <1>2 DEF Gained, Ages

\* What a thread that denies at the deque has seen.
LEMMA DeniedSees ==
  ASSUME Inv, limiter = "memory", NEW t \in Thread, call[t].at = "count", NEW u \in User,
         u = call[t].user
  PROVE  LET k == Left(granted[u], forgotten[u]) IN
         /\ Sees(hits[u], k, promise[u], short[u], call[t].age)
         /\ Log(hits[u], k, NoTtl) /\ Ages(k)
         /\ Over(k, 0, Oldest) \in Nat /\ Over(k, 0, Oldest) <= Over(granted[u], 0, Oldest)
         /\ Over(granted[u], 0, Oldest) \in Nat
<1> DEFINE g == granted[u]
           f == forgotten[u]
           k == Left(g, f)
<1>1. /\ Sees(hits[u], k, promise[u], short[u], call[t].age)
      /\ Log(hits[u], k, NoTtl) /\ Fewer(g, f)
  BY DEF Inv, MemoryOk, MemoryOf, Seen
<1>2. /\ Ages(g) /\ Ages(k) /\ Ages(f)
      /\ \A m \in Nat, n \in Int : n <= Oldest => Over(g, m, n) = Over(k, m, n) + Over(f, m, n)
  BY <1>1, LeftOver
<1>3. Oldest \in Int /\ 0 \in Nat /\ Oldest <= Oldest
  BY LimitAssumption DEF Oldest
<1> HIDE DEF g, f, k
<1>4. /\ Over(g, 0, Oldest) = Over(k, 0, Oldest) + Over(f, 0, Oldest)
      /\ Over(k, 0, Oldest) \in Nat /\ Over(f, 0, Oldest) \in Nat
  BY <1>2, <1>3, AgesOver
<1> QED
  BY <1>1, <1>2, <1>4 DEF g, f, k

\* Whoever is denied had LIMIT requests let through lately.
LEMMA DenialsFromInv ==
  ASSUME Inv, [Next]_vars, limiter # "counter", NEW t \in Thread, Denied(t)
  PROVE  Recent(call[t].user, 0 .. Lately) >= LIMIT
<1> USE LimitAssumption
<1> DEFINE u == call[t].user
           g == granted[u]
           e == call[t].age
<1>1. Types /\ limiter \in Limiter
  BY LimiterType DEF Inv
<1>2. /\ granted' = granted /\ u \in User
      /\ limiter = "memory" => Full(Len(hits[u])) /\ call[t].at = "count"
      /\ limiter = "tuples" => Tuples(t)
      /\ limiter = "lua" => Script(t)
      /\ limiter = "fixed" => Pipeline(t)
  BY DeniedAt
<1>3. /\ hits[u] \in Seq(Age) /\ Ages(g) /\ count[u] \in [0 .. 1 -> 0 .. LIMIT + 1]
      /\ e \in 0 .. 1 /\ phase \in 0 .. 2 * WINDOW - 1 /\ Len(hits[u]) \in Nat
  <2>1. hits[u] \in Seq(Age) /\ Ages(g) /\ count[u] \in [0 .. 1 -> 0 .. LIMIT + 1]
    BY <1>1, <1>2, TypesOf
  <2>2. e \in 0 .. 1 /\ phase \in 0 .. 2 * WINDOW - 1
    BY <1>1, TypesCalls DEF Types
  <2>3. Len(hits[u]) \in Nat
    BY <2>1, LenProperties
  <2> QED
    BY <2>1, <2>2, <2>3
<1>4. ~Grant(u, e)
  BY <1>1, <1>2, <1>3, GrantShows
<1>5. ASSUME Over(g, 0, IF limiter \in {"memory", "fixed"} THEN Oldest ELSE WINDOW) >= LIMIT
      PROVE  Recent(u, 0 .. Lately) >= LIMIT
  <2>1. Lately = IF limiter \in {"memory", "fixed"} THEN Oldest ELSE WINDOW
    BY DEF Lately, Oldest
  <2>2. Recent(u, 0 .. Lately) = Over(g, 0, Lately)
    BY DEF Recent, Over
  <2> QED
    BY <1>5, <2>1, <2>2
<1>6. CASE limiter = "memory"
  <2> DEFINE k == Left(g, forgotten[u])
  <2>1. /\ Sees(hits[u], k, promise[u], short[u], e)
        /\ Log(hits[u], k, NoTtl) /\ Ages(k)
        /\ Over(k, 0, Oldest) \in Nat /\ Over(k, 0, Oldest) <= Over(g, 0, Oldest)
        /\ Over(g, 0, Oldest) \in Nat
    BY <1>2, <1>6, DeniedSees
  <2> HIDE DEF k, g, e
  <2>2. Len(hits[u]) <= Over(k, 0, Oldest)
    BY <1>3, <2>1, SeesEarned
  <2>3. Over(g, 0, Oldest) >= LIMIT
    BY <1>2, <1>3, <1>6, <2>1, <2>2 DEF Full
  <2> QED
    BY <1>5, <1>6, <2>3
<1>7. CASE limiter \in {"tuples", "lua"}
  <2>1. Log(hits[u], granted[u], ttl[u])
    BY <1>2, <1>7 DEF Inv, LogOk, LogOf
  <2> DEFINE k == Kept(t, hits[u])
  <2>2. k \in Seq(Age) /\ Len(k) <= Over(granted[u], 0, WINDOW)
    BY <1>1, <1>2, <2>1, KeptLog
  <2>3. Full(Len(k))
    <3>1. CASE limiter = "tuples"
      <4>1. Full(Len([v \in User |-> Kept(t, hits[v])][u]))
        BY <1>2, <1>4, <3>1 DEF Tuples
      <4> QED
        BY <1>2, <4>1
    <3>2. CASE limiter = "lua"
      BY <1>2, <1>4, <3>2 DEF Script
    <3> QED
      BY <1>7, <3>1, <3>2
  <2>4. Len(k) \in Nat
    <3> HIDE DEF k
    <3> QED
      BY <2>2, LenProperties
  <2>5. Over(g, 0, WINDOW) \in Nat
    <3>1. Ages(g) /\ WINDOW \in Int /\ WINDOW <= Oldest /\ 0 \in Nat
      BY <1>3 DEF Oldest
    <3> HIDE DEF g
    <3> QED
      BY <3>1, AgesOver
  <2> HIDE DEF k
  <2>6. Over(g, 0, WINDOW) >= LIMIT
    BY <2>2, <2>3, <2>4, <2>5 DEF Full
  <2> QED
    BY <1>5, <1>7, <2>6
<1>8. CASE limiter = "fixed"
  <2> DEFINE b == Bucket(t)
             n == Incremented(count[u][b])
  <2>1. Buckets(g, count[u], phase)
    BY <1>2, <1>8 DEF Inv, FixedOk
  <2>2. b = BucketOf(phase, e) /\ b \in 0 .. 1
    BY <1>1, BucketIs
  <2>3. ~(n <= LIMIT)
    BY <1>2, <1>4, <1>8 DEF Pipeline
  <2>4. n \in Int
    <3>1. count[u][b] \in 0 .. LIMIT + 1
      BY <1>3, <2>2
    <3> QED
      BY <3>1 DEF Incremented
  <2> HIDE DEF b, g, e
  <2>5. n > LIMIT => Over(g, 0, Oldest) >= LIMIT
    BY <1>3, <2>1, <2>2, <2>3, BucketsCount
  <2>6. Over(g, 0, Oldest) >= LIMIT
    BY <2>3, <2>4, <2>5
  <2> QED
    BY <1>5, <1>8, <2>6
<1> QED
  BY <1>1, <1>6, <1>7, <1>8 DEF Limiter

\* For any constants: who is denied by a limiter other than the INCR and EXPIRE one
\* was let through LIMIT times in the last window, or in the tick or two before it
\* that a call with an old now still looks at.
THEOREM DenialsHold == Spec => DenialsEarned
<1>1. Inv /\ [Next]_vars =>
        [limiter # "counter" =>
           \A t \in Thread : Denied(t) => Recent(call[t].user, 0 .. Lately) >= LIMIT]_vars
  BY DenialsFromInv
<1> QED
  BY <1>1, InvHolds, PTL DEF Spec, DenialsEarned

\* Where a wait is over, a denial has its exception.
LEMMA RetryAfterFromInv ==
  ASSUME Inv, [Next]_vars, NEW t \in Thread, NEW u \in User,
         call[t].user = u, Waited(t, u), Denied(t)
  PROVE  short[u]
<1> USE LimitAssumption
<1>1. Types /\ limiter \in Limiter
  BY LimiterType DEF Inv
<1>2. /\ granted' = granted
      /\ limiter = "memory" => Full(Len(hits[u])) /\ call[t].at = "count"
      /\ limiter = "counter" => Incr(t)
  BY DeniedAt
<1>3. /\ promise[u] # NoPromise /\ promise[u] + call[t].age <= 0
      /\ promise[u] \in NoPromise .. WINDOW + 1 /\ call[t].age \in 0 .. 1
      /\ hits[u] \in Seq(Age) /\ Len(hits[u]) \in Nat
  <2>1. promise[u] # NoPromise /\ promise[u] + call[t].age <= 0
    BY DEF Waited
  <2>2. promise[u] \in NoPromise .. WINDOW + 1 /\ call[t].age \in 0 .. 1 /\ hits[u] \in Seq(Age)
    BY <1>1, TypesOf, TypesCalls
  <2> QED
    BY <2>1, <2>2, LenProperties
<1>4. CASE limiter \in {"tuples", "lua", "fixed"}
  BY <1>3, <1>4 DEF Inv, Unused
<1>5. CASE limiter = "memory"
  <2>1. Sees(hits[u], Left(granted[u], forgotten[u]), promise[u], short[u], call[t].age)
    BY <1>2, <1>5, DeniedSees
  <2>2. ~short[u] => Len(hits[u]) < LIMIT
    BY <1>3, <2>1 DEF Sees
  <2> QED
    BY <1>2, <1>3, <1>5, <2>2 DEF Full
<1>6. CASE limiter = "counter"
  <2> DEFINE n == count[u][0]
  <2>1. ~short[u] => (promise[u] \in {0, Expired} => n = 0)
    BY <1>6 DEF Inv, CounterOk, CounterOf
  <2>2. promise[u] \in {0, Expired}
    BY <1>3 DEF NoPromise, Expired
  <2>3. n = 0 => Incremented(n) <= LIMIT
    BY DEF Incremented
  <2>4. Incremented(n) <= LIMIT => Grant(u, 0)
    BY <1>2, <1>6 DEF Incr
  <2>5. 0 \in 0 .. 1
    OBVIOUS
  <2>6. ~Grant(u, 0)
    BY <1>1, <1>2, <2>5, GrantShows
  <2> QED
    BY <2>1, <2>2, <2>3, <2>4, <2>6 DEF Types, Inv
<1> QED
  BY <1>1, <1>4, <1>5, <1>6 DEF Limiter

\* For any constants: who waits as long as the earliest Retry-After said is not
\* denied, unless somebody was let through since, or that Retry-After was a TTL that
\* Redis rounded down or of a deque with more than LIMIT entries.
THEOREM RetryAfterHolds == Spec => RetryAfterHonoured
<1>1. Inv /\ [Next]_vars =>
        [\A t \in Thread, u \in User :
           call[t].user = u /\ Waited(t, u) /\ Denied(t) => short[u]]_vars
  BY RetryAfterFromInv
<1> QED
  BY <1>1, InvHolds, PTL DEF Spec, RetryAfterHonoured

\* The bound on the lists is the invariant's.
LEMMA TypesFromInv == Inv => TypeOK
<1> SUFFICES ASSUME Inv PROVE TypeOK
  OBVIOUS
<1> USE LimitAssumption
<1>1. Types /\ Unused /\ limiter \in Limiter
  BY LimiterType DEF Inv
<1>2. Cardinality(Thread) \in Nat /\ Cardinality(Thread) # 0
  BY PoolAssumption, FS_CardinalityType, FS_EmptySet
<1>3. ASSUME NEW u \in User
      PROVE  /\ Len(hits[u]) < LIMIT + Cardinality(Thread)
             /\ \A i \in 1 .. Len(hits[u]) : hits[u][i] \in 0 .. Oldest
  <2>1. hits[u] \in Seq(Age) /\ Len(hits[u]) \in Nat
    BY <1>1, TypesOf, LenProperties
  <2>2. \A i \in 1 .. Len(hits[u]) : hits[u][i] \in 0 .. Oldest
    BY <2>1, ListOf DEF Age
  <2>3. CASE limiter = "memory"
    <3>1. Len(hits[u]) + Cardinality(Appending(u)) < LIMIT + Cardinality(Thread)
      BY <2>3 DEF Inv, MemoryOk
    <3>2. Appending(u) \in SUBSET Thread
      BY DEF Appending
    <3>3. Cardinality(Appending(u)) \in Nat
      BY <3>2, ThreadsCount
    <3> QED
      BY <1>2, <2>1, <2>2, <3>1, <3>3
  <2>4. CASE limiter \in {"tuples", "lua"}
    <3>1. Len(hits[u]) <= LIMIT
      BY <2>4 DEF Inv, LogOk, LogOf
    <3> QED
      BY <1>2, <2>1, <2>2, <3>1
  <2>5. CASE limiter \in {"fixed", "counter"}
    BY <1>1, <1>2, <2>1, <2>2, <2>5 DEF Unused
  <2> QED
    BY <1>1, <2>3, <2>4, <2>5 DEF Limiter
<1> QED
  BY <1>1, <1>3 DEF TypeOK, Types, Statement

\* For any constants: the types, and no list longer than LIMIT and the racing
\* threads make it.
THEOREM TypeCorrect == Spec => []TypeOK
BY InvHolds, TypesFromInv, PTL
=============================================================================
