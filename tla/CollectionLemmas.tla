-------------------------- MODULE CollectionLemmas --------------------------
(***************************************************************************)
(* What the operators the models are built from do to lists and sums.      *)
(* Induction is over the SET of the numbers, or of the subsets, for which  *)
(* a claim holds.                                                          *)
(***************************************************************************)
EXTENDS Integers, SequencesExt, SequenceTheorems, FiniteSetTheorems, WellFoundedInduction, TLAPS

-----------------------------------------------------------------------------
(* Induction *)

\* A non-empty set of naturals has a least element.
LEMMA LeastOf ==
  ASSUME NEW I, I \subseteq Nat, I # {}
  PROVE  \E x \in I : \A y \in I : x <= y
<1>1. PICK x \in I : \A y \in I : ~ (<<y, x>> \in OpToRel(<, Nat))
  BY WFMin, NatLessThanWellFounded, Zenon
<1>2. OpToRel(<, Nat) = {ss \in Nat \X Nat : ss[1] < ss[2]}
  BY Zenon DEF OpToRel
<1>3. ASSUME NEW y \in I
      PROVE  x <= y
  <2>1. <<y, x>> \in Nat \X Nat /\ <<y, x>>[1] = y /\ <<y, x>>[2] = x
    OBVIOUS
  <2>2. ~ (y < x)
    BY <1>1, <1>2, <2>1
  <2> QED
    BY <2>2
<1> QED
  BY <1>3

\* Induction over the naturals, for a set of them.
LEMMA NaturalsAll ==
  ASSUME NEW G, 0 \in G, \A n \in Nat : n \in G => n + 1 \in G
  PROVE  Nat \subseteq G
<1> SUFFICES ASSUME Nat \ G # {} PROVE FALSE
  OBVIOUS
<1>1. PICK m \in Nat \ G : \A y \in Nat \ G : m <= y
  BY LeastOf
<1>2. m # 0 /\ m - 1 \in Nat
  BY <1>1
<1>3. m - 1 \in G
  BY <1>1, <1>2
<1> QED
  BY <1>1, <1>2, <1>3

\* Induction over the subsets of a finite set: if a subset has what each set one
\* element smaller has, they all have it.
LEMMA SubsetsAll ==
  ASSUME NEW D, IsFiniteSet(D), NEW G,
         \A s \in SUBSET D : (\A x \in s : s \ {x} \in G) => s \in G
  PROVE  SUBSET D \subseteq G
<1> SUFFICES ASSUME (SUBSET D) \ G # {} PROVE FALSE
  OBVIOUS
<1> DEFINE Sizes == {n \in Nat : \E s \in (SUBSET D) \ G : Cardinality(s) = n}
<1>1. \A s \in SUBSET D : IsFiniteSet(s) /\ Cardinality(s) \in Nat
  BY FS_Subset, FS_CardinalityType
<1>2. PICK n \in Sizes : \A k \in Sizes : n <= k
  <2>1. Sizes \subseteq Nat /\ Sizes # {}
    BY <1>1
  <2> HIDE DEF Sizes
  <2> QED
    BY <2>1, LeastOf
<1>3. PICK s \in (SUBSET D) \ G : Cardinality(s) = n
  BY <1>2
<1>4. ASSUME NEW x \in s
      PROVE  s \ {x} \in G
  <2> SUFFICES ASSUME s \ {x} \notin G PROVE FALSE
    OBVIOUS
  <2>1. s \in SUBSET D /\ s \ {x} \in SUBSET D
    BY <1>3
  <2>2. Cardinality(s \ {x}) = Cardinality(s) - 1
    BY <1>1, <2>1, FS_RemoveElement
  <2>3. Cardinality(s \ {x}) \in Sizes
    BY <1>1, <2>1
  <2>4. n <= Cardinality(s \ {x})
    BY <1>2, <2>3
  <2> QED
    BY <1>3, <2>2, <2>4
<1> QED
  BY <1>3, <1>4

-----------------------------------------------------------------------------
(* Lists: LPUSH is <<e>> \o s, RPOP is Last and Front, LREM 1 is RemoveFirst *)

\* A non-empty set of naturals has the least element that Min chooses.
LEMMA MinOfNaturals ==
  ASSUME NEW I, I \subseteq Nat, I # {}
  PROVE  Min(I) \in I /\ \A y \in I : Min(I) =< y
BY LeastOf DEF Min

\* LPUSH adds its element, keeps the others and stays in the type of the list.
LEMMA PushLeft ==
  ASSUME NEW S, NEW s \in Seq(S), NEW e \in S
  PROVE  /\ <<e>> \o s \in Seq(S)
         /\ ToSet(<<e>> \o s) = {e} \cup ToSet(s)
<1>1. <<e>> \in Seq(S) /\ Len(<<e>>) = 1 /\ <<e>>[1] = e
  OBVIOUS
<1>2. /\ <<e>> \o s \in Seq(S)
      /\ Len(<<e>> \o s) = 1 + Len(s)
      /\ \A i \in 1 .. 1 + Len(s) : (<<e>> \o s)[i] = IF i <= 1 THEN <<e>>[i] ELSE s[i - 1]
  BY <1>1, ConcatProperties
<1>3. DOMAIN (<<e>> \o s) = 1 .. 1 + Len(s) /\ DOMAIN s = 1 .. Len(s) /\ Len(s) \in Nat
  BY <1>2, LenProperties
<1>4. ToSet(<<e>> \o s) \subseteq {e} \cup ToSet(s)
  BY <1>1, <1>2, <1>3 DEF ToSet
<1>5. e \in ToSet(<<e>> \o s)
  <2>1. 1 \in 1 .. 1 + Len(s) /\ (<<e>> \o s)[1] = e
    BY <1>1, <1>2, <1>3
  <2> QED BY <2>1, <1>3 DEF ToSet
<1>6. ASSUME NEW i \in 1 .. Len(s)
      PROVE  s[i] \in ToSet(<<e>> \o s)
  <2>1. i + 1 \in 1 .. 1 + Len(s) /\ (<<e>> \o s)[i + 1] = s[i]
    BY <1>2, <1>3
  <2> QED BY <2>1, <1>3 DEF ToSet
<1> QED
  BY <1>2, <1>3, <1>4, <1>5, <1>6 DEF ToSet

\* What RPOP leaves keeps its positions.
LEMMA FrontOf ==
  ASSUME NEW S, NEW s \in Seq(S), s # <<>>
  PROVE  /\ Front(s) \in Seq(S)
         /\ Len(Front(s)) = Len(s) - 1
         /\ \A i \in 1 .. Len(s) - 1 : Front(s)[i] = s[i]
<1> DEFINE n == Len(s) - 1
<1>1. Len(s) \in Nat \ {0} /\ \A i \in 1 .. Len(s) : s[i] \in S
  BY EmptySeq, LenProperties
<1>2. n \in Nat /\ Front(s) = SubSeq(s, 1, n) /\ \A i \in 1 .. n : s[i] \in S
  BY <1>1 DEF Front
<1> HIDE DEF n
<1>3. 1 \in Int /\ n \in Int
  BY <1>2
<1>4. /\ SubSeq(s, 1, n) \in Seq(S)
      /\ Len(SubSeq(s, 1, n)) = IF 1 <= n THEN n - 1 + 1 ELSE 0
      /\ \A i \in 1 .. n - 1 + 1 : SubSeq(s, 1, n)[i] = s[1 + i - 1]
  BY <1>2, <1>3, SubSeqProperties
<1>5. Len(SubSeq(s, 1, n)) = n /\ \A i \in 1 .. n : SubSeq(s, 1, n)[i] = s[i]
  BY <1>2, <1>4
<1> QED
  BY <1>2, <1>4, <1>5 DEF n

\* RPOP splits a list into its last element and the rest.
LEMMA PopRight ==
  ASSUME NEW S, NEW s \in Seq(S), s # <<>>
  PROVE  /\ Last(s) \in S
         /\ Front(s) \in Seq(S)
         /\ ToSet(s) = {Last(s)} \cup ToSet(Front(s))
<1>1. /\ Len(s) \in Nat \ {0} /\ DOMAIN s = 1 .. Len(s)
      /\ \A i \in 1 .. Len(s) : s[i] \in S
  BY EmptySeq, LenProperties
<1>2. /\ Front(s) \in Seq(S)
      /\ Len(Front(s)) = Len(s) - 1
      /\ \A i \in 1 .. Len(s) - 1 : Front(s)[i] = s[i]
  BY FrontOf
<1>3. DOMAIN Front(s) = 1 .. Len(s) - 1
  BY <1>2, LenProperties
<1> QED
  BY <1>1, <1>2, <1>3 DEF ToSet, Last

\* RPUSH adds its element at the other end.
LEMMA PushRight ==
  ASSUME NEW S, NEW s \in Seq(S), NEW e \in S
  PROVE  /\ Append(s, e) \in Seq(S)
         /\ ToSet(Append(s, e)) = ToSet(s) \cup {e}
<1>1. /\ Len(s) \in Nat /\ DOMAIN s = 1 .. Len(s)
      /\ Append(s, e) \in Seq(S) /\ Len(Append(s, e)) = Len(s) + 1
      /\ DOMAIN Append(s, e) = 1 .. Len(s) + 1
      /\ \A i \in 1 .. Len(s) : Append(s, e)[i] = s[i]
      /\ Append(s, e)[Len(s) + 1] = e
  BY AppendProperties, LenProperties
<1> QED
  BY <1>1 DEF ToSet

\* Taking from the front of a queue: its head and the rest.
LEMMA PopLeft ==
  ASSUME NEW S, NEW s \in Seq(S), s # <<>>
  PROVE  /\ Head(s) \in S
         /\ Tail(s) \in Seq(S)
         /\ ToSet(s) = {Head(s)} \cup ToSet(Tail(s))
<1>1. /\ Len(s) \in Nat \ {0} /\ DOMAIN s = 1 .. Len(s)
      /\ \A i \in 1 .. Len(s) : s[i] \in S
      /\ Head(s) = s[1]
  BY EmptySeq, LenProperties
<1>2. /\ Tail(s) \in Seq(S) /\ Len(Tail(s)) = Len(s) - 1
      /\ \A i \in 1 .. Len(s) - 1 : Tail(s)[i] = s[i + 1]
  BY HeadTailProperties
<1>3. DOMAIN Tail(s) = 1 .. Len(s) - 1
  BY <1>2, LenProperties
<1>4. ToSet(s) = {s[i] : i \in 1 .. Len(s)} /\ ToSet(Tail(s)) = {Tail(s)[i] : i \in 1 .. Len(s) - 1}
  BY <1>1, <1>3 DEF ToSet
<1>5. ASSUME NEW i \in 1 .. Len(s), i # 1
      PROVE  s[i] \in ToSet(Tail(s))
  <2>1. i - 1 \in 1 .. Len(s) - 1 /\ Tail(s)[i - 1] = s[i]
    BY <1>1, <1>2, <1>5
  <2> QED
    BY <1>4, <2>1
<1> QED
  BY <1>1, <1>2, <1>4, <1>5

\* A list without duplicates stays one, when what is pushed is not in it ...
LEMMA PushDistinct ==
  ASSUME NEW S, NEW s \in Seq(S), NEW e \in S, e \notin ToSet(s), IsInjective(s)
  PROVE  IsInjective(<<e>> \o s)
<1>1. <<e>> \in Seq(S) /\ Len(<<e>>) = 1 /\ <<e>>[1] = e
  OBVIOUS
<1> DEFINE u == <<e>> \o s
<1>2. /\ Len(s) \in Nat /\ DOMAIN s = 1 .. Len(s) /\ DOMAIN u = 1 .. 1 + Len(s)
      /\ \A i \in 1 .. 1 + Len(s) : u[i] = IF i <= 1 THEN e ELSE s[i - 1]
  BY <1>1, ConcatProperties, LenProperties
<1> HIDE DEF u
<1>3. \A i \in DOMAIN s : s[i] # e
  BY DEF ToSet
<1>4. \A i \in DOMAIN u : i = 1 \/ (i - 1 \in DOMAIN s /\ u[i] = s[i - 1] /\ i = (i - 1) + 1)
  BY <1>2
<1>5. u[1] = e
  BY <1>2
<1>6. ASSUME NEW i \in DOMAIN u, NEW k \in DOMAIN u, u[i] = u[k] PROVE i = k
  <2>1. CASE i = 1 \/ k = 1
    BY <1>3, <1>4, <1>5, <1>6, <2>1
  <2>2. CASE i # 1 /\ k # 1
    <3>1. i - 1 = k - 1
      BY <1>4, <1>6, <2>2 DEF IsInjective
    <3> QED BY <1>4, <2>2, <3>1
  <2> QED BY <2>1, <2>2
<1> QED
  BY <1>6 DEF IsInjective, u

\* ... and what RPOP takes is not in the rest.
LEMMA PopDistinct ==
  ASSUME NEW S, NEW s \in Seq(S), s # <<>>, IsInjective(s)
  PROVE  IsInjective(Front(s)) /\ Last(s) \notin ToSet(Front(s))
<1>1. /\ Len(s) \in Nat \ {0} /\ DOMAIN s = 1 .. Len(s)
      /\ \A i \in 1 .. Len(s) : s[i] \in S
  BY EmptySeq, LenProperties
<1>2. /\ Front(s) \in Seq(S)
      /\ Len(Front(s)) = Len(s) - 1
      /\ \A i \in 1 .. Len(s) - 1 : Front(s)[i] = s[i]
  BY FrontOf
<1>3. DOMAIN Front(s) = 1 .. Len(s) - 1
  BY <1>2, LenProperties
<1> QED
  BY <1>1, <1>2, <1>3 DEF IsInjective, ToSet, Last

\* Taking out position k keeps what is before it and shifts what is after it.
LEMMA CutOut ==
  ASSUME NEW S, NEW s \in Seq(S), NEW k \in 1 .. Len(s)
  PROVE  /\ RemoveAt(s, k) \in Seq(S)
         /\ Len(RemoveAt(s, k)) = Len(s) - 1
         /\ \A i \in 1 .. Len(s) - 1 :
              RemoveAt(s, k)[i] = IF i < k THEN s[i] ELSE s[i + 1]
<1> DEFINE a == SubSeq(s, 1, k - 1)
           b == SubSeq(s, k + 1, Len(s))
<1>1. Len(s) \in Nat /\ \A i \in 1 .. Len(s) : s[i] \in S
  BY LenProperties
<1>2. /\ a \in Seq(S) /\ Len(a) = k - 1 /\ \A i \in 1 .. k - 1 : a[i] = s[i]
  <2>1. k - 1 \in Int /\ 1 \in Int /\ \A i \in 1 .. k - 1 : s[i] \in S
    BY <1>1
  <2>2. /\ a \in Seq(S)
        /\ Len(a) = IF 1 <= k - 1 THEN k - 1 - 1 + 1 ELSE 0
        /\ \A i \in 1 .. k - 1 - 1 + 1 : a[i] = s[1 + i - 1]
    BY <2>1, SubSeqProperties
  <2> HIDE DEF a
  <2> QED BY <2>2
<1>3. /\ b \in Seq(S) /\ Len(b) = Len(s) - k
      /\ \A i \in 1 .. Len(s) - k : b[i] = s[k + i]
  <2>1. k + 1 \in Int /\ Len(s) \in Int /\ \A i \in k + 1 .. Len(s) : s[i] \in S
    BY <1>1
  <2>2. /\ b \in Seq(S)
        /\ Len(b) = IF k + 1 <= Len(s) THEN Len(s) - (k + 1) + 1 ELSE 0
        /\ \A i \in 1 .. Len(s) - (k + 1) + 1 : b[i] = s[k + 1 + i - 1]
    BY <2>1, SubSeqProperties
  <2> HIDE DEF b
  <2>3. \A i : k + 1 + i - 1 = k + i \/ i \notin Int
    BY <1>1
  <2>4. Len(b) = Len(s) - k
    BY <2>2, <1>1, SMTT(30)
  <2>5. Len(s) - (k + 1) + 1 = Len(s) - k
    BY <1>1
  <2>6. ASSUME NEW i \in 1 .. Len(s) - k
        PROVE  b[i] = s[k + i]
    <3>1. i \in 1 .. Len(s) - (k + 1) + 1 /\ k + 1 + i - 1 = k + i
      BY <2>5, <1>1
    <3> QED BY <3>1, <2>2
  <2> QED BY <2>2, <2>4, <2>6
<1>4. RemoveAt(s, k) = a \o b
  BY DEF RemoveAt
<1> HIDE DEF a, b
<1>5. /\ a \o b \in Seq(S)
      /\ Len(a \o b) = Len(a) + Len(b)
      /\ \A i \in 1 .. Len(a) + Len(b) :
           (a \o b)[i] = IF i <= Len(a) THEN a[i] ELSE b[i - Len(a)]
  BY <1>2, <1>3, ConcatProperties
<1>6. Len(a) + Len(b) = Len(s) - 1
  BY <1>1, <1>2, <1>3
<1>7. ASSUME NEW i \in 1 .. Len(s) - 1
      PROVE  (a \o b)[i] = IF i < k THEN s[i] ELSE s[i + 1]
  <2>1. CASE i < k
    BY <2>1, <1>1, <1>2, <1>5, <1>6
  <2>2. CASE ~ (i < k)
    <3>1. /\ i - (k - 1) \in 1 .. Len(s) - k
          /\ k + (i - (k - 1)) = i + 1
          /\ ~ (i <= k - 1)
      BY <2>2, <1>1
    <3>2. (a \o b)[i] = b[i - (k - 1)]
      BY <3>1, <1>2, <1>5, <1>6
    <3> QED BY <3>1, <3>2, <2>2, <1>3
  <2> QED BY <2>1, <2>2
<1> QED
  BY <1>4, <1>5, <1>6, <1>7

\* LREM 1 of an entry that is there cuts out one position that has it ...
LEMMA LremAt ==
  ASSUME NEW S, NEW s \in Seq(S), NEW e, e \in ToSet(s)
  PROVE  \E k \in 1 .. Len(s) : s[k] = e /\ RemoveFirst(s, e) = RemoveAt(s, k)
<1> DEFINE I == {i \in 1 .. Len(s) : s[i] = e}
<1>1. DOMAIN s = 1 .. Len(s) /\ Len(s) \in Nat
  BY LenProperties
<1>2. I # {} /\ I \subseteq Nat
  BY <1>1 DEF ToSet
<1>3. Min(I) \in I
  BY <1>2, MinOfNaturals
<1>4. RemoveFirst(s, e) = RemoveAt(s, Min(I))
  BY <1>2 DEF RemoveFirst, SelectInSeq
<1> QED
  BY <1>3, <1>4

\* ... and changes nothing when it is not there.
LEMMA LremNone ==
  ASSUME NEW S, NEW s \in Seq(S), NEW e, e \notin ToSet(s)
  PROVE  RemoveFirst(s, e) = s
<1>1. DOMAIN s = 1 .. Len(s)
  BY LenProperties
<1> QED
  BY <1>1 DEF RemoveFirst, ToSet

\* LREM 1 takes out at most one occurrence of e: everything else stays.
LEMMA RemoveOne ==
  ASSUME NEW S, NEW s \in Seq(S), NEW e
  PROVE  /\ RemoveFirst(s, e) \in Seq(S)
         /\ ToSet(RemoveFirst(s, e)) \subseteq ToSet(s)
         /\ ToSet(s) \ {e} \subseteq ToSet(RemoveFirst(s, e))
<1>1. /\ Len(s) \in Nat /\ DOMAIN s = 1 .. Len(s)
      /\ \A i \in 1 .. Len(s) : s[i] \in S
  BY LenProperties
<1>2. CASE ~ \E i \in 1 .. Len(s) : s[i] = e
  BY <1>2 DEF RemoveFirst
<1>3. CASE \E i \in 1 .. Len(s) : s[i] = e
  <2>1. PICK k \in 1 .. Len(s) : s[k] = e /\ RemoveFirst(s, e) = RemoveAt(s, k)
    <3>1. e \in ToSet(s)
      BY <1>1, <1>3 DEF ToSet
    <3> QED BY <3>1, LremAt
  <2> DEFINE t == RemoveAt(s, k)
  <2>2. /\ t \in Seq(S) /\ Len(t) = Len(s) - 1
        /\ \A i \in 1 .. Len(s) - 1 : t[i] = IF i < k THEN s[i] ELSE s[i + 1]
    BY CutOut
  <2> HIDE DEF t
  <2>3. DOMAIN t = 1 .. Len(s) - 1
    BY <2>2, LenProperties
  <2>4. ASSUME NEW i \in 1 .. Len(s) - 1
        PROVE  t[i] \in ToSet(s)
    <3>1. i \in DOMAIN s /\ i + 1 \in DOMAIN s
      BY <1>1
    <3> QED BY <3>1, <2>2 DEF ToSet
  <2>5. ASSUME NEW i \in 1 .. Len(s), s[i] # e
        PROVE  s[i] \in ToSet(t)
    <3>1. CASE i < k
      <4>1. i \in 1 .. Len(s) - 1 /\ t[i] = s[i]
        BY <3>1, <1>1, <2>2
      <4> QED BY <4>1, <2>3 DEF ToSet
    <3>2. CASE i > k
      <4>1. i - 1 \in 1 .. Len(s) - 1 /\ ~ (i - 1 < k) /\ (i - 1) + 1 = i
        BY <3>2, <1>1
      <4>2. t[i - 1] = s[i]
        BY <4>1, <2>2
      <4> QED BY <4>1, <4>2, <2>3 DEF ToSet
    <3> QED BY <3>1, <3>2, <2>1, <2>5
  <2>6. ToSet(t) \subseteq ToSet(s)
    BY <2>3, <2>4 DEF ToSet
  <2>7. ToSet(s) \ {e} \subseteq ToSet(t)
    BY <2>5, <1>1 DEF ToSet
  <2> QED
    BY <2>1, <2>2, <2>6, <2>7 DEF t
<1> QED
  BY <1>2, <1>3

-----------------------------------------------------------------------------
(* Sums: SumFunctionOnSet is a recursive function over the subsets of its set *)

\* The element the fold takes out of a set.
Pick(s) == CHOOSE x \in s : TRUE

\* Pick picks an element.
LEMMA PickIn == ASSUME NEW s, s # {} PROVE Pick(s) \in s
BY DEF Pick

\* What the fold's recursive function is to satisfy, on a set of sets.
SolvesSum(g, f, SS) ==
  g = [s \in SS |-> IF s = {} THEN 0 ELSE f[Pick(s)] + g[s \ {Pick(s)}]]

SumsOver(g, f, D) == SolvesSum(g, f, SUBSET D)

\* SumFunctionOnSet is chosen among the solutions.
LEMMA SumIsSolution ==
  ASSUME NEW f, NEW D
  PROVE  SumFunctionOnSet(f, D) = (CHOOSE g : SumsOver(g, f, D))[D]
BY DEF SumsOver, SumFunctionOnSet, FoldFunctionOnSet, MapThenFoldSet, SolvesSum, Pick

\* There is such a function, built up by the size of the subsets.
LEMMA SolutionExists ==
  ASSUME NEW f, NEW D, IsFiniteSet(D)
  PROVE  \E g : SumsOver(g, f, D)
<1> DEFINE UpTo(n) == {s \in SUBSET D : Cardinality(s) <= n}
           G == {n \in Nat : \E g : SolvesSum(g, f, UpTo(n))}
<1>1. \A s \in SUBSET D : IsFiniteSet(s) /\ Cardinality(s) \in Nat
  BY FS_Subset, FS_CardinalityType
<1>2. 0 \in G
  <2> DEFINE z == [s \in UpTo(0) |-> 0]
  <2>1. UpTo(0) = {{}}
    BY <1>1, FS_EmptySet
  <2>2. SolvesSum(z, f, UpTo(0))
    BY <2>1 DEF SolvesSum
  <2> QED
    BY <2>2
<1>3. ASSUME NEW n \in G
      PROVE  n + 1 \in G
  <2>1. PICK g : SolvesSum(g, f, UpTo(n))
    BY <1>3
  <2> DEFINE h == [s \in UpTo(n + 1) |-> IF s = {} THEN 0 ELSE f[Pick(s)] + g[s \ {Pick(s)}]]
  <2>2. ASSUME NEW s \in UpTo(n + 1), s # {}
        PROVE  h[s \ {Pick(s)}] = g[s \ {Pick(s)}]
    <3> DEFINE t == s \ {Pick(s)}
    <3>1. Cardinality(t) = Cardinality(s) - 1 /\ t \in SUBSET D
      BY <1>1, <2>2, PickIn, FS_RemoveElement
    <3>2. t \in UpTo(n) /\ t \in UpTo(n + 1)
      BY <1>1, <3>1
    <3> HIDE DEF t
    <3>3. g[t] = IF t = {} THEN 0 ELSE f[Pick(t)] + g[t \ {Pick(t)}]
      <4> HIDE DEF UpTo
      <4> QED BY <2>1, <3>2 DEF SolvesSum
    <3>4. h[t] = IF t = {} THEN 0 ELSE f[Pick(t)] + g[t \ {Pick(t)}]
      <4> HIDE DEF UpTo
      <4> QED BY <3>2
    <3> QED
      BY <3>3, <3>4 DEF t
  <2>3. h = [s \in UpTo(n + 1) |-> IF s = {} THEN 0 ELSE f[Pick(s)] + h[s \ {Pick(s)}]]
    <3> DEFINE U == UpTo(n + 1)
    <3>1. \A s \in U : s # {} => h[s \ {Pick(s)}] = g[s \ {Pick(s)}]
      BY <2>2
    <3>2. h = [s \in U |-> IF s = {} THEN 0 ELSE f[Pick(s)] + g[s \ {Pick(s)}]]
      OBVIOUS
    <3> HIDE DEF h, U
    <3>3. h = [s \in U |-> IF s = {} THEN 0 ELSE f[Pick(s)] + h[s \ {Pick(s)}]]
      BY <3>1, <3>2
    <3> QED
      BY <3>3 DEF U
  <2>4. SolvesSum(h, f, UpTo(n + 1))
    <3> HIDE DEF h, UpTo
    <3> QED BY <2>3 DEF SolvesSum
  <2> HIDE DEF h, UpTo
  <2> QED
    BY <2>4
<1>4. Cardinality(D) \in G
  <2> HIDE DEF G
  <2> QED
    BY <1>1, <1>2, <1>3, NaturalsAll
<1>5. UpTo(Cardinality(D)) = SUBSET D
  BY <1>1, FS_Subset
<1> QED
  <2> HIDE DEF UpTo
  <2> QED BY <1>4, <1>5 DEF SumsOver

\* ... and only one.
LEMMA SolutionUnique ==
  ASSUME NEW f, NEW D, NEW E, NEW g, NEW h, IsFiniteSet(D), D \subseteq E,
         SumsOver(g, f, D), SumsOver(h, f, E)
  PROVE  g[D] = h[D]
<1> DEFINE G == {s \in SUBSET D : g[s] = h[s]}
<1>1. ASSUME NEW s \in SUBSET D, \A x \in s : s \ {x} \in G
      PROVE  s \in G
  <2>1. /\ g[s] = IF s = {} THEN 0 ELSE f[Pick(s)] + g[s \ {Pick(s)}]
        /\ h[s] = IF s = {} THEN 0 ELSE f[Pick(s)] + h[s \ {Pick(s)}]
    BY DEF SumsOver, SolvesSum
  <2>2. s # {} => g[s \ {Pick(s)}] = h[s \ {Pick(s)}]
    BY <1>1, PickIn
  <2> QED
    BY <2>1, <2>2
<1>2. D \in G
  <2> HIDE DEF G
  <2> QED BY <1>1, SubsetsAll
<1> QED
  BY <1>2

\* So any solution on the subsets of a larger set gives the sum.
LEMMA SumBySolution ==
  ASSUME NEW f, NEW D, NEW E, NEW g, IsFiniteSet(D), D \subseteq E,
         SumsOver(g, f, E)
  PROVE  SumFunctionOnSet(f, D) = g[D]
<1> DEFINE h == CHOOSE x : SumsOver(x, f, D)
<1>1. SumsOver(h, f, D)
  BY SolutionExists
<1>2. SumFunctionOnSet(f, D) = h[D]
  BY SumIsSolution
<1> HIDE DEF h
<1>3. h[D] = g[D]
  BY <1>1, SolutionUnique
<1> QED
  BY <1>2, <1>3

\* The sum over the empty set, and over a set by the element the fold picks.
LEMMA SumUnfolds ==
  ASSUME NEW f, NEW D, IsFiniteSet(D)
  PROVE  SumFunctionOnSet(f, D) =
           IF D = {} THEN 0 ELSE f[Pick(D)] + SumFunctionOnSet(f, D \ {Pick(D)})
<1> DEFINE R == D \ {Pick(D)}
<1>1. PICK g : SumsOver(g, f, D)
  BY SolutionExists
<1>2. SumFunctionOnSet(f, D) = g[D]
  BY <1>1, SumBySolution
<1>3. SumFunctionOnSet(f, R) = g[R]
  <2>1. IsFiniteSet(R) /\ R \subseteq D
    BY FS_RemoveElement
  <2> HIDE DEF R
  <2> QED
    BY <1>1, <2>1, SumBySolution
<1>4. g[D] = IF D = {} THEN 0 ELSE f[Pick(D)] + g[R]
  BY <1>1 DEF SumsOver, SolvesSum
<1> QED
  BY <1>2, <1>3, <1>4

-----------------------------------------------------------------------------
\* The sum over nothing.
LEMMA SumOfNone == ASSUME NEW f PROVE SumFunctionOnSet(f, {}) = 0
BY FS_EmptySet, SumUnfolds

\* A sum of integers is one, a sum of naturals is one.
LEMMA SumType ==
  ASSUME NEW D, IsFiniteSet(D), NEW f, NEW T \in {Nat, Int}, \A x \in D : f[x] \in T
  PROVE  SumFunctionOnSet(f, D) \in T
<1> DEFINE G == {s \in SUBSET D : SumFunctionOnSet(f, s) \in T}
<1>1. ASSUME NEW s \in SUBSET D, \A x \in s : s \ {x} \in G
      PROVE  s \in G
  <2>1. IsFiniteSet(s)
    BY FS_Subset
  <2>2. SumFunctionOnSet(f, s) =
          IF s = {} THEN 0 ELSE f[Pick(s)] + SumFunctionOnSet(f, s \ {Pick(s)})
    BY <2>1, SumUnfolds
  <2>3. s = {} \/ (Pick(s) \in s /\ s \ {Pick(s)} \in G)
    BY <1>1, PickIn
  <2> QED
    BY <2>2, <2>3
<1>2. D \in G
  <2> HIDE DEF G
  <2> QED BY <1>1, SubsetsAll
<1> QED
  BY <1>2

\* A sum counts every element of the set once.
LEMMA SumTakesOut ==
  ASSUME NEW D, IsFiniteSet(D), NEW f, \A x \in D : f[x] \in Int
  PROVE  \A x \in D : SumFunctionOnSet(f, D) = f[x] + SumFunctionOnSet(f, D \ {x})
<1> DEFINE Sum(s) == SumFunctionOnSet(f, s)
           G == {s \in SUBSET D : \A x \in s : Sum(s) = f[x] + Sum(s \ {x})}
<1>1. \A s \in SUBSET D : Sum(s) \in Int
  BY FS_Subset, SumType
<1>2. ASSUME NEW s \in SUBSET D, \A x \in s : s \ {x} \in G
      PROVE  s \in G
  <2> SUFFICES ASSUME NEW x \in s
      PROVE  Sum(s) = f[x] + Sum(s \ {x})
    OBVIOUS
  <2> DEFINE p == Pick(s)
             t == s \ {x, p}
  <2>1. p \in s /\ Sum(s) = f[p] + Sum(s \ {p})
    BY FS_Subset, SumUnfolds, PickIn
  <2>2. CASE x # p
    <3>1. s \ {p} \in G /\ s \ {x} \in G
      BY <1>2, <2>1
    <3>2. (s \ {p}) \ {x} = t /\ (s \ {x}) \ {p} = t /\ x \in s \ {p} /\ p \in s \ {x}
      BY <2>1, <2>2
    <3> HIDE DEF Sum, p
    <3>3. Sum(s \ {p}) = f[x] + Sum(t) /\ Sum(s \ {x}) = f[p] + Sum(t)
      BY <3>1, <3>2
    <3>4. f[p] \in Int /\ f[x] \in Int /\ Sum(t) \in Int
      BY <1>1, <2>1
    <3> QED
      BY <2>1, <3>3, <3>4
  <2> QED
    BY <2>1, <2>2
<1>3. D \in G
  <2> HIDE DEF G
  <2> QED BY <1>2, SubsetsAll
<1> QED
  BY <1>3

\* A new element adds its value.
LEMMA SumAdds ==
  ASSUME NEW D, IsFiniteSet(D), NEW f, NEW x, x \notin D, \A y \in D \cup {x} : f[y] \in Int
  PROVE  SumFunctionOnSet(f, D \cup {x}) = SumFunctionOnSet(f, D) + f[x]
<1>1. IsFiniteSet(D \cup {x}) /\ (D \cup {x}) \ {x} = D
  BY FS_AddElement
<1>2. SumFunctionOnSet(f, D \cup {x}) = f[x] + SumFunctionOnSet(f, D)
  BY <1>1, SumTakesOut
<1>3. SumFunctionOnSet(f, D) \in Int
  BY SumType
<1> QED
  BY <1>2, <1>3

\* Only the values on the set count.
LEMMA SumAgrees ==
  ASSUME NEW D, IsFiniteSet(D), NEW f, NEW g, \A x \in D : f[x] = g[x]
  PROVE  SumFunctionOnSet(f, D) = SumFunctionOnSet(g, D)
<1> DEFINE G == {s \in SUBSET D : SumFunctionOnSet(f, s) = SumFunctionOnSet(g, s)}
<1>1. ASSUME NEW s \in SUBSET D, \A x \in s : s \ {x} \in G
      PROVE  s \in G
  <2>1. /\ SumFunctionOnSet(f, s) =
             IF s = {} THEN 0 ELSE f[Pick(s)] + SumFunctionOnSet(f, s \ {Pick(s)})
        /\ SumFunctionOnSet(g, s) =
             IF s = {} THEN 0 ELSE g[Pick(s)] + SumFunctionOnSet(g, s \ {Pick(s)})
    BY FS_Subset, SumUnfolds
  <2>2. s = {} \/ (Pick(s) \in s /\ s \ {Pick(s)} \in G)
    BY <1>1, PickIn
  <2> QED
    BY <2>1, <2>2
<1>2. D \in G
  <2> HIDE DEF G
  <2> QED BY <1>1, SubsetsAll
<1> QED
  BY <1>2

\* A sum of sums.
LEMMA SumOfSums ==
  ASSUME NEW D, IsFiniteSet(D), NEW e, NEW f, NEW g,
         \A x \in D : e[x] \in Int /\ f[x] \in Int /\ g[x] = e[x] + f[x]
  PROVE  SumFunctionOnSet(g, D) = SumFunctionOnSet(e, D) + SumFunctionOnSet(f, D)
<1> DEFINE Sum(h, s) == SumFunctionOnSet(h, s)
           G == {s \in SUBSET D : Sum(g, s) = Sum(e, s) + Sum(f, s)}
<1>1. ASSUME NEW s \in SUBSET D, \A x \in s : s \ {x} \in G
      PROVE  s \in G
  <2> DEFINE p == Pick(s)
             r == s \ {p}
  <2>1. IsFiniteSet(s) /\ IsFiniteSet(r)
    BY FS_Subset, FS_RemoveElement
  <2>2. /\ Sum(e, s) = IF s = {} THEN 0 ELSE e[p] + Sum(e, r)
        /\ Sum(f, s) = IF s = {} THEN 0 ELSE f[p] + Sum(f, r)
        /\ Sum(g, s) = IF s = {} THEN 0 ELSE g[p] + Sum(g, r)
    BY <2>1, SumUnfolds
  <2>3. Sum(e, r) \in Int /\ Sum(f, r) \in Int
    <3>1. \A x \in r : e[x] \in Int /\ f[x] \in Int
      OBVIOUS
    <3> HIDE DEF r
    <3> QED
      BY <2>1, <3>1, SumType
  <2>4. CASE s = {}
    BY <2>2, <2>4
  <2>5. CASE s # {}
    <3>1. p \in s /\ r \in G
      BY <1>1, <2>5, PickIn
    <3>2. e[p] \in Int /\ f[p] \in Int /\ g[p] = e[p] + f[p]
      BY <3>1
    <3>3. Sum(g, r) = Sum(e, r) + Sum(f, r)
      BY <3>1
    <3> HIDE DEF Sum, p, r
    <3>4. Sum(g, s) = Sum(e, s) + Sum(f, s)
      BY <2>2, <2>3, <2>5, <3>2, <3>3
    <3> QED
      BY <3>4 DEF Sum
  <2> QED
    BY <2>4, <2>5
<1>2. D \in G
  <2> HIDE DEF G
  <2> QED BY <1>1, SubsetsAll
<1> QED
  BY <1>2

\* What one value gains, the sum gains.
LEMMA SumGains ==
  ASSUME NEW D, IsFiniteSet(D), NEW f, NEW g, NEW x \in D,
         \A y \in D : f[y] \in Int /\ g[y] \in Int,
         \A y \in D \ {x} : f[y] = g[y]
  PROVE  SumFunctionOnSet(g, D) = SumFunctionOnSet(f, D) + (g[x] - f[x])
<1>1. IsFiniteSet(D \ {x})
  BY FS_RemoveElement
<1>2. SumFunctionOnSet(f, D \ {x}) = SumFunctionOnSet(g, D \ {x})
  BY <1>1, SumAgrees
<1>3. SumFunctionOnSet(f, D) = f[x] + SumFunctionOnSet(f, D \ {x})
      /\ SumFunctionOnSet(g, D) = g[x] + SumFunctionOnSet(g, D \ {x})
  BY SumTakesOut
<1>4. SumFunctionOnSet(f, D \ {x}) \in Int
  BY <1>1, SumType
<1> QED
  BY <1>2, <1>3, <1>4

\* A sum of equal values is a product.
LEMMA SumOfEqual ==
  ASSUME NEW D, IsFiniteSet(D), NEW f, NEW n \in Int, \A x \in D : f[x] = n
  PROVE  SumFunctionOnSet(f, D) = n * Cardinality(D)
<1> DEFINE G == {s \in SUBSET D : SumFunctionOnSet(f, s) = n * Cardinality(s)}
<1>1. ASSUME NEW s \in SUBSET D, \A x \in s : s \ {x} \in G
      PROVE  s \in G
  <2>1. IsFiniteSet(s) /\ Cardinality(s) \in Nat
    BY FS_Subset, FS_CardinalityType
  <2>2. CASE s = {}
    <3>1. Cardinality(s) = 0 /\ SumFunctionOnSet(f, s) = 0
      BY <2>2, FS_EmptySet, SumOfNone
    <3> QED
      BY <3>1
  <2>3. CASE s # {}
    <3>1. PICK x \in s : TRUE
      BY <2>3
    <3>2. /\ SumFunctionOnSet(f, s) = f[x] + SumFunctionOnSet(f, s \ {x})
          /\ SumFunctionOnSet(f, s \ {x}) = n * Cardinality(s \ {x})
      BY <1>1, <2>1, SumTakesOut
    <3>3. Cardinality(s \ {x}) = Cardinality(s) - 1
      BY <2>1, FS_RemoveElement
    <3>4. \A k \in Nat : n + n * (k - 1) = n * k
      OBVIOUS
    <3> QED
      BY <2>1, <3>2, <3>3, <3>4
  <2> QED
    BY <2>2, <2>3
<1>2. D \in G
  <2> HIDE DEF G
  <2> QED BY <1>1, SubsetsAll
<1> QED
  BY <1>2

\* The sum over two sets with nothing in common.
LEMMA SumOfUnion ==
  ASSUME NEW A, NEW B, IsFiniteSet(A), IsFiniteSet(B), A \cap B = {},
         NEW f, \A x \in A \cup B : f[x] \in Int
  PROVE  SumFunctionOnSet(f, A \cup B) = SumFunctionOnSet(f, A) + SumFunctionOnSet(f, B)
<1> DEFINE Sum(s) == SumFunctionOnSet(f, s)
           G == {s \in SUBSET B : Sum(A \cup s) = Sum(A) + Sum(s)}
<1>1. ASSUME NEW s \in SUBSET B, \A x \in s : s \ {x} \in G
      PROVE  s \in G
  <2>1. IsFiniteSet(s) /\ Sum(A) \in Int
    BY FS_Subset, SumType
  <2>2. CASE s = {}
    <3>1. A \cup s = A /\ Sum(s) = 0
      BY <2>2, SumOfNone
    <3>2. Sum(A \cup s) = Sum(A)
      BY <3>1, Zenon
    <3> HIDE DEF Sum
    <3> QED
      BY <2>1, <3>1, <3>2
  <2>3. CASE s # {}
    <3>1. PICK x \in s : TRUE
      BY <2>3
    <3> DEFINE r == s \ {x}
    <3>2. /\ IsFiniteSet(r) /\ IsFiniteSet(A \cup r) /\ x \notin r /\ x \notin A \cup r
          /\ s = r \cup {x} /\ A \cup s = (A \cup r) \cup {x}
      BY <2>1, <3>1, FS_Subset, FS_Union
    <3>3. r \in G /\ f[x] \in Int
      BY <1>1, <3>1
    <3>4. Sum(r) \in Int
      BY <3>2, SumType
    <3> HIDE DEF r
    <3>5. Sum(r \cup {x}) = Sum(r) + f[x]
      BY <3>2, SumAdds
    <3>6. Sum((A \cup r) \cup {x}) = Sum(A \cup r) + f[x]
      BY <3>2, SumAdds
    <3>7. Sum(A \cup r) = Sum(A) + Sum(r)
      BY <3>3
    <3>8. Sum(s) = Sum(r) + f[x] /\ Sum(A \cup s) = Sum(A \cup r) + f[x]
      BY <3>2, <3>5, <3>6, Zenon
    <3> HIDE DEF Sum
    <3> QED
      BY <2>1, <3>3, <3>4, <3>7, <3>8
  <2> QED
    BY <2>2, <2>3
<1>2. B \in G
  <2> HIDE DEF G
  <2> QED
    BY <1>1, SubsetsAll
<1> QED
  BY <1>2

\* A larger set has the larger sum of naturals.
LEMMA SumGrows ==
  ASSUME NEW D, IsFiniteSet(D), NEW C \in SUBSET D, NEW f, \A x \in D : f[x] \in Nat
  PROVE  SumFunctionOnSet(f, C) <= SumFunctionOnSet(f, D)
<1> DEFINE R == D \ C
<1>1. IsFiniteSet(C) /\ IsFiniteSet(R) /\ C \cup R = D /\ C \cap R = {}
  BY FS_Subset
<1>2. \A x \in C \cup R : f[x] \in Int /\ f[x] \in Nat
  BY <1>1
<1> HIDE DEF R
<1>3. SumFunctionOnSet(f, C) \in Nat /\ SumFunctionOnSet(f, R) \in Nat
  BY <1>1, <1>2, SumType
<1>4. SumFunctionOnSet(f, D) = SumFunctionOnSet(f, C) + SumFunctionOnSet(f, R)
  BY <1>1, <1>2, SumOfUnion
<1> QED
  BY <1>3, <1>4

\* A sum of values that have all moved up by one place.
LEMMA SumMoves ==
  ASSUME NEW D \in SUBSET Int, IsFiniteSet(D), NEW f, NEW g,
         \A x \in D : f[x] \in Int /\ g[x + 1] = f[x]
  PROVE  SumFunctionOnSet(g, {x + 1 : x \in D}) = SumFunctionOnSet(f, D)
<1> DEFINE Up(s) == {x + 1 : x \in s}
           G == {s \in SUBSET D : /\ IsFiniteSet(Up(s))
                                  /\ SumFunctionOnSet(g, Up(s)) = SumFunctionOnSet(f, s)}
<1>1. ASSUME NEW s \in SUBSET D, \A x \in s : s \ {x} \in G
      PROVE  s \in G
  <2>1. CASE s = {}
    <3>1. Up(s) = {}
      BY <2>1
    <3> QED
      BY <2>1, <3>1, SumOfNone, FS_EmptySet
  <2>2. CASE s # {}
    <3>1. PICK x \in s : TRUE
      BY <2>2
    <3> DEFINE r == s \ {x}
    <3>2. s = r \cup {x}
      BY <3>1
    <3>3. IsFiniteSet(r) /\ x \notin r
      BY FS_Subset
    <3>4. x + 1 \notin Up(r) /\ Up(s) = Up(r) \cup {x + 1}
      BY <3>1
    <3>5. IsFiniteSet(Up(r)) /\ SumFunctionOnSet(g, Up(r)) = SumFunctionOnSet(f, r)
      BY <1>1, <3>1
    <3>6. IsFiniteSet(s) /\ \A y \in s : f[y] \in Int
      BY FS_Subset
    <3>7. SumFunctionOnSet(f, s) = f[x] + SumFunctionOnSet(f, r)
      BY <3>6, SumTakesOut
    <3>8. f[x] \in Int /\ SumFunctionOnSet(f, r) \in Int
      BY <3>6, <3>3, SumType
    <3>9. \A y \in Up(r) \cup {x + 1} : g[y] \in Int
      BY <3>1
    <3>10. g[x + 1] = f[x]
      BY <3>1
    <3> HIDE DEF r, Up
    <3>11. SumFunctionOnSet(g, Up(r) \cup {x + 1}) = SumFunctionOnSet(g, Up(r)) + g[x + 1]
      <4> DEFINE S == Up(r)
                 z == x + 1
      <4>1. IsFiniteSet(S) /\ z \notin S /\ \A y \in S \cup {z} : g[y] \in Int
        BY <3>4, <3>5, <3>9
      <4> HIDE DEF S, z
      <4>2. SumFunctionOnSet(g, S \cup {z}) = SumFunctionOnSet(g, S) + g[z]
        BY <4>1, SumAdds, SMTT(30)
      <4> QED
        BY <4>2 DEF S, z
    <3>12. IsFiniteSet(Up(s))
      BY <3>4, <3>5, FS_AddElement
    <3>13. SumFunctionOnSet(g, Up(s)) = SumFunctionOnSet(g, Up(r)) + g[x + 1]
      BY <3>4, <3>11, Zenon
    <3>14. SumFunctionOnSet(g, Up(s)) = SumFunctionOnSet(f, s)
      BY <3>5, <3>10, <3>7, <3>13, <3>8
    <3> QED
      BY <3>12, <3>14, Zenon
  <2> QED
    BY <2>1, <2>2
<1>2. D \in G
  <2> HIDE DEF G
  <2> QED
    BY <1>1, SubsetsAll
<1> QED
  BY <1>2

-----------------------------------------------------------------------------
(* Places in a list *)

\* Where in a list, after its first n elements, element a is.
Places(s, n, a) == {j \in DOMAIN s : j > n /\ s[j] = a}
\* How often it is there.
Times(s, n, a) == Cardinality(Places(s, n, a))

\* Places are finitely many.
LEMMA TimesType ==
  ASSUME NEW S, NEW s \in Seq(S), NEW n, NEW a
  PROVE  IsFiniteSet(Places(s, n, a)) /\ Times(s, n, a) \in Nat
<1>1. DOMAIN s = 1 .. Len(s) /\ Len(s) \in Nat /\ 1 \in Int
  BY LenProperties
<1>2. IsFiniteSet(1 .. Len(s))
  BY <1>1, FS_Interval
<1>3. Places(s, n, a) \in SUBSET (1 .. Len(s))
  BY <1>1 DEF Places
<1> QED
  BY <1>2, <1>3, FS_Subset, FS_CardinalityType DEF Times

\* A list of nothing has it nowhere.
LEMMA TimesNone == ASSUME NEW n, NEW a PROVE Times(<<>>, n, a) = 0
<1>1. Places(<<>>, n, a) = {}
  BY DEF Places
<1> QED
  BY <1>1, FS_EmptySet DEF Times

\* With all its elements left out no place is left.
LEMMA TimesEnd ==
  ASSUME NEW S, NEW s \in Seq(S), NEW n \in Int, n >= Len(s), NEW a
  PROVE  Times(s, n, a) = 0
<1>1. DOMAIN s = 1 .. Len(s) /\ Len(s) \in Nat
  BY LenProperties
<1>2. Places(s, n, a) = {}
  BY <1>1 DEF Places
<1> QED
  BY <1>2, FS_EmptySet DEF Times

\* An element that comes nowhere.
LEMMA TimesNever ==
  ASSUME NEW s, NEW n, NEW a, \A j \in DOMAIN s : j > n => s[j] # a
  PROVE  Times(s, n, a) = 0
<1>1. Places(s, n, a) = {}
  BY DEF Places
<1> QED
  BY <1>1, FS_EmptySet DEF Times

\* Of more elements left out fewer places are left.
LEMMA TimesFall ==
  ASSUME NEW S, NEW s \in Seq(S), NEW m \in Int, NEW n \in Int, m <= n, NEW a
  PROVE  Times(s, n, a) <= Times(s, m, a)
<1>1. DOMAIN s = 1 .. Len(s) /\ Len(s) \in Nat
  BY LenProperties
<1>2. Places(s, n, a) \in SUBSET Places(s, m, a)
  BY <1>1 DEF Places
<1> QED
  BY <1>2, TimesType, FS_Subset DEF Times

\* Append adds one place.
LEMMA TimesAppend ==
  ASSUME NEW S, NEW s \in Seq(S), NEW e \in S, NEW n \in 0 .. Len(s), NEW a
  PROVE  Times(Append(s, e), n, a) = Times(s, n, a) + (IF e = a THEN 1 ELSE 0)
<1> DEFINE k == Len(s) + 1
           u == Append(s, e)
<1>1. /\ DOMAIN s = 1 .. Len(s) /\ Len(s) \in Nat /\ DOMAIN u = 1 .. k
      /\ u[k] = e /\ \A j \in 1 .. Len(s) : u[j] = s[j]
  BY LenProperties, AppendProperties
<1>2. Places(u, n, a) = IF e = a THEN Places(s, n, a) \cup {k} ELSE Places(s, n, a)
  <2> HIDE DEF u
  <2> QED
    BY <1>1 DEF Places
<1>3. k \notin Places(s, n, a)
  BY <1>1 DEF Places
<1> HIDE DEF k, u
<1>4. Cardinality(Places(s, n, a) \cup {k}) = Cardinality(Places(s, n, a)) + 1
  BY <1>3, TimesType, FS_AddElement
<1>5. CASE e = a
  <2>1. Places(u, n, a) = Places(s, n, a) \cup {k}
    BY <1>2, <1>5
  <2>2. Cardinality(Places(u, n, a)) = Cardinality(Places(s, n, a)) + 1
    BY <1>4, <2>1, Zenon
  <2> QED
    BY <1>5, <2>2 DEF Times, u
<1>6. CASE e # a
  <2>1. Places(u, n, a) = Places(s, n, a)
    BY <1>2, <1>6
  <2>2. Times(u, n, a) = Times(s, n, a)
    BY <2>1, Zenon DEF Times
  <2> QED
    BY <1>6, <2>2, TimesType DEF u
<1> QED
  BY <1>5, <1>6

\* Tail moves the places down.
LEMMA TimesTail ==
  ASSUME NEW S, NEW s \in Seq(S), s # <<>>, NEW n \in Nat, NEW a
  PROVE  Times(Tail(s), n, a) = Times(s, n + 1, a)
<1> DEFINE u == Tail(s)
           f == [j \in Places(u, n, a) |-> j + 1]
<1>1. /\ Len(s) \in Nat \ {0} /\ DOMAIN s = 1 .. Len(s) /\ DOMAIN u = 1 .. Len(s) - 1
      /\ \A j \in 1 .. Len(s) - 1 : u[j] = s[j + 1]
      /\ u \in Seq(S)
  BY EmptySeq, LenProperties, HeadTailProperties
<1> HIDE DEF u
<1>2. /\ \A j \in Places(u, n, a) : j \in Int /\ j + 1 \in Places(s, n + 1, a)
      /\ \A k \in Places(s, n + 1, a) : k \in Int /\ k - 1 \in Places(u, n, a) /\ k = (k - 1) + 1
  BY <1>1 DEF Places
<1>3. f \in Bijection(Places(u, n, a), Places(s, n + 1, a))
  BY <1>2 DEF Bijection, Injection, Surjection, IsInjective
<1>4. IsFiniteSet(Places(u, n, a))
  BY <1>1, TimesType
<1> HIDE DEF f
<1>5. ExistsBijection(Places(u, n, a), Places(s, n + 1, a))
  BY <1>3 DEF ExistsBijection
<1> QED
  BY <1>4, <1>5, FS_Bijection DEF Times, u

\* The first element is one of its places.
LEMMA TimesHead ==
  ASSUME NEW S, NEW s \in Seq(S), s # <<>>, NEW a
  PROVE  Times(s, 0, a) = Times(s, 1, a) + (IF Head(s) = a THEN 1 ELSE 0)
<1>1. Len(s) \in Nat \ {0} /\ DOMAIN s = 1 .. Len(s) /\ Head(s) = s[1]
  BY EmptySeq, LenProperties
<1>2. 1 \notin Places(s, 1, a)
  BY <1>1 DEF Places
<1>3. CASE Head(s) = a
  <2>1. Places(s, 0, a) = Places(s, 1, a) \cup {1}
    BY <1>1, <1>3 DEF Places
  <2>2. Cardinality(Places(s, 1, a) \cup {1}) = Cardinality(Places(s, 1, a)) + 1
    BY <1>2, TimesType, FS_AddElement
  <2>3. Cardinality(Places(s, 0, a)) = Cardinality(Places(s, 1, a)) + 1
    BY <2>1, <2>2, Zenon
  <2> QED
    BY <1>3, <2>3 DEF Times
<1>4. CASE Head(s) # a
  <2>1. Places(s, 0, a) = Places(s, 1, a)
    BY <1>1, <1>4 DEF Places
  <2>2. Times(s, 0, a) = Times(s, 1, a)
    BY <2>1, Zenon DEF Times
  <2> QED
    BY <1>4, <2>2, TimesType
<1> QED
  BY <1>3, <1>4

\* Where a list has one of some elements.
PlacesOf(s, A) == {j \in DOMAIN s : s[j] \in A}

\* A list whose elements are counted by f is as long as the sum of f.
LEMMA TimesSum ==
  ASSUME NEW S, NEW s \in Seq(S), NEW A, IsFiniteSet(A), NEW f, \A a \in A : f[a] \in Nat
  PROVE  LET sum == SumFunctionOnSet(f, A)
             n == Cardinality(PlacesOf(s, A))
         IN  /\ sum \in Nat /\ n \in Nat /\ n <= Len(s)
             /\ (\A j \in DOMAIN s : s[j] \in A) => n = Len(s)
             /\ (\A a \in A : Times(s, 0, a) <= f[a]) => n <= sum
             /\ (\A a \in A : f[a] <= Times(s, 0, a)) => sum <= n
<1> DEFINE Sum(B) == SumFunctionOnSet(f, B)
           N(B) == Cardinality(PlacesOf(s, B))
           G == {B \in SUBSET A :
                  /\ (\A a \in A : Times(s, 0, a) <= f[a]) => N(B) <= Sum(B)
                  /\ (\A a \in A : f[a] <= Times(s, 0, a)) => Sum(B) <= N(B)}
<1>1. DOMAIN s = 1 .. Len(s) /\ Len(s) \in Nat /\ \A j \in 1 .. Len(s) : s[j] \in S
  <2>1. DOMAIN s = 1 .. Len(s) /\ Len(s) \in Nat
    BY LenProperties
  <2>2. ASSUME NEW j \in 1 .. Len(s) PROVE s[j] \in S
    BY ElementOfSeq
  <2> QED
    BY <2>1, <2>2
<1>2. IsFiniteSet(1 .. Len(s)) /\ Cardinality(1 .. Len(s)) = Len(s)
  <2>1. 1 \in Int /\ Len(s) \in Nat
    BY <1>1
  <2> QED
    BY <2>1, FS_Interval, SMTT(30)
<1>3. ASSUME NEW B
      PROVE  IsFiniteSet(PlacesOf(s, B)) /\ N(B) \in Nat /\ N(B) <= Len(s)
  <2>1. PlacesOf(s, B) \in SUBSET (1 .. Len(s))
    BY <1>1 DEF PlacesOf
  <2> QED
    BY <1>2, <2>1, FS_Subset, FS_CardinalityType
<1>4. ASSUME NEW B \in SUBSET A
      PROVE  IsFiniteSet(B) /\ Sum(B) \in Nat
  <2>1. IsFiniteSet(B) /\ \A a \in B : f[a] \in Nat
    BY FS_Subset
  <2> QED
    BY <2>1, SumType
<1>5. ASSUME NEW B \in SUBSET A, \A x \in B : B \ {x} \in G
      PROVE  B \in G
  <2>1. CASE B = {}
    <3>1. PlacesOf(s, B) = {}
      BY <2>1 DEF PlacesOf
    <3>2. N(B) = 0 /\ Sum(B) = 0
      BY <2>1, <3>1, FS_EmptySet, SumOfNone
    <3> QED
      BY <3>2
  <2>2. CASE B # {}
    <3>1. PICK x \in B : TRUE
      BY <2>2
    <3> DEFINE C == B \ {x}
    <3>2. \A a \in B : f[a] \in Int
      BY <1>4
    <3>3. Sum(B) = f[x] + Sum(C)
      BY <1>4, <3>2, SumTakesOut
    <3>4. PlacesOf(s, B) = PlacesOf(s, C) \cup Places(s, 0, x) /\ PlacesOf(s, C) \cap Places(s, 0, x) = {}
      BY <1>1, <3>1 DEF PlacesOf, Places
    <3>5. Cardinality({}) = 0
      BY FS_EmptySet
    <3>6. PlacesOf(s, C) \cap Places(s, 0, x) = {}
      BY <3>4
    <3>7. Cardinality(PlacesOf(s, C) \cap Places(s, 0, x)) = 0
      <4> HIDE DEF C
      <4> QED
        BY <3>6, <3>5, Zenon
    <3>8. Cardinality(PlacesOf(s, C) \cup Places(s, 0, x)) = N(C) + Times(s, 0, x) - 0
      <4>1. IsFiniteSet(PlacesOf(s, C)) /\ IsFiniteSet(Places(s, 0, x))
        BY <1>3, TimesType
      <4> HIDE DEF C
      <4> QED
        BY <3>7, <4>1, FS_Union DEF Times
    <3>9. Cardinality(PlacesOf(s, B)) = N(C) + Times(s, 0, x) - 0
      BY <3>4, <3>8, Zenon
    <3>10. N(C) \in Nat /\ Times(s, 0, x) \in Nat /\ f[x] \in Nat /\ Sum(C) \in Nat /\ C \in SUBSET A
      BY <1>3, <1>4, TimesType
    <3>11. C \in G /\ x \in A
      BY <1>5, <3>1
    <3> HIDE DEF C, Sum
    <3>12. N(B) = N(C) + Times(s, 0, x)
      BY <3>9, <3>10
    <3> QED
      BY <3>3, <3>10, <3>11, <3>12
  <2> QED
    BY <2>1, <2>2
<1>6. A \in G
  <2> HIDE DEF G
  <2> QED
    BY <1>5, SubsetsAll
<1>7. (\A j \in DOMAIN s : s[j] \in A) => N(A) = Len(s)
  <2> SUFFICES ASSUME \A j \in DOMAIN s : s[j] \in A PROVE N(A) = Len(s)
    OBVIOUS
  <2>1. PlacesOf(s, A) = 1 .. Len(s)
    BY <1>1 DEF PlacesOf
  <2> QED
    BY <1>2, <2>1
<1> QED
  BY <1>3, <1>4, <1>6, <1>7

-----------------------------------------------------------------------------
(* Sums over an interval *)

\* A sum over an interval.
Over(f, m, n) == SumFunctionOnSet(f, m .. n)

\* A sum of naturals is one; over no interval it is 0.
LEMMA OverType ==
  ASSUME NEW m \in Int, NEW n \in Int, NEW f, \A x \in m .. n : f[x] \in Nat
  PROVE  Over(f, m, n) \in Nat /\ (n < m => Over(f, m, n) = 0)
<1>1. IsFiniteSet(m .. n)
  BY FS_Interval
<1>2. SumFunctionOnSet(f, m .. n) \in Nat
  BY <1>1, SumType
<1>3. n < m => Over(f, m, n) = 0
  <2> SUFFICES ASSUME n < m PROVE Over(f, m, n) = 0
    OBVIOUS
  <2>1. m .. n = {}
    OBVIOUS
  <2>2. SumFunctionOnSet(f, {}) = 0
    BY SumOfNone
  <2> QED
    BY <2>1, <2>2, Zenon DEF Over
<1> QED
  BY <1>2, <1>3 DEF Over

\* A longer interval has the larger sum.
LEMMA OverGrows ==
  ASSUME NEW k \in Int, NEW l \in Int, NEW m \in Int, NEW n \in Int, m <= k, l <= n,
         NEW f, \A x \in m .. n : f[x] \in Nat
  PROVE  Over(f, k, l) <= Over(f, m, n)
<1>1. IsFiniteSet(m .. n)
  BY FS_Interval
<1>2. k .. l \in SUBSET (m .. n)
  OBVIOUS
<1> QED
  BY <1>1, <1>2, SumGrows DEF Over

\* An interval is two.
LEMMA OverSplits ==
  ASSUME NEW k \in Int, NEW l \in Int, NEW m \in Int, NEW n \in Int,
         l = k + 1, m <= l, k <= n,
         NEW f, \A x \in m .. n : f[x] \in Nat
  PROVE  Over(f, m, n) = Over(f, m, k) + Over(f, l, n)
<1> DEFINE A == m .. k
           B == l .. n
<1>1. IsFiniteSet(A) /\ IsFiniteSet(B)
  BY FS_Interval
<1>2. A \cup B = m .. n /\ A \cap B = {}
  OBVIOUS
<1>3. \A x \in A \cup B : f[x] \in Int
  BY <1>2
<1> HIDE DEF A, B
<1>4. SumFunctionOnSet(f, A \cup B) = SumFunctionOnSet(f, A) + SumFunctionOnSet(f, B)
  BY <1>1, <1>2, <1>3, SumOfUnion
<1>5. SumFunctionOnSet(f, m .. n) = SumFunctionOnSet(f, A) + SumFunctionOnSet(f, B)
  BY <1>2, <1>4, Zenon
<1> QED
  BY <1>5 DEF Over, A, B

\* An interval of one.
LEMMA OverOne ==
  ASSUME NEW m \in Int, NEW f, f[m] \in Nat
  PROVE  Over(f, m, m) = f[m]
<1>1. m .. m = {m} /\ m \in {m} /\ {m} \ {m} = {} /\ \A x \in {m} : f[x] \in Int
  OBVIOUS
<1>2. IsFiniteSet({m})
  BY FS_Singleton
<1>3. SumFunctionOnSet(f, {m}) = f[m] + SumFunctionOnSet(f, {m} \ {m})
  BY <1>1, <1>2, SumTakesOut
<1>4. SumFunctionOnSet(f, {m} \ {m}) = 0
  BY <1>1, SumOfNone, Zenon
<1>5. SumFunctionOnSet(f, m .. m) = SumFunctionOnSet(f, {m})
  BY <1>1, Zenon
<1> QED
  BY <1>3, <1>4, <1>5 DEF Over

\* The sum over an interval whose values have all moved up by one place.
LEMMA OverMoves ==
  ASSUME NEW m \in Int, NEW n \in Int, NEW f, NEW g,
         \A x \in m .. n : f[x] \in Nat /\ g[x + 1] = f[x]
  PROVE  Over(g, m + 1, n + 1) = Over(f, m, n)
<1> DEFINE D == m .. n
<1>1. IsFiniteSet(D) /\ D \in SUBSET Int
  BY FS_Interval
<1>2. {x + 1 : x \in D} = m + 1 .. n + 1
  <2>1. ASSUME NEW y \in m + 1 .. n + 1 PROVE y \in {x + 1 : x \in D}
    <3>1. y - 1 \in D /\ y = (y - 1) + 1
      OBVIOUS
    <3> QED
      BY <3>1
  <2> QED
    BY <2>1
<1>3. \A x \in D : f[x] \in Int /\ g[x + 1] = f[x]
  OBVIOUS
<1> HIDE DEF D
<1>4. SumFunctionOnSet(g, {x + 1 : x \in D}) = SumFunctionOnSet(f, D)
  BY <1>1, <1>3, SumMoves
<1>5. SumFunctionOnSet(g, m + 1 .. n + 1) = SumFunctionOnSet(f, D)
  BY <1>2, <1>4, Zenon
<1> QED
  BY <1>5 DEF Over, D

\* The same for intervals named by their new ends.
LEMMA OverShifts ==
  ASSUME NEW k \in Int, NEW l \in Int, NEW m \in Int, NEW n \in Int,
         k + 1 = m, l + 1 = n, NEW f, NEW g,
         \A x \in k .. l : f[x] \in Nat /\ g[x + 1] = f[x]
  PROVE  Over(g, m, n) = Over(f, k, l)
BY OverMoves

\* What one value gains, the sum of an interval gains that has it.
LEMMA OverGains ==
  ASSUME NEW m \in Int, NEW n \in Int, NEW f, NEW g, NEW e,
         \A x \in m .. n : f[x] \in Nat /\ g[x] = IF x = e THEN f[x] + 1 ELSE f[x]
  PROVE  Over(g, m, n) = IF e \in m .. n THEN Over(f, m, n) + 1 ELSE Over(f, m, n)
<1> DEFINE D == m .. n
<1>1. IsFiniteSet(D)
  BY FS_Interval
<1>2. CASE e \in m .. n
  <2>1. /\ e \in D /\ f[e] \in Int /\ g[e] = f[e] + 1
        /\ \A y \in D : f[y] \in Int /\ g[y] \in Int
        /\ \A y \in D \ {e} : f[y] = g[y]
    BY <1>2
  <2> HIDE DEF D
  <2>2. SumFunctionOnSet(g, D) = SumFunctionOnSet(f, D) + (g[e] - f[e])
    BY <1>1, <2>1, SumGains
  <2>3. SumFunctionOnSet(f, D) \in Int
    BY <1>1, <2>1, SumType
  <2>4. SumFunctionOnSet(g, D) = SumFunctionOnSet(f, D) + 1
    BY <2>1, <2>2, <2>3
  <2> QED
    BY <1>2, <2>4 DEF Over, D
<1>3. CASE e \notin m .. n
  <2>1. \A x \in D : f[x] = g[x]
    BY <1>3
  <2> HIDE DEF D
  <2>2. SumFunctionOnSet(f, D) = SumFunctionOnSet(g, D)
    BY <1>1, <2>1, SumAgrees
  <2> QED
    BY <1>3, <2>2 DEF Over, D
<1> QED
  BY <1>2, <1>3
=============================================================================
