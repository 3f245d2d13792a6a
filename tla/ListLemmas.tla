----------------------------- MODULE ListLemmas -----------------------------
(***************************************************************************)
(* What the operations on the handler list and on the poller do with a     *)
(* sequence that holds nothing twice: removal of the first occurrence, and *)
(* addition at the end.                                                    *)
(***************************************************************************)
EXTENDS Positions, SequencesExt, SequenceTheorems, FiniteSetTheorems,
        WellFoundedInduction, TLAPS

\* A set of positions has a first one.
LEMMA LeastExists ==
  ASSUME NEW n \in Nat, NEW S \in SUBSET (1..n), S # {}
  PROVE  Min(S) \in S /\ \A y \in S : Min(S) <= y
<1> DEFINE Below(i) == {j \in S : j <= i}
<1> DEFINE T == {Below(i) : i \in S}
<1> DEFINE R == StrictSubsetOrdering(Nat)
<1>0. S \subseteq Nat
  <2> SUFFICES ASSUME NEW i \in S PROVE i \in Nat
    BY Zenon
  <2>1. i \in 1..n
    BY Zenon
  <2> QED BY <2>1
<1>1. \A i \in S : Below(i) \in SUBSET Nat /\ Below(i) \in SUBSET (1..n)
  <2> SUFFICES ASSUME NEW i \in S PROVE Below(i) \subseteq S
    BY <1>0, Zenon
  <2> QED BY Zenon
<1>2. \A i \in S : IsFiniteSet(Below(i))
  BY <1>1, FS_Interval, FS_Subset
<1>3. T \subseteq FiniteSubsetsOf(Nat)
  <2> SUFFICES ASSUME NEW i \in S
               PROVE  Below(i) \in FiniteSubsetsOf(Nat)
    OBVIOUS
  <2> HIDE DEF Below
  <2> QED BY <1>1, <1>2 DEF FiniteSubsetsOf
<1>4. T # {}
  OBVIOUS
<1>5. PICK X \in T : \A Y \in T : ~(<<Y, X>> \in R)
  <2> HIDE DEF T
  <2> QED BY <1>3, <1>4, FS_StrictSubsetOrderingWellFounded, WFMin
<1>6. PICK x \in S : X = Below(x)
  BY <1>5
<1>7. ASSUME NEW y \in S, ~(x <= y)
      PROVE  FALSE
  <2>1. x \in Int /\ y \in Int /\ y < x
    BY <1>7
  <2>2. Below(y) \subseteq Below(x)
    <3> SUFFICES ASSUME NEW j \in Below(y) PROVE j \in S /\ j <= x
      BY Zenon
    <3>1. j \in S /\ j <= y
      BY Zenon
    <3>2. j \in Nat
      BY <1>0, <3>1, Zenon
    <3> QED BY <2>1, <3>1, <3>2
  <2>3. x \notin Below(y) /\ x \in Below(x)
    BY <2>1
  <2>4. Below(y) \in T /\ Below(y) \in SUBSET Nat /\ Below(x) \in SUBSET Nat
    BY <1>1
  <2> HIDE DEF Below, T
  <2>5. <<Below(y), Below(x)>> \in R
    BY <2>2, <2>3, <2>4 DEF StrictSubsetOrdering
  <2> QED BY <1>5, <1>6, <2>4, <2>5
<1> QED BY <1>7 DEF Min

\* And a last one, or 0 if 0 is one of them.
LEMMA GreatestExists ==
  ASSUME NEW n \in Nat, NEW S \in SUBSET (0..n), S # {}
  PROVE  Max(S) \in S /\ \A y \in S : Max(S) >= y
<1> DEFINE T == {n + 1 - i : i \in S}
<1>1. T \in SUBSET (1..n + 1) /\ T # {} /\ n + 1 \in Nat
  <2>1. \A i \in S : i \in 0..n
    BY Zenon
  <2>2. \A i \in S : n + 1 - i \in 1..n + 1
    BY <2>1
  <2>3. T \subseteq 1..n + 1
    BY <2>2, Zenon
  <2>4. T # {}
    BY Zenon
  <2>5. n + 1 \in Nat
    OBVIOUS
  <2> QED BY <2>3, <2>4, <2>5, Zenon
<1>2. PICK t \in T : \A u \in T : t <= u
  <2> HIDE DEF T
  <2> QED BY <1>1, LeastExists
<1>3. PICK x \in S : t = n + 1 - x
  BY <1>2
<1>4. ASSUME NEW y \in S
      PROVE  x >= y
  <2>1. n + 1 - y \in T
    OBVIOUS
  <2>2. n + 1 - x <= n + 1 - y
    BY <1>2, <1>3, <2>1
  <2> QED BY <2>2
<1> HIDE DEF T
<1> QED BY <1>3, <1>4 DEF Max

LEMMA LeastOfTwo ==
  ASSUME NEW x \in Int, NEW y \in Int
  PROVE  Min({x, y}) \in {x, y} /\ Min({x, y}) \in Int /\ Min({x, y}) <= x /\ Min({x, y}) <= y
<1>1. \E z \in {x, y} : \A w \in {x, y} : z <= w
  <2>1. x <= y \/ y <= x
    OBVIOUS
  <2>2. CASE x <= y
    BY <2>2
  <2>3. CASE y <= x
    BY <2>3
  <2> QED BY <2>1, <2>2, <2>3
<1>2. Min({x, y}) \in {x, y} /\ \A w \in {x, y} : Min({x, y}) <= w
  BY <1>1, Zenon DEF Min
<1>3. Min({x, y}) = x \/ Min({x, y}) = y
  BY <1>2
<1> QED BY <1>2, <1>3

\* Induction up to n, for what is true of the numbers in a set.
LEMMA UpTo ==
  ASSUME NEW n \in Nat, NEW T, 0 \in T,
         \A m \in 0..n : m # n /\ m \in T => m + 1 \in T
  PROVE  \A m \in 0..n : m \in T
<1> DEFINE F == {m \in 1..n : m \notin T}
<1> SUFFICES ASSUME F # {} PROVE FALSE
  OBVIOUS
<1>1. Min(F) \in F /\ \A y \in F : Min(F) <= y
  <2>1. F \in SUBSET (1..n)
    OBVIOUS
  <2> HIDE DEF F
  <2> QED BY <2>1, LeastExists
<1> DEFINE k == Min(F)
<1>2. k \in 1..n /\ k \notin T
  BY <1>1
<1>3. \A y \in 1..n : y \notin T => k <= y
  BY <1>1
<1> HIDE DEF k
<1>4. k - 1 \in 0..n /\ k - 1 # n /\ (k - 1) + 1 = k
  BY <1>2
<1>5. k - 1 \in T
  <2>1. CASE k = 1
    BY <2>1
  <2>2. CASE k # 1
    <3>1. k - 1 \in 1..n /\ ~(k <= k - 1)
      BY <1>2, <2>2
    <3> QED BY <1>3, <3>1
  <2> QED BY <2>1, <2>2
<1> QED BY <1>2, <1>4, <1>5

-----------------------------------------------------------------------------
\* Each element of T is in s at most once.
Once(s, T) == \A i, j \in DOMAIN s : s[i] = s[j] /\ s[i] \in T => i = j

\* Removal of the first occurrence takes the element out, and nothing else.
LEMMA RemoveFirstOnce ==
  ASSUME NEW S, NEW s \in Seq(S), NEW T, NEW e \in T
  PROVE  /\ RemoveFirst(s, e) \in Seq(S)
         /\ Once(s, T) => /\ Once(RemoveFirst(s, e), T)
                          /\ Range(RemoveFirst(s, e)) = Range(s) \ {e}
<1> DEFINE r == RemoveFirst(s, e)
<1>0. Len(s) \in Nat /\ DOMAIN s = 1..Len(s) /\ \A i \in 1..Len(s) : s[i] \in S
  BY LenProperties, ElementOfSeq
<1>1. CASE \A i \in 1..Len(s) : s[i] # e
  <2>1. r = s
    BY <1>1 DEF RemoveFirst
  <2>2. e \notin Range(s)
    BY <1>0, <1>1 DEF Range
  <2> QED BY <2>1, <2>2
<1>2. CASE \E i \in 1..Len(s) : s[i] = e
  <2> DEFINE P == {i \in 1..Len(s) : s[i] = e}
             k == Min(P)
             n == Len(s)
  <2>1. k \in 1..n /\ s[k] = e
    <3>1. n \in Nat /\ P \in SUBSET (1..n) /\ P # {}
      BY <1>0, <1>2
    <3>2. k \in P
      <4> HIDE DEF P, n
      <4> QED BY <3>1, LeastExists
    <3> QED BY <3>2
  <2>2. r = RemoveAt(s, k)
    <3>1. r = RemoveAt(s, SelectInSeq(s, LAMBDA v : v = e))
      BY <1>2 DEF RemoveFirst
    <3>2. SelectInSeq(s, LAMBDA v : v = e) = k
      BY <1>2 DEF SelectInSeq
    <3> QED BY <3>1, <3>2
  <2> HIDE DEF k
  <2>3. r = SubSeq(s, 1, k - 1) \o SubSeq(s, k + 1, n)
    BY <2>2 DEF RemoveAt
  <2> HIDE DEF r
  <2>4. /\ SubSeq(s, 1, k - 1) \in Seq(S)
        /\ Len(SubSeq(s, 1, k - 1)) = k - 1
        /\ \A i \in 1..k - 1 : SubSeq(s, 1, k - 1)[i] = s[i]
    <3>1. \A i \in 1..(k - 1) : s[i] \in S
      BY <1>0, <2>1
    <3>2. k - 1 \in Int /\ k \in Nat /\ k >= 1
      BY <1>0, <2>1
    <3> HIDE DEF n
    <3>3. /\ SubSeq(s, 1, k - 1) \in Seq(S)
          /\ Len(SubSeq(s, 1, k - 1)) = IF 1 <= k - 1 THEN (k - 1) - 1 + 1 ELSE 0
          /\ \A i \in 1..((k - 1) - 1 + 1) : SubSeq(s, 1, k - 1)[i] = s[1 + i - 1]
      BY <3>1, <3>2, SubSeqProperties
    <3> QED BY <3>2, <3>3
  <2>5. /\ SubSeq(s, k + 1, n) \in Seq(S)
        /\ Len(SubSeq(s, k + 1, n)) = n - k
        /\ \A i \in 1..n - k : SubSeq(s, k + 1, n)[i] = s[k + i]
    <3>1. \A i \in (k + 1)..n : s[i] \in S
      BY <1>0, <2>1
    <3>2. k + 1 \in Int /\ n \in Int /\ k \in Nat /\ k <= n
      BY <1>0, <2>1
    <3> HIDE DEF n
    <3>3. /\ SubSeq(s, k + 1, n) \in Seq(S)
          /\ Len(SubSeq(s, k + 1, n)) = IF k + 1 <= n THEN n - (k + 1) + 1 ELSE 0
          /\ \A i \in 1..(n - (k + 1) + 1) : SubSeq(s, k + 1, n)[i] = s[k + 1 + i - 1]
      BY <3>1, <3>2, SubSeqProperties
    <3>4. Len(SubSeq(s, k + 1, n)) = n - k
      BY <3>2, <3>3
    <3>5. ASSUME NEW i \in 1..n - k
          PROVE  SubSeq(s, k + 1, n)[i] = s[k + i]
      <4>1. k + 1 + i - 1 = k + i /\ i \in 1..(n - (k + 1) + 1)
        BY <3>2
      <4> QED BY <3>3, <4>1
    <3> QED BY <3>3, <3>4, <3>5
  <2>6. /\ r \in Seq(S)
        /\ Len(r) = n - 1
        /\ \A i \in 1..n - 1 : r[i] = IF i < k THEN s[i] ELSE s[i + 1]
    <3> DEFINE a == SubSeq(s, 1, k - 1)
               b == SubSeq(s, k + 1, n)
    <3> HIDE DEF a, b
    <3>1. /\ a \o b \in Seq(S)
          /\ Len(a \o b) = Len(a) + Len(b)
          /\ \A i \in 1..Len(a) + Len(b) :
               (a \o b)[i] = IF i <= Len(a) THEN a[i] ELSE b[i - Len(a)]
      BY <2>4, <2>5, ConcatProperties DEF a, b
    <3>2. r = a \o b /\ Len(a) = k - 1 /\ Len(b) = n - k /\ k \in 1..n /\ n \in Nat
      BY <1>0, <2>1, <2>3, <2>4, <2>5, Zenon DEF a, b
    <3>3. ASSUME NEW i \in 1..n - 1
          PROVE  r[i] = IF i < k THEN s[i] ELSE s[i + 1]
      <4>1. i \in Int /\ 1 <= i /\ i <= n - 1 /\ i \in 1..Len(a) + Len(b)
        BY <3>2
      <4>2. r[i] = IF i <= Len(a) THEN a[i] ELSE b[i - Len(a)]
        BY <3>1, <3>2, <4>1
      <4>3. CASE i < k
        <5>1. i <= Len(a) /\ i \in 1..k - 1
          BY <3>2, <4>1, <4>3
        <5> QED BY <2>4, <4>2, <4>3, <5>1 DEF a
      <4>4. CASE ~(i < k)
        <5>1. ~(i <= Len(a)) /\ i - Len(a) \in 1..n - k /\ k + (i - Len(a)) = i + 1
          BY <3>2, <4>1, <4>4
        <5> QED BY <2>5, <4>2, <4>4, <5>1 DEF b
      <4> QED BY <4>3, <4>4
    <3>4. Len(a) + Len(b) = n - 1
      BY <3>2
    <3> QED BY <3>1, <3>2, <3>3, <3>4, Zenon
  <2>7. DOMAIN r = 1..n - 1
    BY <2>6, LenProperties
  <2>8. ASSUME Once(s, T)
        PROVE  Once(r, T)
    <3> SUFFICES ASSUME NEW i \in 1..n - 1, NEW j \in 1..n - 1, r[i] = r[j], r[i] \in T
                 PROVE  i = j
      BY <2>7 DEF Once
    <3> DEFINE At(m) == IF m < k THEN m ELSE m + 1
    <3>1. At(i) \in 1..n /\ At(j) \in 1..n /\ (At(i) = At(j) => i = j)
      BY <1>0, <2>1
    <3>2. s[At(i)] = s[At(j)] /\ s[At(i)] \in T
      BY <2>6
    <3>3. At(i) = At(j)
      <4> HIDE DEF At
      <4> QED BY <1>0, <2>8, <3>1, <3>2 DEF Once
    <3> QED BY <3>1, <3>3
  <2>9. ASSUME Once(s, T), NEW i \in 1..n - 1
        PROVE  r[i] \in Range(s) \ {e}
    <3> DEFINE m == IF i < k THEN i ELSE i + 1
    <3>1. m \in 1..n /\ m # k
      BY <1>0, <2>1
    <3>2. r[i] = s[m]
      BY <2>6
    <3> HIDE DEF m
    <3>3. s[m] # e
      BY <1>0, <2>1, <2>9, <3>1 DEF Once
    <3> QED BY <1>0, <3>1, <3>2, <3>3 DEF Range
  <2>10. ASSUME NEW m \in 1..n, s[m] # e
         PROVE  \E i \in 1..n - 1 : r[i] = s[m]
    <3> DEFINE i == IF m < k THEN m ELSE m - 1
    <3>1. m # k
      BY <2>1, <2>10
    <3>2. i \in 1..n - 1 /\ (IF i < k THEN i ELSE i + 1) = m
      BY <1>0, <2>1, <3>1
    <3>3. r[i] = s[m]
      BY <2>6, <3>2
    <3> QED BY <3>2, <3>3
  <2>11. ASSUME Once(s, T)
         PROVE  Range(r) = Range(s) \ {e}
    <3>1. \A x \in Range(r) : x \in Range(s) \ {e}
      BY <2>7, <2>9, <2>11 DEF Range
    <3>2. \A x \in Range(s) \ {e} : x \in Range(r)
      BY <1>0, <2>7, <2>10 DEF Range
    <3> QED BY <3>1, <3>2
  <2> QED BY <2>6, <2>8, <2>11 DEF r
<1> QED BY <1>1, <1>2

\* So it is of a sequence that holds nothing twice (utlist's DL_DELETE of a
\* handler, zmq_poller_remove of a socket).
LEMMA RemoveFirstProperties ==
  ASSUME NEW S, NEW s \in Seq(S), NEW e, IsInjective(s)
  PROVE  /\ RemoveFirst(s, e) \in Seq(S)
         /\ IsInjective(RemoveFirst(s, e))
         /\ Range(RemoveFirst(s, e)) = Range(s) \ {e}
<1> DEFINE T == S \union {e}
           r == RemoveFirst(s, e)
<1>1. Once(s, T)
  BY DEF Once, IsInjective
<1>2. r \in Seq(S) /\ Once(r, T) /\ Range(r) = Range(s) \ {e}
  BY <1>1, RemoveFirstOnce
<1> HIDE DEF r
<1>3. DOMAIN r = 1..Len(r) /\ \A i \in 1..Len(r) : r[i] \in T
  BY <1>2, LenProperties, ElementOfSeq
<1>4. IsInjective(r)
  BY <1>2, <1>3 DEF Once, IsInjective
<1> QED BY <1>2, <1>4 DEF r

\* What is first in a queue, and what is after it.
LEMMA TailOnce ==
  ASSUME NEW S, NEW s \in Seq(S), s # <<>>, NEW T
  PROVE  /\ Head(s) \in S /\ Tail(s) \in Seq(S)
         /\ Range(s) = {Head(s)} \union Range(Tail(s))
         /\ Once(s, T) => Once(Tail(s), T) /\ (Head(s) \in T => Head(s) \notin Range(Tail(s)))
<1> DEFINE h == Head(s)
           t == Tail(s)
           n == Len(s)
<1>1. /\ h \in S /\ t \in Seq(S) /\ Len(t) = n - 1 /\ h = s[1]
      /\ \A i \in 1..Len(t) : t[i] = s[i + 1]
  BY HeadTailProperties
<1>2. n \in Nat /\ n # 0 /\ DOMAIN s = 1..n /\ DOMAIN t = 1..n - 1
  BY <1>1, LenProperties, EmptySeq
<1> HIDE DEF h, t, n
<1>3. \A i \in 1..n - 1 : i + 1 \in 1..n /\ t[i] = s[i + 1] /\ i + 1 # 1
  BY <1>1, <1>2, LenProperties
<1>4. Range(s) = {h} \union Range(t)
  <2>1. ASSUME NEW k \in 1..n
        PROVE  s[k] \in {h} \union Range(t)
    <3>1. CASE k = 1
      BY <1>1, <3>1
    <3>2. CASE k # 1
      <4>1. k - 1 \in 1..n - 1 /\ (k - 1) + 1 = k
        BY <1>2, <3>2
      <4>2. t[k - 1] = s[k]
        BY <1>3, <4>1
      <4> QED BY <1>2, <4>1, <4>2 DEF Range
    <3> QED BY <3>1, <3>2
  <2>2. \A i \in 1..n - 1 : t[i] \in Range(s)
    BY <1>2, <1>3 DEF Range
  <2>3. 1 \in 1..n
    BY <1>2
  <2>4. h \in Range(s)
    BY <1>1, <1>2, <2>3 DEF Range
  <2>5. \A x \in Range(s) : x \in {h} \union Range(t)
    BY <1>2, <2>1 DEF Range
  <2>6. \A x \in Range(t) : x \in Range(s)
    BY <1>2, <2>2 DEF Range
  <2> QED BY <2>4, <2>5, <2>6
<1>5. ASSUME Once(s, T)
      PROVE  Once(t, T) /\ (h \in T => h \notin Range(t))
  <2>1. Once(t, T)
    <3> SUFFICES ASSUME NEW i \in 1..n - 1, NEW j \in 1..n - 1, t[i] = t[j], t[i] \in T
                 PROVE  i = j
      BY <1>2 DEF Once
    <3>1. /\ i + 1 \in 1..n /\ j + 1 \in 1..n
          /\ s[i + 1] = s[j + 1] /\ s[i + 1] \in T
      BY <1>3
    <3>2. i + 1 = j + 1
      BY <1>2, <1>5, <3>1 DEF Once
    <3> QED BY <1>2, <3>2
  <2>2. ASSUME h \in T, NEW i \in 1..n - 1, t[i] = h
        PROVE  FALSE
    <3>1. i + 1 \in 1..n /\ s[i + 1] = s[1] /\ i + 1 # 1 /\ 1 \in 1..n
      BY <1>1, <1>2, <1>3, <2>2
    <3> QED BY <1>1, <1>2, <1>5, <2>2, <3>1 DEF Once
  <2> QED BY <1>2, <2>1, <2>2 DEF Range
<1> QED BY <1>1, <1>4, <1>5 DEF h, t

\* What a sequence holds is finite.
LEMMA RangeFinite ==
  ASSUME NEW S, NEW s \in Seq(S)
  PROVE  IsFiniteSet(Range(s))
<1>1. Len(s) \in Nat /\ DOMAIN s = 1..Len(s) /\ s \in [1..Len(s) -> S]
  BY LenProperties
<1>2. IsFiniteSet(1..Len(s))
  BY <1>1, FS_Interval
<1>3. s \in Surjection(1..Len(s), Range(s))
  BY <1>1 DEF Range, Surjection
<1> QED BY <1>2, <1>3, FS_Surjection

\* Addition at the end (DL_APPEND, zmq_poller_add) of what is not there yet.
LEMMA AppendAddsOne ==
  ASSUME NEW S, NEW s \in Seq(S), NEW e \in S
  PROVE  /\ Append(s, e) \in Seq(S)
         /\ Range(Append(s, e)) = Range(s) \union {e}
         /\ IsInjective(s) /\ e \notin Range(s) => IsInjective(Append(s, e))
         /\ \A T : Once(s, T) /\ e \notin Range(s) => Once(Append(s, e), T)
<1> DEFINE r == Append(s, e)
           n == Len(s)
<1>1. /\ n \in Nat /\ DOMAIN s = 1..n
      /\ r \in Seq(S) /\ Len(r) = n + 1
      /\ \A i \in 1..n : r[i] = s[i]
      /\ r[n + 1] = e
  BY LenProperties, AppendProperties
<1>2. DOMAIN r = 1..n + 1
  BY <1>1, LenProperties
<1> HIDE DEF r, n
<1>3. Range(r) = Range(s) \union {e}
  <2>1. \A x \in Range(r) : x \in Range(s) \union {e}
    <3> SUFFICES ASSUME NEW i \in 1..n + 1
                 PROVE  r[i] \in Range(s) \union {e}
      BY <1>2 DEF Range
    <3>1. i \in 1..n \/ i = n + 1
      BY <1>1
    <3> QED BY <1>1, <3>1 DEF Range
  <2>2. \A i \in 1..n : r[i] \in Range(r)
    BY <1>1, <1>2 DEF Range
  <2>3. e \in Range(r)
    <3>1. n + 1 \in 1..n + 1
      BY <1>1
    <3> QED BY <1>1, <1>2, <3>1 DEF Range
  <2>4. \A x \in Range(s) : x \in Range(r)
    BY <1>1, <2>2 DEF Range
  <2> QED BY <2>1, <2>3, <2>4
<1>4. ASSUME IsInjective(s), e \notin Range(s)
      PROVE  IsInjective(r)
  <2> SUFFICES ASSUME NEW i \in 1..n + 1, NEW j \in 1..n + 1, r[i] = r[j]
               PROVE  i = j
    BY <1>2 DEF IsInjective
  <2>1. \A m \in 1..n : r[m] # e /\ r[m] = s[m]
    BY <1>1, <1>4 DEF Range
  <2>2. (i \in 1..n \/ i = n + 1) /\ (j \in 1..n \/ j = n + 1)
    BY <1>1
  <2>3. CASE i \in 1..n /\ j \in 1..n
    <3>1. s[i] = s[j]
      BY <2>1, <2>3
    <3> QED BY <1>1, <1>4, <2>3, <3>1 DEF IsInjective
  <2> QED BY <1>1, <2>1, <2>2, <2>3
<1>5. ASSUME NEW T, Once(s, T), e \notin Range(s)
      PROVE  Once(r, T)
  <2> SUFFICES ASSUME NEW i \in 1..n + 1, NEW j \in 1..n + 1, r[i] = r[j], r[i] \in T
               PROVE  i = j
    BY <1>2 DEF Once
  <2>1. \A m \in 1..n : r[m] # e /\ r[m] = s[m]
    BY <1>1, <1>5 DEF Range
  <2>2. (i \in 1..n \/ i = n + 1) /\ (j \in 1..n \/ j = n + 1)
    BY <1>1
  <2>3. CASE i \in 1..n /\ j \in 1..n
    <3>1. s[i] = s[j] /\ s[i] \in T
      BY <2>1, <2>3
    <3> QED BY <1>1, <1>5, <2>3, <3>1 DEF Once
  <2> QED BY <1>1, <2>1, <2>2, <2>3
<1> QED BY <1>1, <1>3, <1>4, <1>5 DEF r

-----------------------------------------------------------------------------
\* The positions can be enumerated in the order of the sequence.
LEMMA AscendingExists ==
  ASSUME NEW n \in Nat, NEW S \in SUBSET (1..n)
  PROVE  /\ IsFiniteSet(S) /\ Cardinality(S) \in Nat
         /\ \E s \in [1..Cardinality(S) -> S] : Increasing(s)
<1> DEFINE Enumerates(s, A) == s \in [1..Cardinality(A) -> A] /\ Increasing(s)
           T == {m \in 0..n : \A A \in SUBSET (1..m) : \E s : Enumerates(s, A)}
<1>1. \A A \in SUBSET (1..n) : IsFiniteSet(A) /\ Cardinality(A) \in Nat
  <2> SUFFICES ASSUME NEW A \in SUBSET (1..n)
               PROVE  IsFiniteSet(A) /\ Cardinality(A) \in Nat
    OBVIOUS
  <2>1. IsFiniteSet(1..n)
    BY FS_Interval
  <2>2. IsFiniteSet(A)
    BY <2>1, FS_Subset
  <2> QED BY <2>2, FS_CardinalityType
<1>2. 0 \in T
  <2> SUFFICES ASSUME NEW A \in SUBSET (1..0) PROVE \E s : Enumerates(s, A)
    OBVIOUS
  <2>1. A = {}
    OBVIOUS
  <2>2. Cardinality(A) = 0
    BY <2>1, FS_EmptySet
  <2> DEFINE s == [i \in 1..0 |-> 0]
  <2>3. DOMAIN s = {} /\ s \in [1..0 -> A]
    OBVIOUS
  <2>4. Enumerates(s, A)
    BY <2>2, <2>3 DEF Increasing
  <2> QED BY <2>4
<1>3. ASSUME NEW m \in 0..n, m # n, m \in T
      PROVE  m + 1 \in T
  <2>0. m + 1 \in 0..n /\ \A A \in SUBSET (1..m) : \E s : Enumerates(s, A)
    BY <1>3
  <2> SUFFICES ASSUME NEW A \in SUBSET (1..m + 1) PROVE \E s : Enumerates(s, A)
    BY <2>0
  <2> HIDE DEF T
  <2>1. m \in Nat /\ A \subseteq 1..n
    BY <1>3
  <2>2. CASE m + 1 \notin A
    <3>1. A \in SUBSET (1..m)
      BY <2>1, <2>2
    <3> QED BY <2>0, <3>1
  <2>3. CASE m + 1 \in A
    <3> DEFINE B == A \ {m + 1}
    <3>1. B \in SUBSET (1..m)
      BY <2>1
    <3>2. PICK t : Enumerates(t, B)
      BY <2>0, <3>1
    <3>3. IsFiniteSet(A) /\ Cardinality(A) \in Nat /\ Cardinality(B) = Cardinality(A) - 1
          /\ Cardinality(B) \in Nat
      <4>1. IsFiniteSet(A) /\ IsFiniteSet(B) /\ Cardinality(A) \in Nat /\ Cardinality(B) \in Nat
        BY <1>1, <2>1
      <4> QED BY <2>3, <4>1, FS_RemoveElement
    <3> DEFINE k == Cardinality(A)
               s == [i \in 1..k |-> IF i = k THEN m + 1 ELSE t[i]]
    <3>4. \A i \in 1..k : i # k => t[i] \in B
      <4>1. \A i \in 1..k : i # k => i \in 1..Cardinality(B)
        BY <3>3
      <4> HIDE DEF B
      <4> QED BY <3>2, <4>1
    <3>5. s \in [1..k -> A]
      BY <2>3, <3>4
    <3>6. ASSUME NEW i \in 1..k, NEW j \in 1..k, i < j
          PROVE  s[i] < s[j]
      <4>1. i # k /\ i \in 1..Cardinality(B)
        BY <3>3, <3>6
      <4>2. s[i] = t[i] /\ t[i] \in 1..m
        BY <3>1, <3>4, <4>1
      <4>3. CASE j = k
        BY <4>2, <4>3
      <4>4. CASE j # k
        <5>1. j \in 1..Cardinality(B) /\ s[j] = t[j]
          BY <3>3, <4>4
        <5>2. t[i] < t[j]
          <6> HIDE DEF B
          <6> QED BY <3>2, <3>6, <4>1, <5>1 DEF Increasing
        <5> QED BY <4>2, <5>1, <5>2
      <4> QED BY <4>3, <4>4
    <3>7. Increasing(s)
      BY <3>6 DEF Increasing
    <3> QED BY <3>5, <3>7
  <2> QED BY <2>2, <2>3
<1>4. \A m \in 0..n : m \in T
  <2> HIDE DEF T
  <2> QED BY <1>2, <1>3, UpTo
<1>5. n \in T
  <2> HIDE DEF T
  <2> QED BY <1>4
<1> QED BY <1>1, <1>5

\* Ascending enumerates every position, each once.
LEMMA AscendingProperties ==
  ASSUME NEW n \in Nat, NEW S \in SUBSET (1..n)
  PROVE  /\ Ascending(S) \in Seq(S)
         /\ Ascending(S) \in Seq(1..n)
         /\ Len(Ascending(S)) = Cardinality(S)
         /\ Increasing(Ascending(S))
         /\ Range(Ascending(S)) = S
<1> DEFINE s == Ascending(S)
           k == Cardinality(S)
<1>1. IsFiniteSet(S) /\ k \in Nat
  BY AscendingExists
<1>2. s \in [1..k -> S] /\ Increasing(s)
  BY AscendingExists DEF Ascending
<1> HIDE DEF s
<1>3. s \in Seq(S) /\ Len(s) = k
  BY <1>1, <1>2, SeqDef, LenProperties
<1>4. s \in Seq(1..n)
  BY <1>3, SeqMonotonic
<1>5. s \in Injection(1..k, S)
  <2>1. ASSUME NEW i \in 1..k, NEW j \in 1..k, s[i] = s[j]
        PROVE  i = j
    <3>1. s[i] \in 1..n /\ s[j] \in 1..n
      <4>1. s[i] \in S /\ s[j] \in S
        BY <1>2
      <4> QED BY <4>1
    <3>2. i < j => s[i] < s[j]
      BY <1>2 DEF Increasing
    <3>3. j < i => s[j] < s[i]
      BY <1>2 DEF Increasing
    <3> QED BY <2>1, <3>1, <3>2, <3>3
  <2> QED BY <1>2, <2>1 DEF Injection, IsInjective
<1>6. IsFiniteSet(1..k) /\ Cardinality(1..k) = k
  BY <1>1, FS_Interval
<1>7. s \in Surjection(1..k, S)
  BY <1>1, <1>5, <1>6, FS_Injection
<1>8. Range(s) = S
  BY <1>2, <1>7 DEF Range, Surjection
<1> QED BY <1>2, <1>3, <1>4, <1>8 DEF s

\* Two ascending enumerations of the same positions are the same.
LEMMA AscendingUnique ==
  ASSUME NEW s \in Seq(Int), NEW t \in Seq(Int),
         Increasing(s), Increasing(t), Range(s) = Range(t)
  PROVE  s = t
<1>1. /\ Len(s) \in Nat /\ DOMAIN s = 1..Len(s) /\ \A i \in 1..Len(s) : s[i] \in Int
      /\ Len(t) \in Nat /\ DOMAIN t = 1..Len(t) /\ \A i \in 1..Len(t) : t[i] \in Int
  BY LenProperties, ElementOfSeq
<1>2. ASSUME NEW a \in Seq(Int), NEW b \in Seq(Int), Increasing(a), Increasing(b),
             Range(a) = Range(b), NEW m \in Nat,
             m + 1 \in 1..Len(a), \A i \in 1..m : i \in 1..Len(b) => a[i] = b[i]
      PROVE  m + 1 \in 1..Len(b) /\ ~(a[m + 1] < b[m + 1])
  <2>1. /\ Len(a) \in Nat /\ DOMAIN a = 1..Len(a) /\ \A i \in 1..Len(a) : a[i] \in Int
        /\ Len(b) \in Nat /\ DOMAIN b = 1..Len(b) /\ \A i \in 1..Len(b) : b[i] \in Int
    BY LenProperties, ElementOfSeq
  <2>2. PICK j \in 1..Len(b) : b[j] = a[m + 1]
    BY <1>2, <2>1 DEF Range
  <2>3. ~(j <= m)
    <3> SUFFICES ASSUME j <= m PROVE FALSE
      OBVIOUS
    <3>1. j \in 1..m /\ j \in 1..Len(a) /\ j < m + 1
      BY <1>2, <2>1
    <3>2. a[j] = a[m + 1] /\ a[j] < a[m + 1]
      BY <1>2, <2>1, <2>2, <3>1 DEF Increasing
    <3> QED BY <2>1, <3>1, <3>2
  <2>4. m + 1 \in 1..Len(b)
    BY <2>1, <2>2, <2>3
  <2>5. j = m + 1 \/ m + 1 < j
    BY <2>1, <2>2, <2>3
  <2>6. b[j] = b[m + 1] \/ b[m + 1] < b[j]
    BY <1>2, <2>1, <2>4, <2>5 DEF Increasing
  <2>7. a[m + 1] \in Int /\ b[m + 1] \in Int /\ b[j] \in Int
    BY <1>2, <2>1, <2>4
  <2> QED BY <2>2, <2>4, <2>6, <2>7
<1> DEFINE T == {m \in 0..Len(s) : /\ m <= Len(t)
                                   /\ \A i \in 1..m : s[i] = t[i]}
<1>3. \A m \in 0..Len(s) : m \in T
  <2>1. 0 \in T
    BY <1>1
  <2>2. ASSUME NEW m \in 0..Len(s), m # Len(s), m \in T
        PROVE  m + 1 \in T
    <3>1. m \in Nat /\ m + 1 \in 1..Len(s) /\ m <= Len(t) /\ \A i \in 1..m : s[i] = t[i]
      <4>1. m \in Nat /\ m + 1 \in 1..Len(s)
        <5>1. Len(s) \in Nat
          BY <1>1
        <5> HIDE DEF T
        <5> QED BY <2>2, <5>1
      <4> QED BY <4>1, <2>2
    <3>2. m + 1 \in 1..Len(t) /\ ~(s[m + 1] < t[m + 1])
      BY <1>2, <3>1
    <3>3. ~(t[m + 1] < s[m + 1])
      <4>1. \A i \in 1..m : i \in 1..Len(s) => t[i] = s[i]
        BY <3>1
      <4> QED BY <1>2, <3>1, <3>2, <4>1
    <3>4. s[m + 1] = t[m + 1]
      BY <1>1, <3>1, <3>2, <3>3
    <3>5. \A i \in 1..m + 1 : i \in 1..m \/ i = m + 1
      BY <3>1
    <3> QED BY <1>1, <3>1, <3>2, <3>4, <3>5
  <2> HIDE DEF T
  <2> QED BY <1>1, <2>1, <2>2, UpTo
<1>4. Len(s) <= Len(t) /\ \A i \in 1..Len(s) : s[i] = t[i]
  <2>1. Len(s) \in T
    <3> HIDE DEF T
    <3> QED BY <1>1, <1>3
  <2> QED BY <2>1
<1>5. Len(s) = Len(t)
  <2> SUFFICES ASSUME Len(s) # Len(t) PROVE FALSE
    OBVIOUS
  <2> HIDE DEF T
  <2>0. Len(s) \in Nat /\ Len(t) \in Nat
    BY <1>1
  <2>1. Len(s) + 1 \in 1..Len(t)
    BY <1>4, <2>0
  <2>2. \A i \in 1..Len(s) : i \in 1..Len(s) => t[i] = s[i]
    BY <1>4
  <2>3. Len(s) + 1 \in 1..Len(s)
    BY <1>1, <1>2, <2>1, <2>2
  <2> QED BY <2>0, <2>3
<1> QED BY <1>4, <1>5, SeqEqual

\* What enumerates the positions in ascending order is Ascending.
LEMMA AscendingIs ==
  ASSUME NEW n \in Nat, NEW S \in SUBSET (1..n),
         NEW s \in Seq(Int), Increasing(s), Range(s) = S
  PROVE  Ascending(S) = s
<1>1. Ascending(S) \in Seq(1..n) /\ 1..n \subseteq Int
  BY AscendingProperties
<1>2. Ascending(S) \in Seq(Int)
  BY <1>1, SeqMonotonic
<1> QED BY <1>2, AscendingProperties, AscendingUnique
=============================================================================
