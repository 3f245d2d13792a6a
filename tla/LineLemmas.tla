------------------------------ MODULE LineLemmas ------------------------------
(***************************************************************************)
(* The lines of a text, the commands among them, and the fields of a       *)
(* command (bsr_startupcmd.c, bsr_str.c): what they are in a part of a     *)
(* text, when they are known in the whole.                                 *)
(***************************************************************************)
EXTENDS StartupCmd, ListLemmas

(***************************************************************************)
(* Parts of a text.                                                        *)
(***************************************************************************)

\* A part of a text, byte by byte.
LEMMA CutProperties ==
  ASSUME NEW b \in Seq(Byte), NEW i \in 0..Len(b), NEW j \in Int, j <= Len(b)
  PROVE  /\ SubSeq(b, i + 1, j) \in Seq(Byte)
         /\ Len(SubSeq(b, i + 1, j)) = IF i <= j THEN j - i ELSE 0
         /\ \A k \in 1..j - i : SubSeq(b, i + 1, j)[k] = b[i + k]
<1>1. Len(b) \in Nat /\ \A k \in 1..Len(b) : b[k] \in Byte
  BY LenProperties, ElementOfSeq
<1>2. i \in Int /\ i >= 0 /\ i + 1 \in Int
  BY <1>1
<1>3. \A k \in (i + 1)..j : b[k] \in Byte
  BY <1>1, <1>2
<1>4. /\ SubSeq(b, i + 1, j) \in Seq(Byte)
      /\ Len(SubSeq(b, i + 1, j)) = IF i + 1 <= j THEN j - (i + 1) + 1 ELSE 0
      /\ \A k \in 1..j - (i + 1) + 1 : SubSeq(b, i + 1, j)[k] = b[i + 1 + k - 1]
  BY <1>2, <1>3, SubSeqProperties
<1>5. Len(SubSeq(b, i + 1, j)) = IF i <= j THEN j - i ELSE 0
  BY <1>2, <1>4
<1>6. ASSUME NEW k \in 1..j - i
      PROVE  SubSeq(b, i + 1, j)[k] = b[i + k]
  <2>1. k \in 1..j - (i + 1) + 1 /\ i + 1 + k - 1 = i + k
    BY <1>2
  <2> QED BY <1>4, <2>1
<1> QED BY <1>4, <1>5, <1>6

\* A part of a part is a part.
LEMMA CutOfCut ==
  ASSUME NEW b \in Seq(Byte), NEW i \in 0..Len(b), NEW j \in i..Len(b),
         NEW m \in 0..j - i, NEW n \in Int, n <= j - i
  PROVE  SubSeq(SubSeq(b, i + 1, j), m + 1, n) = SubSeq(b, i + m + 1, i + n)
<1> DEFINE a == SubSeq(b, i + 1, j)
           s == SubSeq(a, m + 1, n)
           t == SubSeq(b, i + m + 1, i + n)
<1>1. Len(b) \in Nat /\ i \in Int /\ j \in Int /\ m \in Int /\ 0 <= i /\ i <= j /\ j <= Len(b)
      /\ 0 <= m /\ m <= j - i
  BY LenProperties
<1>2. /\ a \in Seq(Byte) /\ Len(a) = j - i
      /\ \A k \in 1..j - i : a[k] = b[i + k]
  BY <1>1, CutProperties
<1> HIDE DEF a
<1>3. /\ s \in Seq(Byte) /\ Len(s) = IF m <= n THEN n - m ELSE 0
      /\ \A k \in 1..n - m : s[k] = a[m + k]
  <2>1. m \in 0..Len(a) /\ n <= Len(a)
    BY <1>1, <1>2
  <2> QED BY <1>2, <2>1, CutProperties
<1>4. /\ t \in Seq(Byte) /\ Len(t) = IF i + m <= i + n THEN (i + n) - (i + m) ELSE 0
      /\ \A k \in 1..(i + n) - (i + m) : t[k] = b[i + m + k]
  <2>1. i + m \in 0..Len(b) /\ i + n \in Int /\ i + n <= Len(b)
    BY <1>1
  <2> QED BY <2>1, CutProperties
<1> HIDE DEF s, t
<1>5. Len(s) = Len(t)
  BY <1>1, <1>3, <1>4
<1>6. ASSUME NEW k \in 1..Len(s)
      PROVE  s[k] = t[k]
  <2>1. k \in 1..n - m /\ k \in 1..(i + n) - (i + m) /\ m + k \in 1..j - i
        /\ i + (m + k) = i + m + k
    BY <1>1, <1>3
  <2>2. s[k] = a[m + k] /\ a[m + k] = b[i + (m + k)]
    BY <1>2, <1>3, <2>1
  <2> QED BY <1>4, <2>1, <2>2
<1> QED BY <1>3, <1>4, <1>5, <1>6, SeqEqual DEF s, t, a

LEMMA AfterProperties ==
  ASSUME NEW b \in Seq(Byte), NEW i \in 0..Len(b)
  PROVE  /\ After(b, i) \in Seq(Byte)
         /\ Len(After(b, i)) = Len(b) - i
         /\ \A k \in 1..Len(b) - i : After(b, i)[k] = b[i + k]
<1>1. Len(b) \in Nat /\ i <= Len(b)
  BY LenProperties
<1> QED BY <1>1, CutProperties DEF After

LEMMA AfterAfter ==
  ASSUME NEW b \in Seq(Byte), NEW i \in 0..Len(b), NEW j \in 0..Len(b) - i
  PROVE  After(After(b, i), j) = After(b, i + j)
<1>1. Len(b) \in Nat /\ i \in Int /\ 0 <= i /\ i <= Len(b)
  BY LenProperties
<1>2. Len(After(b, i)) = Len(b) - i
  BY AfterProperties
<1>3. Len(b) \in i..Len(b) /\ Len(b) - i \in Int /\ Len(b) - i <= Len(b) - i
      /\ i + (Len(b) - i) = Len(b)
  BY <1>1
<1>4. SubSeq(SubSeq(b, i + 1, Len(b)), j + 1, Len(b) - i) = SubSeq(b, i + j + 1, i + (Len(b) - i))
  BY <1>3, CutOfCut
<1> QED BY <1>2, <1>3, <1>4 DEF After

-----------------------------------------------------------------------------
(* Where lines end.                                                        *)

LEMMA EndsProperties ==
  ASSUME NEW b \in Seq(Byte)
  PROVE  /\ Len(b) \in Nat
         /\ \A k : k \in Ends(b) <=> k \in 1..Len(b) /\ b[k] = Newline
         /\ Ends(b) \in SUBSET (1..Len(b))
         /\ CommandEnds(b) \subseteq Ends(b)
         /\ Max({0} \union Ends(b)) \in {0} \union Ends(b)
         /\ Max({0} \union Ends(b)) \in 0..Len(b)
         /\ \A k \in Ends(b) : Max({0} \union Ends(b)) >= k
<1>1. Len(b) \in Nat /\ DOMAIN b = 1..Len(b)
  BY LenProperties
<1>2. \A k : k \in Ends(b) <=> k \in 1..Len(b) /\ b[k] = Newline
  BY <1>1 DEF Ends
<1>3. Ends(b) \in SUBSET (1..Len(b)) /\ CommandEnds(b) \subseteq Ends(b)
  BY <1>2 DEF CommandEnds
<1> DEFINE S == {0} \union Ends(b)
<1>4. S \in SUBSET (0..Len(b)) /\ S # {} /\ Ends(b) \subseteq S
  BY <1>1, <1>3
<1>5. S = {0} \union Ends(b)
  OBVIOUS
<1> HIDE DEF S
<1>6. Max(S) \in S /\ \A y \in S : Max(S) >= y
  BY <1>1, <1>4, GreatestExists
<1>7. Max(S) \in 0..Len(b) /\ \A y \in Ends(b) : Max(S) >= y
  BY <1>4, <1>6
<1> QED BY <1>1, <1>2, <1>3, <1>5, <1>6, <1>7

\* Where the line before the one that ends at i ends.
Before(b, i) == Max({0} \union {j \in Ends(b) : j < i})

LEMMA BeforeProperties ==
  ASSUME NEW b \in Seq(Byte), NEW i \in 1..Len(b)
  PROVE  /\ Before(b, i) \in 0..i - 1
         /\ Before(b, i) \in {0} \union Ends(b)
         /\ \A k \in Ends(b) : k < i => k <= Before(b, i)
         /\ \A k \in 0..i - 1 : k \in {0} \union Ends(b)
              /\ (\A l \in Ends(b) : l < i => l <= k) => k = Before(b, i)
         /\ LineAt(b, i) = SubSeq(b, Before(b, i) + 1, i - 1)
<1> DEFINE S == {0} \union {j \in Ends(b) : j < i}
           m == Before(b, i)
<1>0. Len(b) \in Nat /\ Ends(b) \in SUBSET (1..Len(b))
  BY EndsProperties
<1>1. Len(b) \in Nat /\ Ends(b) \in SUBSET (1..Len(b)) /\ i \in Nat /\ i - 1 \in Nat
  BY <1>0
<1>2. \A k \in Ends(b) : k \in Nat
  BY <1>1
<1>3. S \in SUBSET (0..i - 1) /\ S # {}
  <2>1. \A k \in S : k \in 0..i - 1
    BY <1>1, <1>2
  <2> QED BY <2>1, Zenon
<1>4. \A k : k \in S <=> k = 0 \/ (k \in Ends(b) /\ k < i)
  BY Zenon
<1>5. m = Max(S)
  BY DEF Before
<1> HIDE DEF S
<1>6. m \in S /\ \A y \in S : m >= y
  BY <1>1, <1>3, <1>5, GreatestExists
<1> HIDE DEF m
<1>7. m \in 0..i - 1
  BY <1>3, <1>6
<1>8. \A k \in Ends(b) : k < i => k <= m
  BY <1>2, <1>4, <1>6, <1>7
<1>9. ASSUME NEW k \in 0..i - 1, k \in {0} \union Ends(b), \A l \in Ends(b) : l < i => l <= k
      PROVE  k = m
  <2>1. k \in S
    BY <1>1, <1>4, <1>9
  <2>2. m <= k
    BY <1>1, <1>4, <1>6, <1>9
  <2> QED BY <1>1, <1>6, <1>7, <2>1, <2>2
<1>10. LineAt(b, i) = SubSeq(b, m + 1, i - 1)
  BY DEF LineAt, Before, m
<1> QED BY <1>4, <1>6, <1>7, <1>8, <1>9, <1>10 DEF m

LEMMA LineProperties ==
  ASSUME NEW b \in Seq(Byte), NEW i \in 1..Len(b)
  PROVE  /\ LineAt(b, i) \in Seq(Byte)
         /\ Len(LineAt(b, i)) = i - 1 - Before(b, i)
<1>1. Len(b) \in Nat /\ Before(b, i) \in 0..i - 1 /\ LineAt(b, i) = SubSeq(b, Before(b, i) + 1, i - 1)
  BY LenProperties, BeforeProperties
<1>2. Before(b, i) \in 0..Len(b) /\ i - 1 \in Int /\ i - 1 <= Len(b) /\ Before(b, i) <= i - 1
  BY <1>1
<1> QED BY <1>1, <1>2, CutProperties

-----------------------------------------------------------------------------
(* The rest of a text, from the start of a line on.                        *)

\* Its lines are lines of the text.
LEMMA LinesAfter ==
  ASSUME NEW b \in Seq(Byte), NEW i \in {0} \union Ends(b)
  PROVE  /\ i \in 0..Len(b)
         /\ \A j : j \in Ends(After(b, i)) <=> j \in 1..Len(b) - i /\ i + j \in Ends(b)
         /\ \A j \in Ends(After(b, i)) : LineAt(After(b, i), j) = LineAt(b, i + j)
<1> DEFINE a == After(b, i)
<1>0. Len(b) \in Nat /\ Ends(b) \in SUBSET (1..Len(b))
  BY EndsProperties
<1>1. Len(b) \in Nat /\ i \in 0..Len(b)
  BY <1>0
<1>2. /\ a \in Seq(Byte) /\ Len(a) = Len(b) - i
      /\ \A k \in 1..Len(b) - i : a[k] = b[i + k]
  BY <1>1, AfterProperties
<1>3. a = SubSeq(b, i + 1, Len(b))
  BY DEF After
<1> HIDE DEF a
<1>4. \A j : j \in Ends(a) <=> j \in 1..Len(b) - i /\ i + j \in Ends(b)
  <2> SUFFICES ASSUME NEW j \in 1..Len(b) - i
               PROVE  j \in Ends(a) <=> i + j \in Ends(b)
    BY <1>2, EndsProperties
  <2>1. i + j \in 1..Len(b)
    BY <1>1
  <2> QED BY <1>2, <2>1, EndsProperties
<1>5. ASSUME NEW j \in Ends(a)
      PROVE  LineAt(a, j) = LineAt(b, i + j)
  <2>1. j \in 1..Len(a) /\ i + j \in 1..Len(b) /\ j \in Int /\ i \in Int /\ 0 <= i
    BY <1>1, <1>2, <1>4
  <2> DEFINE m == Before(a, j)
  <2>2. /\ m \in 0..j - 1 /\ m \in {0} \union Ends(a)
        /\ \A k \in Ends(a) : k < j => k <= m
        /\ LineAt(a, j) = SubSeq(a, m + 1, j - 1)
    BY <1>2, <2>1, BeforeProperties
  <2> HIDE DEF m
  <2>3. i + m \in 0..(i + j) - 1 /\ i + m \in {0} \union Ends(b)
    <3>1. m \in Int /\ 0 <= m /\ m <= j - 1
      BY <2>1, <2>2
    <3>2. CASE m \in Ends(a)
      BY <1>4, <2>1, <3>1, <3>2
    <3>3. CASE m = 0
      <4>1. i + m = i
        BY <2>1, <3>3
      <4> QED BY <2>1, <3>1, <4>1
    <3> QED BY <2>2, <3>2, <3>3
  <2>4. ASSUME NEW l \in Ends(b), l < i + j
        PROVE  l <= i + m
    <3>1. l \in 1..Len(b) /\ l \in Int
      <4>1. l \in 1..Len(b)
        BY <1>0
      <4> QED BY <4>1
    <3>2. CASE l <= i
      BY <2>1, <2>2, <3>1, <3>2
    <3>3. CASE ~(l <= i)
      <4>1. l - i \in 1..Len(b) - i /\ i + (l - i) = l
        BY <2>1, <3>1, <3>3
      <4>2. l - i \in Ends(a)
        BY <1>4, <4>1
      <4>3. l - i <= m
        BY <2>1, <2>2, <2>4, <3>1, <4>2
      <4> QED BY <2>1, <2>2, <3>1, <4>3
    <3> QED BY <3>2, <3>3
  <2>5. i + m = Before(b, i + j) /\ LineAt(b, i + j) = SubSeq(b, Before(b, i + j) + 1, (i + j) - 1)
    BY <2>1, <2>3, <2>4, BeforeProperties
  <2>6. SubSeq(a, m + 1, j - 1) = SubSeq(b, i + m + 1, i + (j - 1))
    <3>1. Len(b) \in i..Len(b) /\ m \in 0..Len(b) - i /\ j - 1 \in Int /\ j - 1 <= Len(b) - i
      BY <1>1, <1>2, <2>1, <2>2
    <3> QED BY <1>1, <1>3, <3>1, CutOfCut
  <2>7. i + (j - 1) = (i + j) - 1
    BY <2>1
  <2> QED BY <2>2, <2>5, <2>6, <2>7
<1> QED BY <1>1, <1>4, <1>5 DEF a

\* So are its commands.
LEMMA CommandEndsAfter ==
  ASSUME NEW b \in Seq(Byte), NEW i \in {0} \union Ends(b)
  PROVE  \A j : j \in CommandEnds(After(b, i))
                  <=> j \in 1..Len(b) - i /\ i + j \in CommandEnds(b)
BY LinesAfter DEF CommandEnds

\* The lines that end in the first part of a text.
LEMMA LinesOfPrefix ==
  ASSUME NEW b \in Seq(Byte), NEW n \in 0..Len(b)
  PROVE  /\ \A j : j \in Ends(SubSeq(b, 1, n)) <=> j \in 1..n /\ j \in Ends(b)
         /\ \A j \in Ends(SubSeq(b, 1, n)) : LineAt(SubSeq(b, 1, n), j) = LineAt(b, j)
         /\ \A j : j \in CommandEnds(SubSeq(b, 1, n)) <=> j \in 1..n /\ j \in CommandEnds(b)
<1> DEFINE a == SubSeq(b, 1, n)
<1>1. Len(b) \in Nat /\ n \in Nat /\ n <= Len(b) /\ 0 \in 0..Len(b) /\ 0 + 1 = 1 /\ n - 0 = n /\ 0 <= n
  BY LenProperties
<1>2. /\ a \in Seq(Byte) /\ Len(a) = n
      /\ \A k \in 1..n : a[k] = b[k]
  <2>1. /\ SubSeq(b, 0 + 1, n) \in Seq(Byte)
        /\ Len(SubSeq(b, 0 + 1, n)) = IF 0 <= n THEN n - 0 ELSE 0
        /\ \A k \in 1..n - 0 : SubSeq(b, 0 + 1, n)[k] = b[0 + k]
    BY <1>1, CutProperties
  <2>2. \A k \in 1..n : 0 + k = k
    BY <1>1
  <2> QED BY <1>1, <2>1, <2>2
<1> HIDE DEF a
<1>3. \A j : j \in Ends(a) <=> j \in 1..n /\ j \in Ends(b)
  <2>1. \A j : j \in Ends(a) <=> j \in 1..n /\ a[j] = Newline
    BY <1>2, EndsProperties
  <2>2. \A j : j \in Ends(b) <=> j \in 1..Len(b) /\ b[j] = Newline
    BY EndsProperties
  <2>3. \A j \in 1..n : j \in 1..Len(b)
    BY <1>1
  <2> QED BY <1>2, <2>1, <2>2, <2>3
<1>4. ASSUME NEW j \in Ends(a)
      PROVE  LineAt(a, j) = LineAt(b, j)
  <2>1. j \in 1..n /\ j \in Ends(b) /\ j \in 1..Len(b) /\ j \in 1..Len(a)
    BY <1>1, <1>2, <1>3
  <2> DEFINE m == Before(a, j)
  <2>2. /\ m \in 0..j - 1 /\ m \in {0} \union Ends(a)
        /\ \A k \in Ends(a) : k < j => k <= m
        /\ LineAt(a, j) = SubSeq(a, m + 1, j - 1)
    BY <1>2, <2>1, BeforeProperties
  <2> HIDE DEF m
  <2>3. m \in {0} \union Ends(b)
    BY <1>3, <2>2
  <2>4. ASSUME NEW l \in Ends(b), l < j
        PROVE  l <= m
    <3>1. l \in 1..Len(b)
      BY EndsProperties
    <3>2. l \in 1..n
      BY <1>1, <2>1, <2>4, <3>1
    <3> QED BY <1>3, <2>2, <2>4, <3>2
  <2>5. m = Before(b, j) /\ LineAt(b, j) = SubSeq(b, Before(b, j) + 1, j - 1)
    BY <2>1, <2>2, <2>3, <2>4, BeforeProperties
  <2>6. SubSeq(a, m + 1, j - 1) = SubSeq(b, m + 1, j - 1)
    <3>1. n \in 0..Len(b) /\ m \in 0..n - 0 /\ j - 1 \in Int /\ j - 1 <= n - 0 /\ 0 + m + 1 = m + 1
          /\ 0 + (j - 1) = j - 1
      BY <1>1, <2>1, <2>2
    <3>2. SubSeq(SubSeq(b, 0 + 1, n), m + 1, j - 1) = SubSeq(b, 0 + m + 1, 0 + (j - 1))
      BY <1>1, <3>1, CutOfCut
    <3> QED BY <1>1, <3>1, <3>2 DEF a
  <2> QED BY <2>2, <2>5, <2>6
<1>5. \A j : j \in CommandEnds(a) <=> j \in 1..n /\ j \in CommandEnds(b)
  BY <1>3, <1>4 DEF CommandEnds
<1> QED BY <1>3, <1>4, <1>5 DEF a

-----------------------------------------------------------------------------
(* The commands of a text.                                                 *)

\* They are the lines at any ascending enumeration of where they end.
LEMMA CommandsAt ==
  ASSUME NEW b \in Seq(Byte), NEW n \in Nat, NEW s \in [1..n -> Int],
         Increasing(s), Range(s) = CommandEnds(b)
  PROVE  CommandsOf(b) = [k \in 1..n |-> LineAt(b, s[k])]
<1>1. Len(b) \in Nat /\ CommandEnds(b) \in SUBSET (1..Len(b))
  BY EndsProperties
<1>2. s \in Seq(Int) /\ DOMAIN s = 1..n
  BY SeqDef
<1>3. Ascending(CommandEnds(b)) = s
  BY <1>1, <1>2, AscendingIs
<1> QED BY <1>2, <1>3 DEF CommandsOf, CommandEnds

LEMMA CommandsProperties ==
  ASSUME NEW b \in Seq(Byte)
  PROVE  /\ CommandsOf(b) \in Seq(Seq(Byte))
         /\ CommandEnds(b) = {} => CommandsOf(b) = <<>>
         /\ \E n \in Nat : \E s \in [1..n -> Int] :
              /\ Increasing(s) /\ Range(s) = CommandEnds(b)
              /\ Len(CommandsOf(b)) = n
<1>1. Len(b) \in Nat /\ CommandEnds(b) \in SUBSET (1..Len(b))
  BY EndsProperties
<1> DEFINE s == Ascending(CommandEnds(b))
           n == Len(s)
           c == [k \in 1..n |-> LineAt(b, s[k])]
<1>2. s \in Seq(1..Len(b)) /\ Increasing(s) /\ Range(s) = CommandEnds(b)
  BY <1>1, AscendingProperties
<1> HIDE DEF s
<1>3. n \in Nat /\ DOMAIN s = 1..n /\ \A k \in 1..n : s[k] \in 1..Len(b)
  BY <1>2, LenProperties, ElementOfSeq
<1> HIDE DEF n
<1>4. s \in [1..n -> Int]
  <2>1. s \in [1..n -> 1..Len(b)]
    BY <1>2, LenProperties DEF n
  <2> QED BY <2>1
<1>5. CommandsOf(b) = c
  BY <1>2, <1>3, <1>4, CommandsAt
<1>6. \A k \in 1..n : LineAt(b, s[k]) \in Seq(Byte)
  BY <1>3, LineProperties
<1>7. c \in [1..n -> Seq(Byte)]
  BY <1>6
<1> HIDE DEF c
<1>8. c \in Seq(Seq(Byte)) /\ Len(c) = n
  BY <1>3, <1>7, SeqDef, LenProperties
<1>9. ASSUME CommandEnds(b) = {}
      PROVE  c = <<>>
  <2>1. ~(1 \in 1..n)
    BY <1>2, <1>3, <1>9 DEF Range
  <2>2. n = 0
    BY <1>3, <2>1
  <2> QED BY <1>8, <2>2, EmptySeq
<1> QED BY <1>2, <1>3, <1>4, <1>5, <1>8, <1>9

\* The commands of a text are those of its rest, if none ends before it.
LEMMA NoCommandBefore ==
  ASSUME NEW b \in Seq(Byte), NEW i \in {0} \union Ends(b),
         \A k \in CommandEnds(b) : k > i
  PROVE  CommandsOf(b) = CommandsOf(After(b, i))
<1> DEFINE a == After(b, i)
<1>0. Len(b) \in Nat /\ CommandEnds(b) \in SUBSET (1..Len(b))
  BY EndsProperties
<1>1. i \in 0..Len(b) /\ Len(b) \in Nat /\ i \in Int /\ a \in Seq(Byte)
  <2>1. i \in 0..Len(b)
    BY LinesAfter
  <2> QED BY <1>0, <2>1, AfterProperties
<1>2. /\ \A j : j \in CommandEnds(a) <=> j \in 1..Len(b) - i /\ i + j \in CommandEnds(b)
      /\ \A j \in CommandEnds(a) : LineAt(a, j) = LineAt(b, i + j)
  BY CommandEndsAfter, LinesAfter DEF CommandEnds
<1> HIDE DEF a
<1>n. PICK n \in Nat : \E s \in [1..n -> Int] : Increasing(s) /\ Range(s) = CommandEnds(a)
  BY <1>1, CommandsProperties
<1>3. PICK s \in [1..n -> Int] : Increasing(s) /\ Range(s) = CommandEnds(a)
  BY <1>n
<1> DEFINE t == [k \in 1..n |-> i + s[k]]
<1>4. \A k \in 1..n : s[k] \in Int /\ s[k] \in CommandEnds(a)
  BY <1>3 DEF Range
<1>5. t \in [1..n -> Int]
  BY <1>1, <1>4
<1>6. Increasing(t)
  <2> SUFFICES ASSUME NEW k \in 1..n, NEW l \in 1..n, k < l
               PROVE  i + s[k] < i + s[l]
    BY DEF Increasing
  <2>1. s[k] < s[l]
    BY <1>3 DEF Increasing
  <2> QED BY <1>1, <1>4, <2>1
<1>7. Range(t) = CommandEnds(b)
  <2>1. \A k \in 1..n : t[k] \in CommandEnds(b)
    BY <1>2, <1>4
  <2>2. ASSUME NEW x \in CommandEnds(b)
        PROVE  \E k \in 1..n : t[k] = x
    <3>1. x \in 1..Len(b) /\ x > i
      BY <1>0
    <3>2. x - i \in 1..Len(b) - i /\ i + (x - i) = x
      BY <1>1, <3>1
    <3>3. x - i \in Range(s)
      BY <1>2, <1>3, <3>2
    <3>4. PICK k \in 1..n : s[k] = x - i
      BY <3>3 DEF Range
    <3> QED BY <3>2, <3>4
  <2> QED BY <1>5, <2>1, <2>2 DEF Range
<1>8. CommandsOf(b) = [k \in 1..n |-> LineAt(b, t[k])]
  <2> HIDE DEF t
  <2> QED BY <1>5, <1>6, <1>7, CommandsAt
<1>9. CommandsOf(a) = [k \in 1..n |-> LineAt(a, s[k])]
  BY <1>1, <1>3, CommandsAt
<1>10. \A k \in 1..n : LineAt(b, t[k]) = LineAt(a, s[k])
  BY <1>2, <1>4
<1> QED BY <1>8, <1>9, <1>10 DEF a

\* They are the first and those of the rest, if the rest follows it.
LEMMA FirstCommandBefore ==
  ASSUME NEW b \in Seq(Byte), NEW i \in CommandEnds(b),
         \A k \in CommandEnds(b) : k >= i
  PROVE  CommandsOf(b) = <<LineAt(b, i)>> \o CommandsOf(After(b, i))
<1> DEFINE a == After(b, i)
<1>0. /\ Len(b) \in Nat /\ CommandEnds(b) \in SUBSET (1..Len(b))
      /\ i \in {0} \union Ends(b)
  BY EndsProperties
<1>1. i \in 1..Len(b) /\ i \in Int /\ a \in Seq(Byte)
  <2>1. i \in 1..Len(b) /\ i \in 0..Len(b)
    BY <1>0
  <2> QED BY <2>1, AfterProperties
<1>2. /\ \A j : j \in CommandEnds(a) <=> j \in 1..Len(b) - i /\ i + j \in CommandEnds(b)
      /\ \A j \in CommandEnds(a) : LineAt(a, j) = LineAt(b, i + j)
  BY <1>0, CommandEndsAfter, LinesAfter DEF CommandEnds
<1> HIDE DEF a
<1>n. PICK n \in Nat : \E s \in [1..n -> Int] : /\ Increasing(s) /\ Range(s) = CommandEnds(a)
                                             /\ Len(CommandsOf(a)) = n
  BY <1>1, CommandsProperties
<1>3. PICK s \in [1..n -> Int] : Increasing(s) /\ Range(s) = CommandEnds(a) /\ Len(CommandsOf(a)) = n
  BY <1>n
<1> DEFINE t == [k \in 1..n + 1 |-> IF k = 1 THEN i ELSE i + s[k - 1]]
<1>4. \A k \in 1..n : s[k] \in CommandEnds(a) /\ s[k] \in Int /\ s[k] > 0
  <2>1. \A k \in 1..n : s[k] \in CommandEnds(a)
    BY <1>3 DEF Range
  <2>2. \A k \in 1..n : s[k] \in 1..Len(b) - i
    BY <1>2, <2>1
  <2> QED BY <2>1, <2>2
<1>5. \A k \in 1..n + 1 : k # 1 => k - 1 \in 1..n
  BY <1>3
<1>6. t \in [1..n + 1 -> Int] /\ n + 1 \in Nat
  BY <1>1, <1>4, <1>5
<1>7. Increasing(t)
  <2> SUFFICES ASSUME NEW k \in 1..n + 1, NEW l \in 1..n + 1, k < l
               PROVE  t[k] < t[l]
    BY DEF Increasing
  <2>1. l # 1 /\ t[l] = i + s[l - 1] /\ l - 1 \in 1..n
    BY <1>5
  <2>2. CASE k = 1
    BY <1>1, <1>4, <2>1, <2>2
  <2>3. CASE k # 1
    <3>1. k - 1 \in 1..n /\ k - 1 < l - 1 /\ t[k] = i + s[k - 1]
      BY <1>5, <2>3
    <3>2. s[k - 1] < s[l - 1]
      BY <1>3, <2>1, <3>1 DEF Increasing
    <3> QED BY <1>1, <1>4, <2>1, <3>1, <3>2
  <2> QED BY <2>2, <2>3
<1>8. Range(t) = CommandEnds(b)
  <2>1. \A k \in 1..n + 1 : t[k] \in CommandEnds(b)
    BY <1>2, <1>4, <1>5
  <2>2. ASSUME NEW x \in CommandEnds(b)
        PROVE  \E k \in 1..n + 1 : t[k] = x
    <3>1. x \in 1..Len(b) /\ x >= i
      BY <1>0
    <3>2. CASE x = i
      BY <3>2
    <3>3. CASE x # i
      <4>1. x - i \in 1..Len(b) - i /\ i + (x - i) = x
        BY <1>1, <3>1, <3>3
      <4>2. x - i \in Range(s)
        BY <1>2, <1>3, <4>1
      <4>3. PICK k \in 1..n : s[k] = x - i
        BY <4>2 DEF Range
      <4>4. k + 1 \in 1..n + 1 /\ k + 1 # 1 /\ (k + 1) - 1 = k
        OBVIOUS
      <4>5. t[k + 1] = i + s[k]
        BY <4>4
      <4> QED BY <4>1, <4>3, <4>4, <4>5
    <3> QED BY <3>2, <3>3
  <2> QED BY <1>6, <2>1, <2>2 DEF Range
<1> DEFINE u == <<LineAt(b, i)>>
           v == CommandsOf(a)
           w == CommandsOf(b)
<1>9. w = [k \in 1..n + 1 |-> LineAt(b, t[k])]
  <2> HIDE DEF t
  <2> QED BY <1>6, <1>7, <1>8, CommandsAt
<1>10. v = [k \in 1..n |-> LineAt(a, s[k])]
  BY <1>1, <1>3, CommandsAt
<1>11. /\ w \in Seq(Seq(Byte)) /\ v \in Seq(Seq(Byte)) /\ Len(v) = n
       /\ u \in Seq(Seq(Byte)) /\ Len(u) = 1 /\ u[1] = LineAt(b, i)
  BY <1>1, <1>3, CommandsProperties, LineProperties
<1>12. Len(w) = n + 1
  <2>1. DOMAIN w = 1..n + 1
    BY <1>9
  <2>2. Len(w) \in Nat /\ DOMAIN w = 1..Len(w)
    BY <1>11, LenProperties
  <2> HIDE DEF w
  <2>3. Len(w) \in 1..n + 1 \/ Len(w) = 0
    BY <2>1, <2>2
  <2>4. n + 1 \in 1..Len(w)
    BY <2>1, <2>2
  <2>5. Len(w) \in Nat /\ n + 1 \in Nat
    BY <1>6, <2>2
  <2> QED BY <2>3, <2>4, <2>5
<1>13. w[1] = u[1] /\ \A k \in 1..n + 1 : k # 1 => w[k] = v[k - 1]
  <2>1. \A k \in 1..n + 1 : w[k] = LineAt(b, t[k])
    BY <1>9
  <2>2. t[1] = i /\ 1 \in 1..n + 1
    BY <1>3
  <2>3. ASSUME NEW k \in 1..n + 1, k # 1
        PROVE  w[k] = v[k - 1]
    <3>1. k - 1 \in 1..n /\ t[k] = i + s[k - 1]
      BY <1>5, <2>3
    <3>2. LineAt(b, i + s[k - 1]) = LineAt(a, s[k - 1])
      BY <1>2, <1>4, <3>1
    <3>3. v[k - 1] = LineAt(a, s[k - 1])
      BY <1>10, <3>1
    <3> HIDE DEF t, w, v
    <3> QED BY <2>1, <3>1, <3>2, <3>3
  <2> HIDE DEF t, w, v
  <2> QED BY <1>11, <2>1, <2>2, <2>3
<1> HIDE DEF u, v, w, t
<1>14. /\ u \o v \in Seq(Seq(Byte)) /\ Len(u \o v) = 1 + n
       /\ \A k \in 1..1 + n : (u \o v)[k] = IF k <= 1 THEN u[k] ELSE v[k - 1]
  <2>1. /\ u \o v \in Seq(Seq(Byte)) /\ Len(u \o v) = Len(u) + Len(v)
        /\ \A k \in 1..Len(u) + Len(v) :
             (u \o v)[k] = IF k <= Len(u) THEN u[k] ELSE v[k - Len(u)]
    BY <1>11, ConcatProperties
  <2>2. Len(u) = 1 /\ Len(v) = n
    BY <1>11
  <2> QED BY <2>1, <2>2
<1>15. \A k \in 1..n + 1 : w[k] = (u \o v)[k]
  <2> SUFFICES ASSUME NEW k \in 1..n + 1 PROVE w[k] = (u \o v)[k]
    OBVIOUS
  <2>1. k \in 1..1 + n
    BY <1>3
  <2>2. CASE k = 1
    BY <1>13, <1>14, <2>1, <2>2
  <2>3. CASE k # 1
    <3>1. ~(k <= 1)
      BY <1>3, <2>3
    <3> QED BY <1>13, <1>14, <2>1, <2>3, <3>1
  <2> QED BY <2>2, <2>3
<1>16. Len(w) = Len(u \o v)
  BY <1>3, <1>12, <1>14
<1>17. w = u \o v
  BY <1>11, <1>12, <1>14, <1>15, <1>16, SeqEqual
<1> QED BY <1>17 DEF u, v, w, a

-----------------------------------------------------------------------------
(* The fields of a command.                                                *)

LEMMA CommasProperties ==
  ASSUME NEW c \in Seq(Byte)
  PROVE  /\ Len(c) \in Nat
         /\ Commas(c) \in SUBSET (1..Len(c))
         /\ \A k : k \in Commas(c) <=> k \in 1..Len(c) /\ c[k] = Comma
<1>1. Len(c) \in Nat /\ DOMAIN c = 1..Len(c)
  BY LenProperties
<1> QED BY <1>1 DEF Commas

\* An increasing list keeps its elements in their order.
LEMMA IncreasingOrder ==
  ASSUME NEW s \in Seq(Int), Increasing(s), NEW i \in DOMAIN s, NEW j \in DOMAIN s
  PROVE  s[i] < s[j] => i < j
<1>1. DOMAIN s = 1..Len(s) /\ Len(s) \in Nat /\ s[i] \in Int /\ s[j] \in Int
  BY LenProperties, ElementOfSeq
<1>2. i > j => s[j] < s[i]
  BY <1>1 DEF Increasing
<1>3. i = j => s[i] = s[j]
  OBVIOUS
<1> QED BY <1>1, <1>2, <1>3

\* A command cut at some of its commas is made of its fields.
LEMMA FieldsProperties ==
  ASSUME NEW c \in Seq(Byte), NEW cuts \in Seq(Int), Increasing(cuts),
         Range(cuts) \subseteq Commas(c)
  PROVE  /\ Len(cuts) \in Nat
         /\ DOMAIN Fields(c, cuts) = 1..Len(cuts) + 1
         /\ Len(Fields(c, cuts)) = Len(cuts) + 1
         /\ Joined(Fields(c, cuts)) = c
<1> DEFINE fields == Fields(c, cuts)
           m == Len(cuts)
           end(k) == IF k > m THEN Len(c) ELSE cuts[k] - 1
           w == [k \in 1..m + 1 |-> SubSeq(c, 1, end(k))]
           body(j, k) == IF k = 1 THEN fields[1] ELSE j[k - 1] \o <<Comma>> \o fields[k]
           P(j) == j = [k \in DOMAIN fields |-> body(j, k)]
           joined == CHOOSE j : P(j)
<1>1. Len(c) \in Nat /\ m \in Nat /\ m + 1 \in Nat /\ DOMAIN cuts = 1..m
  BY LenProperties
<1>2. \A k \in 1..m : cuts[k] \in 1..Len(c) /\ c[cuts[k]] = Comma
  <2>1. \A k \in 1..m : cuts[k] \in Commas(c)
    BY <1>1 DEF Range
  <2> QED BY <2>1, CommasProperties
<1>3. /\ fields = [k \in 1..m + 1 |->
                     SubSeq(c, IF k = 1 THEN 1 ELSE cuts[k - 1] + 1, end(k))]
      /\ DOMAIN fields = 1..m + 1
  BY DEF Fields
<1>4. Len(fields) = m + 1
  BY <1>1, <1>3, LenProperties, SeqDef
<1>5. \A k \in 1..m + 1 : w[k] = body(w, k)
  <2> SUFFICES ASSUME NEW k \in 1..m + 1
               PROVE  w[k] = body(w, k)
    OBVIOUS
  <2>1. CASE k = 1
    <3>1. fields[k] = SubSeq(c, 1, end(k))
      BY <1>3, <2>1
    <3> QED BY <2>1, <3>1
  <2>2. CASE k # 1
    <3>1. k - 1 \in 1..m /\ k - 1 \in 1..m + 1 /\ ~(k - 1 > m)
      BY <1>1, <2>2
    <3> DEFINE p == cuts[k - 1]
               e == end(k)
    <3>2. p \in 1..Len(c) /\ c[p] = Comma
      BY <1>2, <3>1
    <3>3. w[k - 1] = SubSeq(c, 1, p - 1) /\ fields[k] = SubSeq(c, p + 1, e) /\ w[k] = SubSeq(c, 1, e)
      BY <1>3, <2>2, <3>1
    <3>4. e \in p..Len(c)
      <4>1. CASE k > m
        BY <1>1, <3>2, <4>1
      <4>2. CASE ~(k > m)
        <5>1. k \in 1..m /\ k - 1 < k
          BY <1>1, <4>2
        <5>2. cuts[k] \in 1..Len(c) /\ p < cuts[k]
          BY <1>1, <1>2, <3>1, <5>1 DEF Increasing
        <5>3. e = cuts[k] - 1
          BY <4>2
        <5> HIDE DEF p, e
        <5> QED BY <1>1, <3>2, <5>2, <5>3
      <4> QED BY <4>1, <4>2
    <3> HIDE DEF p, e, w, fields
    <3>5. SubSeq(c, p, p) = <<Comma>>
      <4>1. p - 1 \in 0..Len(c) /\ (p - 1) + 1 = p /\ p \in Int /\ p <= Len(c) /\ p - (p - 1) = 1
            /\ p - 1 <= p /\ 1 \in 1..1
        BY <1>1, <3>2
      <4>2. /\ SubSeq(c, (p - 1) + 1, p) \in Seq(Byte)
            /\ Len(SubSeq(c, (p - 1) + 1, p)) = IF p - 1 <= p THEN p - (p - 1) ELSE 0
            /\ \A x \in 1..p - (p - 1) : SubSeq(c, (p - 1) + 1, p)[x] = c[(p - 1) + x]
        BY <4>1, CutProperties
      <4>3. SubSeq(c, p, p) \in Seq(Byte) /\ Len(SubSeq(c, p, p)) = 1 /\ SubSeq(c, p, p)[1] = Comma
        BY <3>2, <4>1, <4>2
      <4>4. <<Comma>> \in Seq(Byte) /\ Len(<<Comma>>) = 1 /\ <<Comma>>[1] = Comma
        BY DEF Byte
      <4> DEFINE u == SubSeq(c, p, p)
                 v == <<Comma>>
      <4>5. \A x \in 1..Len(u) : u[x] = v[x]
        BY <4>3, <4>4
      <4> HIDE DEF u, v
      <4> QED BY <4>3, <4>4, <4>5, SeqEqual DEF u, v
    <3>6. SubSeq(c, 1, p - 1) \o SubSeq(c, p, p) = SubSeq(c, 1, p)
      <4>1. 1 \in 1..Len(c) + 1 /\ p - 1 \in 1 - 1..Len(c) /\ p \in p - 1..Len(c) /\ (p - 1) + 1 = p
        BY <1>1, <3>2
      <4>2. SubSeq(c, 1, p - 1) \o SubSeq(c, (p - 1) + 1, p) = SubSeq(c, 1, p)
        BY <4>1, ConcatAdjacentSubSeq
      <4> QED BY <4>1, <4>2
    <3>7. SubSeq(c, 1, p) \o SubSeq(c, p + 1, e) = SubSeq(c, 1, e)
      <4>1. 1 \in 1..Len(c) + 1 /\ p \in 1 - 1..Len(c) /\ e \in p..Len(c)
        BY <1>1, <3>2, <3>4
      <4> QED BY <4>1, ConcatAdjacentSubSeq
    <3> QED BY <2>2, <3>3, <3>5, <3>6, <3>7
  <2> QED BY <2>1, <2>2
<1>6. P(w)
  <2> HIDE DEF fields, end
  <2> SUFFICES w = [k \in 1..m + 1 |-> body(w, k)]
    BY <1>3
  <2>1. w = [k \in 1..m + 1 |-> w[k]]
    OBVIOUS
  <2> HIDE DEF w, body
  <2> QED BY <1>5, <2>1
<1>7. P(joined)
  <2> HIDE DEF P
  <2> QED BY <1>6
<1>8. Joined(fields) = joined[m + 1]
  BY <1>4 DEF Joined
<1> HIDE DEF joined
<1>9. \A k \in 1..m + 1 : joined[k] = body(joined, k)
  <2> HIDE DEF body
  <2> QED BY <1>3, <1>7
<1>10. joined[m + 1] = w[m + 1]
  <2> DEFINE T == {k \in 0..m + 1 : k = 0 \/ joined[k] = w[k]}
  <2> HIDE DEF fields, w
  <2>1. 0 \in T
    BY <1>1
  <2>2. ASSUME NEW k \in 0..m + 1, k # m + 1, k \in T
        PROVE  k + 1 \in T
    <3>1. k + 1 \in 1..m + 1 /\ (k + 1) - 1 = k
      BY <1>1, <2>2
    <3>2. joined[k + 1] = body(joined, k + 1) /\ w[k + 1] = body(w, k + 1)
      BY <1>5, <1>9, <3>1
    <3>3. body(joined, k + 1) = body(w, k + 1)
      BY <2>2, <3>1
    <3> HIDE DEF body
    <3> QED BY <3>1, <3>2, <3>3
  <2> HIDE DEF T
  <2>3. \A k \in 0..m + 1 : k # m + 1 /\ k \in T => k + 1 \in T
    BY <2>2
  <2> HIDE DEF m
  <2>4. \A k \in 0..m + 1 : k \in T
    BY <1>1, <2>1, <2>3, UpTo
  <2>5. m + 1 \in 0..m + 1 /\ m + 1 # 0
    BY <1>1
  <2> QED BY <2>4, <2>5 DEF T
<1>11. w[m + 1] = c
  BY <1>1, SubSeqFull
<1> QED BY <1>1, <1>3, <1>4, <1>8, <1>10, <1>11

\* bsr_str_split, for every command: its fields make it up, there are no more
\* of them than there is room for, and the last one only may hold a comma.
LEMMA SplitProperties ==
  ASSUME NEW c \in Seq(Byte)
  PROVE  /\ Joined(Split(c)) = c
         /\ Len(Split(c)) <= MaxFields
         /\ \A k \in DOMAIN Split(c) : k < MaxFields => Commas(Split(c)[k]) = {}
<1> DEFINE a == Ascending(Commas(c))
           n == Cardinality(Commas(c))
           m == Min({MaxFields - 1, n})
           cuts == SubSeq(a, 1, m)
<1>1. Len(c) \in Nat /\ Commas(c) \in SUBSET (1..Len(c))
  BY CommasProperties
<1>2. /\ a \in Seq(1..Len(c)) /\ Len(a) = n /\ Increasing(a) /\ Range(a) = Commas(c)
      /\ n \in Nat /\ a \in Seq(Int) /\ DOMAIN a = 1..n
  <2>1. /\ a \in Seq(1..Len(c)) /\ Len(a) = n /\ Increasing(a) /\ Range(a) = Commas(c)
    BY <1>1, AscendingProperties
  <2> HIDE DEF a, n
  <2>2. n \in Nat /\ DOMAIN a = 1..n
    BY <2>1, LenProperties
  <2>3. \A k \in 1..n : a[k] \in Int
    BY <2>1, <2>2, ElementOfSeq
  <2>4. a \in Seq(Int)
    <3>1. a = [k \in 1..n |-> a[k]]
      BY <2>1, <2>2, SeqDef
    <3> QED BY <2>2, <2>3, <3>1, SeqDef
  <2> QED BY <2>1, <2>2, <2>4
<1>3. m \in Nat /\ m <= MaxFields - 1 /\ m <= n /\ (m = MaxFields - 1 \/ m = n)
  <2>1. MaxFields - 1 \in Int /\ n \in Int /\ 0 <= MaxFields - 1 /\ 0 <= n
    BY <1>2, MaxFieldsAssumption
  <2> HIDE DEF n
  <2>2. m \in Int /\ m <= MaxFields - 1 /\ m <= n /\ m \in {MaxFields - 1, n}
    <3> HIDE DEF m
    <3>1. m \in {MaxFields - 1, n} /\ m <= MaxFields - 1 /\ m <= n
      BY <2>1, LeastOfTwo DEF m
    <3> QED BY <2>1, <3>1
  <2> QED BY <2>1, <2>2
<1> HIDE DEF a, n, m
<1>4. /\ cuts \in Seq(Int) /\ Len(cuts) = m /\ DOMAIN cuts = 1..m
      /\ \A k \in 1..m : cuts[k] = a[k]
  <2>1. \A k \in 1..m : k \in 1..n
    BY <1>2, <1>3
  <2>2. \A k \in 1..m : a[k] \in Int
    BY <1>2, <2>1, ElementOfSeq
  <2>3. /\ cuts \in Seq(Int) /\ Len(cuts) = IF 1 <= m THEN m - 1 + 1 ELSE 0
        /\ \A k \in 1..m - 1 + 1 : cuts[k] = a[1 + k - 1]
    BY <1>3, <2>2, SubSeqProperties
  <2>4. Len(cuts) = m /\ m - 1 + 1 = m
    BY <1>3, <2>3
  <2>5. \A k \in 1..m : 1 + k - 1 = k
    BY <1>3
  <2> QED BY <2>3, <2>4, <2>5, LenProperties
<1> HIDE DEF cuts
<1>5. Increasing(cuts) /\ Range(cuts) \subseteq Commas(c)
  <2>1. \A k \in 1..m : k \in 1..n
    BY <1>2, <1>3
  <2>2. Increasing(cuts)
    BY <1>2, <1>4, <2>1 DEF Increasing
  <2>3. Range(cuts) \subseteq Range(a)
    BY <1>2, <1>4, <2>1 DEF Range
  <2> QED BY <1>2, <2>2, <2>3
<1>6. Split(c) = Fields(c, cuts)
  BY DEF Split, Cuts, cuts, a, m, n
<1>7. /\ Joined(Split(c)) = c /\ DOMAIN Split(c) = 1..m + 1 /\ Len(Split(c)) = m + 1
  BY <1>4, <1>5, <1>6, FieldsProperties
<1>8. ASSUME NEW k \in 1..m + 1, k < MaxFields, NEW x \in Commas(Split(c)[k])
      PROVE  FALSE
  <2> DEFINE start == IF k = 1 THEN 0 ELSE a[k - 1]
             end == IF k > m THEN Len(c) ELSE a[k] - 1
             field == SubSeq(c, start + 1, end)
  <2>1. k # 1 => k - 1 \in 1..m /\ k - 1 \in 1..n
    BY <1>2, <1>3
  <2>2. k <= m => k \in 1..m /\ k \in 1..n
    BY <1>2, <1>3
  <2>3. \A i \in 1..n : a[i] \in 1..Len(c)
    BY <1>2, ElementOfSeq
  <2>4. start \in 0..Len(c) /\ end \in Int /\ end <= Len(c)
    BY <1>1, <1>3, <2>1, <2>2, <2>3
  <2>5. Split(c)[k] = field
    <3>1. Fields(c, cuts)[k] = SubSeq(c, IF k = 1 THEN 1 ELSE cuts[k - 1] + 1,
                                         IF k > m THEN Len(c) ELSE cuts[k] - 1)
      BY <1>4 DEF Fields
    <3>2. (IF k = 1 THEN 1 ELSE cuts[k - 1] + 1) = start + 1
      BY <1>4, <2>1
    <3>3. (IF k > m THEN Len(c) ELSE cuts[k] - 1) = end
      BY <1>3, <1>4, <2>2
    <3> QED BY <1>6, <3>1, <3>2, <3>3
  <2>6. /\ field \in Seq(Byte)
        /\ Len(field) = IF start <= end THEN end - start ELSE 0
        /\ \A i \in 1..end - start : field[i] = c[start + i]
    BY <2>4, CutProperties
  <2>7. x \in 1..Len(field) /\ field[x] = Comma
    BY <1>8, <2>5, <2>6, CommasProperties
  <2> HIDE DEF field, start, end
  <2>8. x \in 1..end - start
    BY <2>4, <2>6, <2>7
  <2>9. start + x \in Commas(c)
    <3>1. start + x \in 1..Len(c) /\ c[start + x] = Comma
      BY <1>1, <2>4, <2>6, <2>7, <2>8
    <3> QED BY <3>1, CommasProperties
  <2>10. PICK q \in 1..n : a[q] = start + x
    BY <1>2, <2>9 DEF Range
  <2>11. q >= k
    <3>1. CASE k = 1
      BY <2>10, <3>1
    <3>2. CASE k # 1
      <4>1. a[k - 1] < a[q]
        BY <2>3, <2>4, <2>8, <2>10, <3>2 DEF start
      <4>2. k - 1 < q
        BY <1>2, <2>1, <2>10, <3>2, <4>1, IncreasingOrder
      <4> QED BY <1>3, <2>10, <4>2
    <3> QED BY <3>1, <3>2
  <2>12. q < k
    <3>1. CASE k > m
      BY <1>2, <1>3, <1>8, <2>10, <3>1, MaxFieldsAssumption
    <3>2. CASE k <= m
      <4>1. end = a[k] - 1 /\ k \in 1..n
        BY <1>3, <2>2, <3>2 DEF end
      <4>2. a[k] \in Int /\ a[q] \in Int
        BY <2>3, <2>10, <4>1
      <4>3. a[q] < a[k]
        BY <2>4, <2>8, <2>10, <4>1, <4>2
      <4> QED BY <1>2, <2>10, <4>1, <4>3, IncreasingOrder
    <3> QED BY <1>3, <3>1, <3>2
  <2> QED BY <1>3, <2>10, <2>11, <2>12
<1> QED BY <1>3, <1>7, <1>8, MaxFieldsAssumption
=============================================================================
