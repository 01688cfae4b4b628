--------------------------- MODULE SequenceLemmas ---------------------------
(***************************************************************************)
(* What the operations on sequences return that the modules use for the    *)
(* code's VecDeques and vectors, whatever the elements: retain (Dropping), *)
(* insert, remove, extend and split.  Dropping is a function of how many   *)
(* places stay up to each one, so the facts about it rest on counting.     *)
(***************************************************************************)
EXTENDS Sublists, SequencesExt, SequenceTheorems, FiniteSetTheorems, WellFoundedInduction, TLAPS

(* A set of numbers has a least element. *)
LEMMA LeastNumber ==
  ASSUME NEW T, T \subseteq Nat, T # {}
  PROVE  \E n \in T : \A m \in T : n <= m
<1> DEFINE Less == {e \in Nat \X Nat : e[1] < e[2]}
<1>1. IsWellFoundedOn(Less, Nat)
  BY NatLessThanWellFounded DEF OpToRel
<1>2. \A i, j \in Nat : <<i, j>> \notin Less => j <= i
  OBVIOUS
<1> HIDE DEF Less
<1>3. \E x \in T : \A y \in T : ~ (<<y, x>> \in Less)
  BY <1>1, WFMin
<1> QED BY <1>2, <1>3

(* A bounded set of numbers has a greatest element. *)
LEMMA GreatestNumber ==
  ASSUME NEW N \in Nat, NEW T \in SUBSET (0..N), T # {}
  PROVE  \E n \in T : \A m \in T : m <= n
<1> DEFINE U == {k \in Nat : \A m \in T : m <= k}
<1>1. PICK n \in U : \A k \in U : n <= k
  <2>1. N \in U /\ U \subseteq Nat
    OBVIOUS
  <2> HIDE DEF U
  <2> QED BY <2>1, LeastNumber
<1>2. CASE n \in T
  BY <1>2
<1>3. CASE n \notin T
  <2>1. ASSUME NEW m \in T PROVE m <= n - 1 /\ n - 1 \in Nat
    BY <1>3
  <2>2. n - 1 \in U
    BY <2>1
  <2> QED BY <1>1, <2>2
<1> QED BY <1>2, <1>3

(* The places of a set up to one of them, counted. *)
UpTo(K, i) == {k \in K : k <= i}

Count(K, i) == Cardinality(UpTo(K, i))

(* There are finitely many of them. *)
LEMMA PlacesFinite ==
  ASSUME NEW N \in Nat, NEW K \in SUBSET (1..N)
  PROVE  IsFiniteSet(K) /\ Cardinality(K) \in Nat
<1>1. IsFiniteSet(1..N)
  BY FS_Interval
<1> QED BY <1>1, FS_Subset, FS_CardinalityType

(* A count is a number no larger than the whole. *)
LEMMA CountType ==
  ASSUME NEW N \in Nat, NEW K \in SUBSET (1..N), NEW i \in Int
  PROVE  IsFiniteSet(UpTo(K, i)) /\ Count(K, i) \in Nat /\ Count(K, i) <= Cardinality(K)
<1>2. IsFiniteSet(K) /\ UpTo(K, i) \in SUBSET K
  BY PlacesFinite DEF UpTo
<1>3. IsFiniteSet(UpTo(K, i)) /\ Cardinality(UpTo(K, i)) <= Cardinality(K)
  BY <1>2, FS_Subset
<1> QED BY <1>2, <1>3, FS_CardinalityType DEF Count

(* Nothing is counted before the first place, all is at the last. *)
LEMMA CountEnds ==
  ASSUME NEW N \in Nat, NEW K \in SUBSET (1..N)
  PROVE  Count(K, 0) = 0 /\ Count(K, N) = Cardinality(K)
<1>1. \A x \in UpTo(K, 0) : FALSE
  <2> SUFFICES ASSUME NEW x \in K, x <= 0 PROVE FALSE
    BY DEF UpTo
  <2> QED OBVIOUS
<1>2. \A x \in K : x \in UpTo(K, N)
  <2> SUFFICES ASSUME NEW x \in K PROVE x <= N
    BY DEF UpTo
  <2> QED OBVIOUS
<1>3. UpTo(K, 0) = {} /\ UpTo(K, N) = K
  BY <1>1, <1>2 DEF UpTo
<1> QED BY <1>3, FS_EmptySet DEF Count

(* From one place to the next the count grows by one if the place is in the set. *)
LEMMA CountStep ==
  ASSUME NEW N \in Nat, NEW K \in SUBSET (1..N), NEW i \in Nat \ {0}
  PROVE  Count(K, i) = Count(K, i - 1) + (IF i \in K THEN 1 ELSE 0)
<1>1. i - 1 \in Int
  OBVIOUS
<1>2. IsFiniteSet(UpTo(K, i - 1)) /\ Count(K, i - 1) \in Nat
  BY <1>1, CountType
<1>3. ASSUME NEW k \in K PROVE k \in UpTo(K, i) <=> k \in UpTo(K, i - 1) \/ k = i
  <2>1. k \in Int
    OBVIOUS
  <2> QED BY <2>1 DEF UpTo
<1>4. i \notin UpTo(K, i - 1)
  BY DEF UpTo
<1>5. CASE i \in K
  <2>1. UpTo(K, i) = UpTo(K, i - 1) \cup {i}
    BY <1>3, <1>5 DEF UpTo
  <2>2. Cardinality(UpTo(K, i)) = Cardinality(UpTo(K, i - 1)) + 1
    BY <1>2, <1>4, <2>1, FS_AddElement
  <2> QED BY <1>5, <2>2 DEF Count
<1>6. CASE i \notin K
  <2>1. UpTo(K, i) = UpTo(K, i - 1)
    BY <1>3, <1>6 DEF UpTo
  <2> QED BY <1>2, <1>6, <2>1 DEF Count
<1> QED BY <1>5, <1>6

(* Every count up to the whole is reached, at one place. *)
LEMMA PlaceOfCount ==
  ASSUME NEW N \in Nat, NEW K \in SUBSET (1..N), NEW m \in 1..Cardinality(K)
  PROVE  \E i \in K : Count(K, i) = m
<1> DEFINE T == {i \in 0..N : m <= Count(K, i)}
<1>1. m \in Nat \ {0} /\ m <= Cardinality(K)
  <2>1. Cardinality(K) \in Nat
    BY PlacesFinite
  <2> QED BY <2>1
<1>2. PICK i \in T : \A k \in T : i <= k
  <2>1. N \in T /\ T \subseteq Nat
    BY <1>1, CountEnds
  <2> HIDE DEF T
  <2> QED BY <2>1, LeastNumber
<1>3. i \in 0..N /\ m <= Count(K, i)
  OBVIOUS
<1>4. i # 0
  BY <1>1, <1>3, CountEnds
<1>5. i \in Nat \ {0} /\ i - 1 \in Int /\ i - 1 \in 0..N
  BY <1>3, <1>4
<1>6. Count(K, i - 1) \in Nat
  BY <1>5, CountType
<1>7. Count(K, i - 1) < m
  <2>1. i - 1 \notin T
    BY <1>2, <1>5
  <2> QED BY <1>1, <1>5, <1>6, <2>1
<1>8. Count(K, i) = Count(K, i - 1) + (IF i \in K THEN 1 ELSE 0)
  BY <1>5, CountStep
<1> QED BY <1>1, <1>3, <1>6, <1>7, <1>8

(* A later place has a larger count ... *)
LEMMA CountsGrow ==
  ASSUME NEW N \in Nat, NEW K \in SUBSET (1..N), NEW i \in K, NEW j \in K, i < j
  PROVE  Count(K, i) < Count(K, j)
<1>0. i \in Int /\ j \in Nat \ {0} /\ j - 1 \in Int
  OBVIOUS
<1>1. UpTo(K, i) \in SUBSET UpTo(K, j - 1)
  <2> SUFFICES ASSUME NEW k \in K, k <= i PROVE k <= j - 1
    BY DEF UpTo
  <2>1. k \in Int
    OBVIOUS
  <2> QED BY <1>0, <2>1
<1>2. IsFiniteSet(UpTo(K, j - 1)) /\ Count(K, j - 1) \in Nat /\ Count(K, i) \in Nat
  BY <1>0, CountType
<1>3. Count(K, i) <= Count(K, j - 1)
  BY <1>1, <1>2, FS_Subset DEF Count
<1>4. Count(K, j) = Count(K, j - 1) + 1
  BY <1>0, CountStep
<1> QED BY <1>2, <1>3, <1>4

(* ... so no two places have the same. *)
LEMMA OnePlaceOfCount ==
  ASSUME NEW N \in Nat, NEW K \in SUBSET (1..N), NEW i \in K, NEW j \in K,
         Count(K, i) = Count(K, j)
  PROVE  i = j
<1>1. i \in Int /\ j \in Int
  OBVIOUS
<1>2. Count(K, i) \in Nat
  BY <1>1, CountType
<1>3. ~ (i < j)
  <2> SUFFICES ASSUME i < j PROVE FALSE
    OBVIOUS
  <2>1. Count(K, i) < Count(K, j)
    BY CountsGrow
  <2> QED BY <1>2, <2>1
<1>4. ~ (j < i)
  <2> SUFFICES ASSUME j < i PROVE FALSE
    OBVIOUS
  <2>1. Count(K, j) < Count(K, i)
    BY CountsGrow
  <2> QED BY <1>2, <2>1
<1> QED BY <1>1, <1>3, <1>4

(* What is left of a sequence: its elements but those dropped, without repetition if it
   has none, and in the same order. *)
LEMMA DroppingProperties ==
  ASSUME NEW S, NEW s \in Seq(S), NEW gone
  PROVE  /\ Dropping(s, gone) \in Seq(S \ gone)
         /\ Range(Dropping(s, gone)) = Range(s) \ gone
         /\ IsInjective(s) => IsInjective(Dropping(s, gone))
<1> DEFINE kept == {i \in DOMAIN s : s[i] \notin gone}
           place(n) == CHOOSE i \in kept : Count(kept, i) = n
           t == Dropping(s, gone)
<1>1. Len(s) \in Nat /\ DOMAIN s = 1..Len(s) /\ \A i \in 1..Len(s) : s[i] \in S
  BY LenProperties, ElementOfSeq
<1>2. kept \in SUBSET (1..Len(s))
  BY <1>1
<1>3. Cardinality(kept) \in Nat
  <2> HIDE DEF kept
  <2> QED BY <1>1, <1>2, PlacesFinite
<1>4. t = [n \in 1..Cardinality(kept) |-> s[place(n)]]
  BY DEF Dropping, UpTo, Count
<1>5. \A n \in 1..Cardinality(kept) : place(n) \in kept /\ Count(kept, place(n)) = n
  <2> HIDE DEF kept
  <2> QED BY <1>1, <1>2, PlaceOfCount
<1>6. \A i \in kept : \E n \in 1..Cardinality(kept) : place(n) = i
  <2> SUFFICES ASSUME NEW i \in kept PROVE \E n \in 1..Cardinality(kept) : place(n) = i
    OBVIOUS
  <2> DEFINE n == Count(kept, i)
  <2> HIDE DEF kept
  <2>0. i \in Nat \ {0} /\ i \in Int /\ i - 1 \in Int
    BY <1>1, <1>2
  <2>1. n \in Nat /\ n <= Cardinality(kept)
    BY <1>1, <1>2, <2>0, CountType
  <2>2. n # 0
    <3>1. Count(kept, i - 1) \in Nat /\ n = Count(kept, i - 1) + 1
      BY <1>1, <1>2, <2>0, CountType, CountStep
    <3> QED BY <3>1
  <2>3. n \in 1..Cardinality(kept)
    BY <1>3, <2>1, <2>2
  <2>4. place(n) \in kept /\ Count(kept, place(n)) = n
    <3> HIDE DEF n
    <3> QED BY <1>5, <2>3
  <2> HIDE DEF n, place
  <2> QED BY <1>1, <1>2, <2>3, <2>4, OnePlaceOfCount DEF n
<1> HIDE DEF place, t
<1>7. \A n \in 1..Cardinality(kept) : t[n] = s[place(n)] /\ t[n] \in S \ gone
  BY <1>1, <1>2, <1>4, <1>5
<1>8. t \in Seq(S \ gone) /\ Len(t) = Cardinality(kept) /\ DOMAIN t = 1..Cardinality(kept)
  <2> HIDE DEF kept
  <2>1. t \in [1..Cardinality(kept) -> S \ gone]
    BY <1>4, <1>7
  <2> QED BY <1>3, <2>1, IsASeq, LenProperties
<1>9. Range(t) = Range(s) \ gone
  <2>1. Range(t) \subseteq Range(s) \ gone
    BY <1>1, <1>5, <1>7, <1>8 DEF Range
  <2>2. ASSUME NEW x \in Range(s) \ gone PROVE x \in Range(t)
    <3>1. PICK i \in DOMAIN s : s[i] = x
      BY DEF Range
    <3>2. PICK n \in 1..Cardinality(kept) : place(n) = i
      BY <1>6, <3>1
    <3> QED BY <1>7, <1>8, <3>1, <3>2 DEF Range
  <2> QED BY <2>1, <2>2
<1>10. IsInjective(s) => IsInjective(t)
  <2> SUFFICES ASSUME IsInjective(s), NEW m \in DOMAIN t, NEW n \in DOMAIN t, t[m] = t[n]
               PROVE  m = n
    BY DEF IsInjective
  <2>1. place(m) = place(n)
    BY <1>5, <1>7, <1>8 DEF IsInjective
  <2> QED BY <1>5, <1>8, <2>1
<1> QED BY <1>8, <1>9, <1>10 DEF t

(* Two sequences in a row hold the elements of both, and each once if the two have
   none in common. *)
LEMMA ConcatElements ==
  ASSUME NEW S, NEW s \in Seq(S), NEW t \in Seq(S)
  PROVE  /\ s \o t \in Seq(S)
         /\ Range(s \o t) = Range(s) \cup Range(t)
         /\ IsInjective(s) /\ IsInjective(t) /\ Range(s) \cap Range(t) = {}
              => IsInjective(s \o t)
<1> DEFINE m == Len(s)
           n == Len(t)
           c == s \o t
<1>1. /\ m \in Nat /\ DOMAIN s = 1..m
      /\ n \in Nat /\ DOMAIN t = 1..n
  BY LenProperties
<1>2. /\ c \in Seq(S) /\ Len(c) = m + n
      /\ \A i \in 1..m + n : c[i] = IF i <= m THEN s[i] ELSE t[i - m]
  BY ConcatProperties
<1>3. DOMAIN c = 1..m + n
  BY <1>2, LenProperties
<1> HIDE DEF m, n, c
<1>4. ASSUME NEW i \in DOMAIN c
      PROVE  \/ i \in DOMAIN s /\ c[i] = s[i]
             \/ i - m \in DOMAIN t /\ c[i] = t[i - m]
  BY <1>1, <1>2, <1>3, <1>4
<1>5. \A i \in DOMAIN s : i \in DOMAIN c /\ c[i] = s[i]
  BY <1>1, <1>2, <1>3
<1>6. ASSUME NEW j \in DOMAIN t
      PROVE  m + j \in DOMAIN c /\ c[m + j] = t[j]
  <2>1. m + j - m = j /\ ~ (m + j <= m) /\ m + j \in 1..m + n
    BY <1>1
  <2>2. \A i \in 1..m + n : ~ (i <= m) => c[i] = t[i - m]
    BY <1>2
  <2>3. c[m + j] = t[m + j - m]
    BY <1>1, <2>1, <2>2
  <2> QED BY <1>3, <2>1, <2>3
<1>7. \A x \in Range(c) : x \in Range(s) \cup Range(t)
  BY <1>4 DEF Range
<1>8. \A x \in Range(s) \cup Range(t) : x \in Range(c)
  BY <1>5, <1>6 DEF Range
<1>9. ASSUME IsInjective(s), IsInjective(t), Range(s) \cap Range(t) = {},
             NEW i \in DOMAIN c, NEW j \in DOMAIN c, c[i] = c[j]
      PROVE  i = j
  <2>1. \/ i \in DOMAIN s /\ c[i] = s[i] /\ j \in DOMAIN s /\ c[j] = s[j]
        \/ i - m \in DOMAIN t /\ c[i] = t[i - m] /\ j - m \in DOMAIN t /\ c[j] = t[j - m]
    BY <1>4, <1>9 DEF Range
  <2>2. i - m = j - m => i = j
    BY <1>1, <1>3
  <2> QED BY <1>9, <2>1, <2>2 DEF IsInjective
<1>10. IsInjective(s) /\ IsInjective(t) /\ Range(s) \cap Range(t) = {} => IsInjective(c)
  BY <1>9 DEF IsInjective
<1> QED BY <1>2, <1>7, <1>8, <1>10 DEF c

(* Two parts of a sequence hold its elements, and none in common when none is repeated. *)
LEMMA PartsElements ==
  ASSUME NEW S, NEW s \in Seq(S), NEW p \in 0..Len(s)
  PROVE  LET a == SubSeq(s, 1, p)
             b == SubSeq(s, p + 1, Len(s))
         IN  /\ a \in Seq(S) /\ b \in Seq(S)
             /\ Range(a) = {s[i] : i \in 1..p}
             /\ Range(b) = {s[i] : i \in p + 1..Len(s)}
             /\ IsInjective(s) => /\ IsInjective(a) /\ IsInjective(b)
                                  /\ Range(a) \cap Range(b) = {}
<1> DEFINE n == Len(s)
           a == SubSeq(s, 1, p)
           b == SubSeq(s, p + 1, n)
<1>1. n \in Nat /\ DOMAIN s = 1..n /\ p \in 0..n /\ \A i \in 1..n : s[i] \in S
  BY LenProperties, ElementOfSeq
<1>2. /\ a \in Seq(S) /\ Len(a) = p
      /\ \A i \in 1..p : a[i] = s[i]
  <2>1. \A i \in 1..p : s[i] \in S
    BY <1>1
  <2> QED BY <1>1, <2>1, SubSeqProperties
<1>3. /\ b \in Seq(S) /\ Len(b) = n - p
      /\ \A i \in 1..n - p : b[i] = s[p + i]
  <2> HIDE DEF n
  <2>1. n \in Int /\ p + 1 \in Int /\ \A i \in p + 1..n : s[i] \in S
    BY <1>1
  <2>2. /\ SubSeq(s, p + 1, n) \in Seq(S)
        /\ Len(SubSeq(s, p + 1, n)) = IF p + 1 <= n THEN n - (p + 1) + 1 ELSE 0
        /\ \A i \in 1..n - (p + 1) + 1 : SubSeq(s, p + 1, n)[i] = s[p + 1 + i - 1]
    BY <2>1, SubSeqProperties
  <2>3. n - (p + 1) + 1 = n - p /\ \A i \in 1..n - p : p + 1 + i - 1 = p + i
    BY <1>1
  <2>4. Len(b) = n - p
    BY <1>1, <2>2
  <2> HIDE DEF b
  <2> QED BY <2>2, <2>3, <2>4 DEF b
<1>4. DOMAIN a = 1..p /\ DOMAIN b = 1..n - p
  BY <1>2, <1>3, LenProperties
<1> HIDE DEF n, a, b
<1>5. Range(a) = {s[i] : i \in 1..p}
  BY <1>2, <1>4 DEF Range
<1>6. Range(b) = {s[i] : i \in p + 1..n}
  <2>1. \A i \in 1..n - p : p + i \in p + 1..n
    BY <1>1
  <2>2. \A i \in p + 1..n : i - p \in 1..n - p /\ p + (i - p) = i
    BY <1>1
  <2>3. \A x \in Range(b) : \E i \in p + 1..n : x = s[i]
    BY <1>3, <1>4, <2>1 DEF Range
  <2>4. ASSUME NEW i \in p + 1..n PROVE s[i] \in Range(b)
    <3>1. i - p \in DOMAIN b /\ b[i - p] = s[i]
      BY <1>3, <1>4, <2>2
    <3> QED BY <3>1 DEF Range
  <2> QED BY <2>3, <2>4
<1>7. ASSUME IsInjective(s)
      PROVE  IsInjective(a) /\ IsInjective(b) /\ Range(a) \cap Range(b) = {}
  <2>0. \A i, j \in 1..n : s[i] = s[j] => i = j
    BY <1>1, <1>7 DEF IsInjective
  <2>1. \A i \in 1..p : i \in 1..n
    BY <1>1
  <2>2. \A i \in p + 1..n : i \in 1..n /\ i \notin 1..p
    BY <1>1
  <2>3. IsInjective(a)
    BY <1>2, <1>4, <2>0, <2>1 DEF IsInjective
  <2>4. IsInjective(b)
    <3> SUFFICES ASSUME NEW i \in 1..n - p, NEW j \in 1..n - p, b[i] = b[j] PROVE i = j
      BY <1>4 DEF IsInjective
    <3>1. p + i \in 1..n /\ p + j \in 1..n
      BY <1>1
    <3>2. p + i = p + j
      BY <1>3, <2>0, <3>1
    <3> QED BY <1>1, <3>2
  <2>5. Range(a) \cap Range(b) = {}
    BY <1>5, <1>6, <2>0, <2>1, <2>2
  <2> QED BY <2>3, <2>4, <2>5
<1> QED BY <1>2, <1>3, <1>5, <1>6, <1>7 DEF a, b, n
(* VecDeque::insert shifts the elements from its position on. *)
LEMMA InsertAtProperties ==
  ASSUME NEW S, NEW s \in Seq(S), NEW e \in S, NEW i \in 1..Len(s) + 1
  PROVE  /\ InsertAt(s, i, e) \in Seq(S)
         /\ Len(InsertAt(s, i, e)) = Len(s) + 1
         /\ \A k \in 1..Len(s) + 1 :
              InsertAt(s, i, e)[k] = IF k < i THEN s[k]
                                     ELSE IF k = i THEN e ELSE s[k - 1]
         /\ Range(InsertAt(s, i, e)) = Range(s) \cup {e}
<1> DEFINE a == SubSeq(s, 1, i - 1)
           b == SubSeq(s, i, Len(s))
           m == a \o <<e>>
           t == InsertAt(s, i, e)
<1>0. /\ Len(s) \in Nat
      /\ \A k \in 1..Len(s) : s[k] \in S
      /\ DOMAIN s = 1..Len(s)
  BY LenProperties, ElementOfSeq
<1>1. /\ a \in Seq(S)
      /\ Len(a) = i - 1
      /\ \A k \in 1..i - 1 : a[k] = s[k]
  <2>1. \A k \in 1..i - 1 : s[k] \in S
    BY <1>0
  <2> QED BY <1>0, <2>1, SubSeqProperties
<1>2. /\ b \in Seq(S)
      /\ Len(b) = Len(s) - i + 1
      /\ \A k \in 1..Len(s) - i + 1 : b[k] = s[i + k - 1]
  <2>1. \A k \in i..Len(s) : s[k] \in S
    BY <1>0
  <2> QED BY <1>0, <2>1, SubSeqProperties
<1>3. <<e>> \in Seq(S) /\ Len(<<e>>) = 1 /\ <<e>>[1] = e
  OBVIOUS
<1>4. /\ m \in Seq(S)
      /\ Len(m) = i
      /\ \A k \in 1..i : m[k] = IF k <= i - 1 THEN a[k] ELSE <<e>>[k - (i - 1)]
  <2> HIDE DEF a
  <2> QED BY <1>0, <1>1, <1>3, ConcatProperties
<1>5. /\ m \o b \in Seq(S)
      /\ Len(m \o b) = Len(s) + 1
      /\ \A k \in 1..Len(s) + 1 : (m \o b)[k] = IF k <= i THEN m[k] ELSE b[k - i]
  <2> HIDE DEF b, m
  <2> QED BY <1>0, <1>2, <1>4, ConcatProperties
<1>6. t = m \o b
  BY DEF InsertAt
<1> HIDE DEF a, b, m, t
<1>7. \A k \in 1..Len(s) + 1 :
         t[k] = IF k < i THEN s[k] ELSE IF k = i THEN e ELSE s[k - 1]
  <2> SUFFICES ASSUME NEW k \in 1..Len(s) + 1
               PROVE  t[k] = IF k < i THEN s[k] ELSE IF k = i THEN e ELSE s[k - 1]
    OBVIOUS
  <2>1. CASE k < i
    <3>1. k \in 1..i - 1 /\ k \in 1..i
      BY <1>0, <2>1
    <3>2. t[k] = m[k]
      BY <1>5, <1>6, <2>1
    <3>3. m[k] = a[k]
      BY <1>4, <3>1
    <3>4. a[k] = s[k]
      BY <1>1, <3>1
    <3> QED BY <2>1, <3>2, <3>3, <3>4
  <2>2. CASE k = i
    BY <1>0, <1>3, <1>4, <1>5, <1>6, <2>2
  <2>3. CASE k > i
    <3>1. k - i \in 1..Len(s) - i + 1 /\ t[k] = b[k - i]
      BY <1>0, <1>5, <1>6, <2>3
    <3>2. b[k - i] = s[i + (k - i) - 1]
      BY <1>2, <3>1
    <3> QED BY <1>0, <2>3, <3>1, <3>2
  <2> QED BY <1>0, <2>1, <2>2, <2>3
<1>8. Range(t) = Range(s) \cup {e}
  <2>1. DOMAIN t = 1..Len(s) + 1
    BY <1>5, <1>6, LenProperties
  <2>2. ASSUME NEW k \in 1..Len(s) + 1 PROVE t[k] \in Range(s) \cup {e}
    BY <1>0, <1>7 DEF Range
  <2>3. ASSUME NEW k \in 1..Len(s) PROVE s[k] \in Range(t)
    <3>1. CASE k < i
      BY <1>0, <1>7, <2>1, <3>1 DEF Range
    <3>2. CASE k >= i
      <4>1. k + 1 \in 1..Len(s) + 1 /\ t[k + 1] = s[k]
        BY <1>0, <1>7, <3>2
      <4> QED BY <2>1, <4>1 DEF Range
    <3> QED BY <1>0, <3>1, <3>2
  <2>4. e \in Range(t)
    BY <1>0, <1>7, <2>1 DEF Range
  <2> QED BY <1>0, <2>1, <2>2, <2>3, <2>4 DEF Range
<1> QED BY <1>5, <1>6, <1>7, <1>8 DEF t

(* VecDeque::remove closes the gap the element leaves. *)
LEMMA RemoveAtProperties ==
  ASSUME NEW S, NEW s \in Seq(S), NEW i \in 1..Len(s)
  PROVE  /\ RemoveAt(s, i) \in Seq(S)
         /\ Len(RemoveAt(s, i)) = Len(s) - 1
         /\ \A k \in 1..Len(s) - 1 :
              RemoveAt(s, i)[k] = IF k < i THEN s[k] ELSE s[k + 1]
         /\ Range(s) = Range(RemoveAt(s, i)) \cup {s[i]}
<1> DEFINE a == SubSeq(s, 1, i - 1)
           b == SubSeq(s, i + 1, Len(s))
           t == RemoveAt(s, i)
<1>0. /\ Len(s) \in Nat
      /\ \A k \in 1..Len(s) : s[k] \in S
      /\ DOMAIN s = 1..Len(s)
  BY LenProperties, ElementOfSeq
<1>1. /\ a \in Seq(S)
      /\ Len(a) = i - 1
      /\ \A k \in 1..i - 1 : a[k] = s[k]
  <2>1. \A k \in 1..i - 1 : s[k] \in S
    BY <1>0
  <2> QED BY <1>0, <2>1, SubSeqProperties
<1>2. /\ b \in Seq(S)
      /\ Len(b) = Len(s) - i
      /\ \A k \in 1..Len(s) - i : b[k] = s[i + k]
  <2> DEFINE l == i + 1
             n == Len(s)
  <2>1. l \in Int /\ n \in Int /\ \A k \in l..n : s[k] \in S
    BY <1>0
  <2> HIDE DEF l, n
  <2>2. /\ SubSeq(s, l, n) \in Seq(S)
        /\ Len(SubSeq(s, l, n)) = IF l <= n THEN n - l + 1 ELSE 0
        /\ \A k \in 1..n - l + 1 : SubSeq(s, l, n)[k] = s[l + k - 1]
    BY <2>1, SubSeqProperties
  <2>3. SubSeq(s, l, n) = b
    BY DEF l, n
  <2> HIDE DEF b
  <2>4. Len(b) = n - i /\ \A k \in 1..n - i : b[k] = s[l + k - 1]
    <3>1. n - l + 1 = n - i /\ (l <= n \/ n - i = 0)
      <4>1. n \in Nat /\ i \in 1..n
        BY <1>0 DEF n
      <4> QED BY <4>1 DEF l
    <3> QED BY <2>1, <2>2, <2>3, <3>1
  <2>5. ASSUME NEW k \in 1..n - i PROVE b[k] = s[i + k]
    <3>1. l + k - 1 = i + k
      BY <1>0 DEF l, n
    <3> QED BY <2>4, <3>1
  <2> QED BY <2>2, <2>3, <2>4, <2>5 DEF n
<1>3. /\ a \o b \in Seq(S)
      /\ Len(a \o b) = Len(s) - 1
      /\ \A k \in 1..Len(s) - 1 :
           (a \o b)[k] = IF k <= i - 1 THEN a[k] ELSE b[k - (i - 1)]
  <2> HIDE DEF a, b
  <2>1. /\ a \o b \in Seq(S)
        /\ Len(a \o b) = Len(a) + Len(b)
        /\ \A k \in 1..Len(a) + Len(b) :
             (a \o b)[k] = IF k <= Len(a) THEN a[k] ELSE b[k - Len(a)]
    BY <1>1, <1>2, ConcatProperties
  <2>2. Len(a) + Len(b) = Len(s) - 1
    BY <1>0, <1>1, <1>2
  <2> QED BY <1>1, <2>1, <2>2
<1>4. t = a \o b
  BY DEF RemoveAt
<1> HIDE DEF a, b, t
<1>5. \A k \in 1..Len(s) - 1 : t[k] = IF k < i THEN s[k] ELSE s[k + 1]
  <2> SUFFICES ASSUME NEW k \in 1..Len(s) - 1
               PROVE  t[k] = IF k < i THEN s[k] ELSE s[k + 1]
    OBVIOUS
  <2>1. CASE k < i
    BY <1>0, <1>1, <1>3, <1>4, <2>1
  <2>2. CASE k >= i
    <3>1. k - (i - 1) \in 1..Len(s) - i /\ t[k] = b[k - (i - 1)]
      BY <1>0, <1>3, <1>4, <2>2
    <3>2. b[k - (i - 1)] = s[i + (k - (i - 1))]
      BY <1>2, <3>1
    <3>3. i + (k - (i - 1)) = k + 1
      BY <1>0
    <3> QED BY <2>2, <3>1, <3>2, <3>3
  <2> QED BY <1>0, <2>1, <2>2
<1>6. Range(s) = Range(t) \cup {s[i]}
  <2>1. DOMAIN t = 1..Len(s) - 1
    BY <1>0, <1>3, <1>4, LenProperties
  <2>2. ASSUME NEW k \in 1..Len(s) - 1 PROVE t[k] \in Range(s)
    BY <1>0, <1>5 DEF Range
  <2>3. ASSUME NEW k \in 1..Len(s), k # i PROVE s[k] \in Range(t)
    <3>1. CASE k < i
      BY <1>0, <1>5, <2>1, <3>1 DEF Range
    <3>2. CASE k > i
      <4>1. k - 1 \in 1..Len(s) - 1 /\ t[k - 1] = s[k]
        BY <1>0, <1>5, <3>2
      <4> QED BY <2>1, <4>1 DEF Range
    <3> QED BY <1>0, <2>3, <3>1, <3>2
  <2> QED BY <1>0, <2>1, <2>2, <2>3 DEF Range
<1> QED BY <1>3, <1>4, <1>5, <1>6 DEF t
=============================================================================
