------------------------------ MODULE Lemmas ------------------------------
(***************************************************************************)
(* Facts about numbers and lists that have nothing to do with the program   *)
(* and that several of the proofs need: the remainders that circular        *)
(* buffers wrap by, the maximum of a set of sizes, and what taking an       *)
(* element from a list without repetitions does to the set of its elements. *)
(***************************************************************************)
EXTENDS Integers, SequencesExt, FiniteSetTheorems, SequenceTheorems, TLAPS

-----------------------------------------------------------------------------
(* Remainders.                                                              *)

(* A multiple of N strictly between -N and N is zero.                       *)
LEMMA SmallMultiple ==
  ASSUME NEW N \in Nat \ {0}, NEW k \in Int, -N < N * k, N * k < N
  PROVE  k = 0
<1>1. CASE k >= 1
  <2>1. N * k >= N BY <1>1
  <2> QED BY <2>1
<1>2. CASE k <= -1
  <2>1. N * k <= -N BY <1>2
  <2> QED BY <2>1
<1> QED BY <1>1, <1>2

(* Euclidean division, for a divisor that is not a numeral.                 *)
LEMMA DivMod ==
  ASSUME NEW N \in Nat \ {0}, NEW a \in Int
  PROVE  /\ a \div N \in Int
         /\ a % N \in 0 .. N - 1
         /\ a = N * (a \div N) + (a % N)
  OBVIOUS

(* The remainder is the only number in 0 .. N - 1 a multiple of N away.     *)
LEMMA ModUnique ==
  ASSUME NEW N \in Nat \ {0}, NEW a \in Int, NEW q \in Int, NEW r \in 0 .. N - 1,
         a = N * q + r
  PROVE  a % N = r
<1> DEFINE d == a \div N
           s == a % N
<1>1. d \in Int /\ s \in 0 .. N - 1 /\ a = N * d + s
  BY DivMod
<1> HIDE DEF d, s
<1>2. N * (d - q) = r - s
  BY <1>1
<1>3. d - q = 0
  <2>1. -N < N * (d - q) /\ N * (d - q) < N
    BY <1>1, <1>2
  <2>2. d - q \in Int
    BY <1>1
  <2> QED BY <2>1, <2>2, SmallMultiple
<1>4. r = s
  BY <1>1, <1>2, <1>3
<1> QED BY <1>4 DEF s

(* Wrapping early or late makes no difference.                              *)
LEMMA ModAdd ==
  ASSUME NEW N \in Nat \ {0}, NEW a \in Int, NEW b \in Int
  PROVE  ((a % N) + b) % N = (a + b) % N
<1> DEFINE q == a \div N
           r == a % N
           d == (r + b) \div N
           s == (r + b) % N
<1>1. q \in Int /\ r \in 0 .. N - 1 /\ a = N * q + r
  BY DivMod
<1>2. d \in Int /\ s \in 0 .. N - 1 /\ r + b = N * d + s
  <2>1. r + b \in Int
    BY <1>1
  <2> HIDE DEF r
  <2> QED BY <2>1, DivMod
<1> HIDE DEF q, r, d, s
<1>3. a + b = N * (q + d) + s
  BY <1>1, <1>2
<1>4. (a + b) % N = s
  <2>1. a + b \in Int /\ q + d \in Int
    BY <1>1, <1>2
  <2> QED BY <1>2, <1>3, <2>1, ModUnique
<1> QED BY <1>4 DEF r, s

(* Two positions less than a lap apart that wrap to one cell are equal.     *)
LEMMA ModInj ==
  ASSUME NEW N \in Nat \ {0}, NEW a \in Int, NEW b \in Int,
         a <= b, b < a + N, a % N = b % N
  PROVE  a = b
<1> DEFINE q == a \div N
           d == b \div N
           r == a % N
<1>1. q \in Int /\ r \in 0 .. N - 1 /\ a = N * q + r
  BY DivMod
<1>2. d \in Int /\ b = N * d + r
  BY DivMod
<1> HIDE DEF q, d, r
<1>3. b - a = N * (d - q)
  BY <1>1, <1>2
<1>4. d - q = 0
  BY <1>1, <1>2, <1>3, SmallMultiple
<1> QED BY <1>1, <1>2, <1>3, <1>4

(* The distance from i to the cell k further on is k.                       *)
LEMMA ModDistance ==
  ASSUME NEW N \in Nat \ {0}, NEW i \in Int, NEW k \in 0 .. N - 1
  PROVE  (((i + k) % N) - i) % N = k
<1>1. (((i + k) % N) + (-i)) % N = ((i + k) + (-i)) % N
  <2>1. i + k \in Int /\ -i \in Int
    OBVIOUS
  <2> QED BY ONLY <2>1, ModAdd, N \in Nat \ {0}
<1>2. k % N = k
  BY ModUnique, k = N * 0 + k
<1>3. (i + k) + (-i) = k
  OBVIOUS
<1>4. (i + k) % N \in Int
  OBVIOUS
<1>5. ((i + k) % N) + (-i) = ((i + k) % N) - i
  BY <1>4
<1> QED BY <1>1, <1>2, <1>3, <1>5

-----------------------------------------------------------------------------
(* Lists as sets of elements, and maxima.                                   *)

\* The elements of a list, by their places.
LEMMA SetOfSeq ==
  ASSUME NEW S, NEW s \in Seq(S)
  PROVE  /\ ToSet(s) = {s[i] : i \in 1 .. Len(s)} /\ ToSet(s) \subseteq S
         /\ ToSet(s) = {} <=> s = <<>>
<1>1. DOMAIN s = 1 .. Len(s) /\ Len(s) \in Nat /\ s \in [1 .. Len(s) -> S]
  OBVIOUS
<1>2. ToSet(s) = {s[i] : i \in 1 .. Len(s)} /\ ToSet(s) \subseteq S
  BY <1>1 DEF ToSet
<1>3. ASSUME s # <<>> PROVE s[1] \in ToSet(s)
  BY <1>1, <1>2, <1>3
<1>4. ASSUME s = <<>> PROVE ToSet(s) = {}
  BY <1>2, <1>4
<1> QED
  BY <1>2, <1>3, <1>4

\* A list is injective when no two places have the same element.
LEMMA InjectiveSeq ==
  ASSUME NEW S, NEW s \in Seq(S)
  PROVE  IsInjective(s) <=> \A i, j \in 1 .. Len(s) : s[i] = s[j] => i = j
<1>1. DOMAIN s = 1 .. Len(s)
  OBVIOUS
<1> QED
  BY <1>1 DEF IsInjective

\* The head of a list that has every element once is gone from the tail.
LEMMA TailSet ==
  ASSUME NEW S, NEW s \in Seq(S), s # <<>>, IsInjective(s)
  PROVE  /\ Head(s) \in ToSet(s) /\ Tail(s) \in Seq(S) /\ IsInjective(Tail(s))
         /\ ToSet(Tail(s)) = ToSet(s) \ {Head(s)}
<1> DEFINE t == Tail(s)
<1>1. /\ t \in Seq(S) /\ Len(t) = Len(s) - 1 /\ Len(s) \in Nat /\ Len(s) >= 1
      /\ \A i \in 1 .. Len(s) - 1 : t[i] = s[i + 1]
      /\ Head(s) = s[1]
  OBVIOUS
<1> HIDE DEF t
<1>2. \A i, j \in 1 .. Len(s) : s[i] = s[j] => i = j
  BY InjectiveSeq
<1>3. IsInjective(t)
  <2>1. \A i \in 1 .. Len(t) : i + 1 \in 1 .. Len(s) /\ t[i] = s[i + 1]
    BY <1>1
  <2> QED
    BY <1>1, <1>2, <2>1, InjectiveSeq
<1>4. ToSet(t) = {s[i] : i \in 2 .. Len(s)}
  <2>1. ToSet(t) = {t[i] : i \in 1 .. Len(t)}
    BY <1>1, SetOfSeq
  <2>2. ASSUME NEW i \in 1 .. Len(t) PROVE i + 1 \in 2 .. Len(s) /\ t[i] = s[i + 1]
    BY <1>1
  <2>3. ASSUME NEW i \in 2 .. Len(s) PROVE i - 1 \in 1 .. Len(t) /\ t[i - 1] = s[i]
    BY <1>1
  <2> QED
    BY <2>1, <2>2, <2>3
<1>5. ToSet(s) = {s[i] : i \in 1 .. Len(s)}
  BY SetOfSeq
<1>6. \A i \in 1 .. Len(s) : i = 1 \/ i \in 2 .. Len(s)
  OBVIOUS
<1>7. \A i \in 2 .. Len(s) : i \in 1 .. Len(s) /\ i # 1
  OBVIOUS
<1>8. ToSet(t) = ToSet(s) \ {s[1]} /\ s[1] \in ToSet(s)
  <2>1. 1 \in 1 .. Len(s)
    BY <1>1
  <2> QED
    BY <1>2, <1>4, <1>5, <1>6, <1>7, <2>1
<1> QED
  BY <1>1, <1>3, <1>8 DEF t

\* So is the last of such a list from its front.
LEMMA FrontSet ==
  ASSUME NEW S, NEW s \in Seq(S), s # <<>>, IsInjective(s)
  PROVE  /\ Last(s) \in ToSet(s) /\ Front(s) \in Seq(S) /\ IsInjective(Front(s))
         /\ ToSet(Front(s)) = ToSet(s) \ {Last(s)}
<1> DEFINE t == Front(s)
           n == Len(s)
<1>1. /\ t \in Seq(S) /\ Len(t) = n - 1 /\ n \in Nat /\ n >= 1
      /\ \A i \in 1 .. n - 1 : t[i] = s[i]
  <2>1. n \in Nat /\ n >= 1
    OBVIOUS
  <2> HIDE DEF n
  <2>2. t = SubSeq(s, 1, n - 1)
    BY DEF Front, n
  <2>3. 1 \in 1 .. Len(s) + 1 /\ n - 1 \in 1 - 1 .. Len(s)
    BY <2>1 DEF n
  <2> QED
    BY <2>1, <2>2, <2>3, SubSeqProperties
<1> HIDE DEF t
<1>2. \A i, j \in 1 .. n : s[i] = s[j] => i = j
  BY InjectiveSeq
<1>3. IsInjective(t)
  <2>1. \A i \in 1 .. Len(t) : i \in 1 .. n /\ t[i] = s[i]
    BY <1>1
  <2> QED
    BY <1>1, <1>2, <2>1, InjectiveSeq
<1>4. ToSet(t) = {s[i] : i \in 1 .. n - 1}
  <2>1. ToSet(t) = {t[i] : i \in 1 .. n - 1}
    BY <1>1, SetOfSeq
  <2> QED
    BY <1>1, <2>1
<1>5. ToSet(s) = {s[i] : i \in 1 .. n}
  BY SetOfSeq
<1>6. \A i \in 1 .. n : i = n \/ i \in 1 .. n - 1
  BY <1>1
<1>7. (\A i \in 1 .. n - 1 : i \in 1 .. n /\ i # n) /\ n \in 1 .. n
  BY <1>1
<1>8. ToSet(t) = ToSet(s) \ {s[n]} /\ s[n] \in ToSet(s)
  BY <1>2, <1>4, <1>5, <1>6, <1>7
<1> QED
  BY <1>1, <1>3, <1>8 DEF t, Last

\* A new element in front.
LEMMA ConsSet ==
  ASSUME NEW S, NEW s \in Seq(S), NEW e \in S, e \notin ToSet(s), IsInjective(s)
  PROVE  /\ <<e>> \o s \in Seq(S) /\ IsInjective(<<e>> \o s)
         /\ ToSet(<<e>> \o s) = ToSet(s) \cup {e}
<1> DEFINE t == <<e>> \o s
           n == Len(s)
<1>1. /\ t \in Seq(S) /\ Len(t) = n + 1 /\ n \in Nat /\ t[1] = e
      /\ \A i \in 2 .. n + 1 : t[i] = s[i - 1]
  OBVIOUS
<1> HIDE DEF t
<1>2. \A i, j \in 1 .. n : s[i] = s[j] => i = j
  BY InjectiveSeq
<1>3. ToSet(s) = {s[i] : i \in 1 .. n} /\ ToSet(t) = {t[i] : i \in 1 .. n + 1}
  BY <1>1, SetOfSeq
<1>4. \A i \in 1 .. n + 1 : i = 1 \/ (i \in 2 .. n + 1 /\ i - 1 \in 1 .. n)
  BY <1>1
<1>5. \A i \in 1 .. n : i + 1 \in 2 .. n + 1 /\ i + 1 \in 1 .. n + 1 /\ t[i + 1] = s[i]
  BY <1>1
<1>6. IsInjective(t)
  <2>1. ASSUME NEW i \in 1 .. n + 1, NEW j \in 1 .. n + 1, t[i] = t[j]
        PROVE  i = j
    <3>1. CASE i = 1 /\ j # 1
      <4>1. t[j] \in ToSet(s)
        BY <1>1, <1>3, <1>4, <3>1
      <4> QED
        BY <1>1, <2>1, <3>1, <4>1
    <3>2. CASE j = 1 /\ i # 1
      <4>1. t[i] \in ToSet(s)
        BY <1>1, <1>3, <1>4, <3>2
      <4> QED
        BY <1>1, <2>1, <3>2, <4>1
    <3>3. CASE i # 1 /\ j # 1
      <4>1. s[i - 1] = s[j - 1] /\ i - 1 \in 1 .. n /\ j - 1 \in 1 .. n
        BY <1>1, <1>4, <2>1, <3>3
      <4>2. i - 1 = j - 1
        BY <1>2, <4>1
      <4> QED
        BY <4>2
    <3> QED
      BY <3>1, <3>2, <3>3
  <2> QED
    BY <1>1, <2>1, InjectiveSeq
<1>7. ToSet(t) = ToSet(s) \cup {e}
  <2>1. ASSUME NEW x \in ToSet(t) PROVE x \in ToSet(s) \cup {e}
    <3>1. PICK i \in 1 .. n + 1 : x = t[i]
      BY <1>3
    <3>2. CASE i = 1
      BY <1>1, <3>1, <3>2
    <3>3. CASE i \in 2 .. n + 1 /\ i - 1 \in 1 .. n
      <4>1. x = s[i - 1]
        BY <1>1, <3>1, <3>3
      <4> QED
        BY <1>3, <3>3, <4>1
    <3> QED
      BY <1>4, <3>2, <3>3
  <2>2. e \in ToSet(t)
    <3>1. 1 \in 1 .. n + 1
      BY <1>1
    <3> QED
      BY <1>1, <1>3, <3>1
  <2>3. ASSUME NEW x \in ToSet(s) PROVE x \in ToSet(t)
    BY <1>3, <1>5
  <2> QED
    BY <2>1, <2>2, <2>3
<1> QED
  BY <1>1, <1>6, <1>7 DEF t

\* An element is taken out.
LEMMA RemoveAtSet ==
  ASSUME NEW S, NEW s \in Seq(S), NEW k \in 1 .. Len(s), IsInjective(s)
  PROVE  /\ RemoveAt(s, k) \in Seq(S) /\ IsInjective(RemoveAt(s, k))
         /\ ToSet(RemoveAt(s, k)) = ToSet(s) \ {s[k]}
<1> DEFINE t == RemoveAt(s, k)
           n == Len(s)
           a == SubSeq(s, 1, k - 1)
           b == SubSeq(s, k + 1, n)
<1>0. n \in Nat /\ k \in Nat /\ k >= 1 /\ k <= n
  OBVIOUS
<1>1. /\ a \in Seq(S) /\ Len(a) = k - 1 /\ \A i \in 1 .. k - 1 : a[i] = s[i]
  BY <1>0
<1>2. /\ b \in Seq(S) /\ Len(b) = n - k /\ \A i \in 1 .. n - k : b[i] = s[k + i]
  BY <1>0
<1>3. /\ t \in Seq(S) /\ Len(t) = n - 1
      /\ \A i \in 1 .. n - 1 : t[i] = IF i < k THEN s[i] ELSE s[i + 1]
  <2> HIDE DEF a, b
  <2>1. t = a \o b
    BY DEF RemoveAt, a, b
  <2>2. /\ t \in Seq(S) /\ Len(t) = n - 1
        /\ \A i \in 1 .. n - 1 : t[i] = IF i <= k - 1 THEN a[i] ELSE b[i - (k - 1)]
    <3>1. (k - 1) + (n - k) = n - 1 /\ k - 1 \in Nat /\ n - k \in Nat
      BY <1>0
    <3>2. /\ Len(a \o b) = Len(a) + Len(b) /\ a \o b \in Seq(S)
          /\ \A i \in 1 .. Len(a) + Len(b) : (a \o b)[i] = IF i <= Len(a) THEN a[i] ELSE b[i - Len(a)]
      BY <1>1, <1>2, ConcatProperties
    <3> QED
      BY <1>1, <1>2, <2>1, <3>1, <3>2
  <2>3. ASSUME NEW i \in 1 .. n - 1
        PROVE  t[i] = IF i < k THEN s[i] ELSE s[i + 1]
    <3>1. CASE i < k
      <4>1. i <= k - 1 /\ i \in 1 .. k - 1
        BY <1>0, <3>1
      <4> QED
        BY <1>1, <2>2, <3>1, <4>1
    <3>2. CASE ~(i < k)
      <4>1. ~(i <= k - 1) /\ i - (k - 1) \in 1 .. n - k /\ k + (i - (k - 1)) = i + 1
        BY <1>0, <3>2
      <4> QED
        BY <1>2, <2>2, <3>2, <4>1
    <3> QED
      BY <3>1, <3>2
  <2> QED
    BY <2>2, <2>3
<1> HIDE DEF t, a, b
<1>4. \A i, j \in 1 .. n : s[i] = s[j] => i = j
  BY InjectiveSeq
<1>5. ToSet(s) = {s[i] : i \in 1 .. n} /\ ToSet(t) = {t[i] : i \in 1 .. n - 1}
  BY <1>3, SetOfSeq
<1>6. IsInjective(t)
  <2>1. ASSUME NEW i \in 1 .. n - 1, NEW j \in 1 .. n - 1, t[i] = t[j]
        PROVE  i = j
    <3>1. i \in 1 .. n /\ i + 1 \in 1 .. n /\ j \in 1 .. n /\ j + 1 \in 1 .. n
      BY <1>0
    <3>2. CASE i < k /\ j < k
      BY <1>3, <1>4, <2>1, <3>1, <3>2
    <3>3. CASE i < k /\ ~(j < k)
      <4>1. i = j + 1
        BY <1>3, <1>4, <2>1, <3>1, <3>3
      <4> QED
        BY <1>0, <3>3, <4>1
    <3>4. CASE ~(i < k) /\ j < k
      <4>1. i + 1 = j
        BY <1>3, <1>4, <2>1, <3>1, <3>4
      <4> QED
        BY <1>0, <3>4, <4>1
    <3>5. CASE ~(i < k) /\ ~(j < k)
      <4>1. i + 1 = j + 1
        BY <1>3, <1>4, <2>1, <3>1, <3>5
      <4> QED
        BY <4>1
    <3> QED
      BY <3>2, <3>3, <3>4, <3>5
  <2> QED
    BY <1>3, <2>1, InjectiveSeq
<1>7. ToSet(t) = ToSet(s) \ {s[k]}
  <2>1. ASSUME NEW i \in 1 .. n - 1 PROVE t[i] \in ToSet(s) \ {s[k]}
    <3>1. i \in 1 .. n /\ i + 1 \in 1 .. n /\ k \in 1 .. n
      BY <1>0
    <3>2. CASE i < k
      BY <1>3, <1>4, <1>5, <3>1, <3>2
    <3>3. CASE ~(i < k)
      <4>1. t[i] = s[i + 1] /\ i + 1 # k
        BY <1>0, <1>3, <3>3
      <4> QED
        BY <1>4, <1>5, <3>1, <4>1
    <3> QED
      BY <3>2, <3>3
  <2>2. ASSUME NEW i \in 1 .. n, i # k PROVE s[i] \in ToSet(t)
    <3>1. CASE i < k
      <4>1. i \in 1 .. n - 1
        BY <1>0, <3>1
      <4> QED
        BY <1>3, <1>5, <3>1, <4>1
    <3>2. CASE i > k
      <4>1. i - 1 \in 1 .. n - 1 /\ ~(i - 1 < k) /\ (i - 1) + 1 = i
        BY <1>0, <3>2
      <4> QED
        BY <1>3, <1>5, <4>1
    <3> QED
      BY <1>0, <2>2, <3>1, <3>2
  <2> QED
    BY <1>5, <2>1, <2>2
<1> QED
  BY <1>3, <1>6, <1>7 DEF t

\* Two lists one after the other.
LEMMA ConcatSet ==
  ASSUME NEW S, NEW p \in Seq(S), NEW q \in Seq(S)
  PROVE  /\ p \o q \in Seq(S) /\ ToSet(p \o q) = ToSet(p) \cup ToSet(q)
         /\ IsInjective(p \o q) <=>
              IsInjective(p) /\ IsInjective(q) /\ ToSet(p) \cap ToSet(q) = {}
<1> DEFINE m == Len(p)
           n == Len(q)
           s == p \o q
<1>1. /\ m \in Nat /\ n \in Nat /\ s \in Seq(S) /\ Len(s) = m + n
      /\ \A i \in 1 .. m : s[i] = p[i]
      /\ \A j \in 1 .. n : s[m + j] = q[j]
  <2>1. /\ m \in Nat /\ n \in Nat /\ s \in Seq(S) /\ Len(s) = m + n
        /\ \A i \in 1 .. m + n : s[i] = IF i <= m THEN p[i] ELSE q[i - m]
    BY ConcatProperties
  <2>2. \A i \in 1 .. m : s[i] = p[i]
    BY <2>1
  <2>3. ASSUME NEW j \in 1 .. n PROVE s[m + j] = q[j]
    <3>1. m + j \in 1 .. m + n /\ ~(m + j <= m) /\ (m + j) - m = j
      BY <2>1
    <3> QED
      BY <2>1, <3>1
  <2> QED
    BY <2>1, <2>2, <2>3
<1>2. /\ ToSet(p) = {p[i] : i \in 1 .. m} /\ ToSet(q) = {q[j] : j \in 1 .. n}
      /\ ToSet(s) = {s[i] : i \in 1 .. m + n}
  <2>1. ToSet(p) = {p[i] : i \in 1 .. m} /\ ToSet(q) = {q[j] : j \in 1 .. n}
    BY SetOfSeq
  <2> HIDE DEF s
  <2>2. ToSet(s) = {s[i] : i \in 1 .. Len(s)}
    BY <1>1, SetOfSeq
  <2> QED
    BY <1>1, <2>1, <2>2
<1>3. /\ IsInjective(p) <=> \A i, j \in 1 .. m : p[i] = p[j] => i = j
      /\ IsInjective(q) <=> \A i, j \in 1 .. n : q[i] = q[j] => i = j
      /\ IsInjective(s) <=> \A i, j \in 1 .. m + n : s[i] = s[j] => i = j
  BY <1>1, InjectiveSeq
<1> HIDE DEF m, n, s
<1>4. \A i \in 1 .. m + n : i \in 1 .. m \/ \E j \in 1 .. n : i = m + j
  <2> TAKE i \in 1 .. m + n
  <2>1. CASE i <= m
    BY <1>1, <2>1
  <2>2. CASE i > m
    <3>1. i - m \in 1 .. n /\ i = m + (i - m)
      BY <1>1, <2>2
    <3> QED
      BY <3>1
  <2> QED
    BY <1>1, <2>1, <2>2
<1>5. /\ \A i \in 1 .. m : i \in 1 .. m + n
      /\ \A j \in 1 .. n : m + j \in 1 .. m + n
      /\ \A i \in 1 .. m, j \in 1 .. n : i # m + j
      /\ \A i, j \in 1 .. n : m + i = m + j => i = j
  BY <1>1
<1>6. ToSet(s) = ToSet(p) \cup ToSet(q)
  <2>1. ASSUME NEW x \in ToSet(p) PROVE x \in ToSet(s)
    <3>1. PICK i \in 1 .. m : p[i] = x
      BY <1>2
    <3> QED
      BY <1>1, <1>2, <1>5, <3>1
  <2>2. ASSUME NEW x \in ToSet(q) PROVE x \in ToSet(s)
    <3>1. PICK j \in 1 .. n : q[j] = x
      BY <1>2
    <3> QED
      BY <1>1, <1>2, <1>5, <3>1
  <2>3. ASSUME NEW x \in ToSet(s) PROVE x \in ToSet(p) \cup ToSet(q)
    <3>1. PICK i \in 1 .. m + n : s[i] = x
      BY <1>2
    <3>2. CASE i \in 1 .. m
      BY <1>1, <1>2, <3>1, <3>2
    <3>3. CASE \E j \in 1 .. n : i = m + j
      BY <1>1, <1>2, <3>1, <3>3
    <3> QED
      BY <1>4, <3>2, <3>3
  <2> QED
    BY <2>1, <2>2, <2>3
<1>7. ASSUME IsInjective(s)
      PROVE  IsInjective(p) /\ IsInjective(q) /\ ToSet(p) \cap ToSet(q) = {}
  <2>1. IsInjective(p)
    BY <1>1, <1>3, <1>5, <1>7
  <2>2. IsInjective(q)
    BY <1>1, <1>3, <1>5, <1>7
  <2>3. ASSUME NEW x \in ToSet(p), x \in ToSet(q) PROVE FALSE
    <3>1. PICK i \in 1 .. m : p[i] = x
      BY <1>2, <2>3
    <3>2. PICK j \in 1 .. n : q[j] = x
      BY <1>2, <2>3
    <3>3. s[i] = s[m + j] /\ i \in 1 .. m + n /\ m + j \in 1 .. m + n
      BY <1>1, <1>5, <3>1, <3>2
    <3> QED
      BY <1>3, <1>5, <1>7, <3>3
  <2> QED
    BY <2>1, <2>2, <2>3
<1>8. ASSUME IsInjective(p), IsInjective(q), ToSet(p) \cap ToSet(q) = {}
      PROVE  IsInjective(s)
  <2> SUFFICES ASSUME NEW i \in 1 .. m + n, NEW j \in 1 .. m + n, s[i] = s[j]
               PROVE  i = j
    BY <1>3
  <2>1. CASE i \in 1 .. m /\ j \in 1 .. m
    BY <1>1, <1>3, <1>8, <2>1
  <2>2. CASE i \in 1 .. m /\ \E k \in 1 .. n : j = m + k
    BY <1>1, <1>2, <1>8, <2>2
  <2>3. CASE j \in 1 .. m /\ \E k \in 1 .. n : i = m + k
    BY <1>1, <1>2, <1>8, <2>3
  <2>4. CASE (\E k \in 1 .. n : i = m + k) /\ \E k \in 1 .. n : j = m + k
    <3>1. PICK k \in 1 .. n, l \in 1 .. n : i = m + k /\ j = m + l
      BY <2>4
    <3>2. q[k] = q[l]
      BY <1>1, <3>1
    <3> QED
      BY <1>3, <1>8, <3>1, <3>2
  <2> QED
    BY <1>4, <2>1, <2>2, <2>3, <2>4
<1>9. s \in Seq(S)
  BY <1>1
<1> QED
  BY <1>6, <1>7, <1>8, <1>9 DEF s

\* A new element behind.
LEMMA AppendSet ==
  ASSUME NEW S, NEW s \in Seq(S), NEW x \in S
  PROVE  /\ Append(s, x) \in Seq(S) /\ ToSet(Append(s, x)) = ToSet(s) \cup {x}
         /\ IsInjective(s) /\ x \notin ToSet(s) => IsInjective(Append(s, x))
<1> DEFINE e == <<x>>
<1>1. e \in Seq(S) /\ Len(e) = 1 /\ e[1] = x /\ Append(s, x) = s \o e
  OBVIOUS
<1> HIDE DEF e
<1>2. ToSet(e) = {x}
  <2>1. ToSet(e) = {e[i] : i \in 1 .. 1}
    BY <1>1, SetOfSeq
  <2> QED
    BY <1>1, <2>1
<1>3. IsInjective(e)
  BY <1>1, InjectiveSeq
<1> QED
  BY <1>1, <1>2, <1>3, ConcatSet

\* A non-empty set of naturals with an upper bound has a greatest element.
LEMMA BoundedMax ==
  ASSUME NEW M \in Nat, NEW S \in SUBSET (0 .. M), S # {}
  PROVE  Max(S) \in S /\ \A x \in S : x <= Max(S)
<1> DEFINE T == {M - x : x \in S}
<1>1. T \subseteq Nat /\ T # {}
  <2>1. PICK z \in S : TRUE
    OBVIOUS
  <2>2. \A x \in S : M - x \in Nat
    OBVIOUS
  <2>3. M - z \in T
    OBVIOUS
  <2> QED
    BY <2>2, <2>3
<1>2. PICK m \in T : \A y \in T : ~(<<y, m>> \in OpToRel(<, Nat))
  <2> HIDE DEF T
  <2> QED
    BY <1>1, NatLessThanWellFounded, WFMin
<1>3. \A y \in T : ~(y < m)
  BY <1>1, <1>2 DEF OpToRel
<1>4. PICK x \in S : m = M - x
  OBVIOUS
<1>5. \A y \in S : x >= y
  <2> TAKE y \in S
  <2>1. M - y \in T /\ M - y \in Nat /\ m \in Nat
    BY <1>1
  <2>2. ~(M - y < M - x)
    BY <1>3, <1>4, <2>1
  <2>3. x \in Int /\ y \in Int
    OBVIOUS
  <2> QED
    BY <2>2, <2>3
<1>6. Max(S) \in S /\ \A y \in S : Max(S) >= y
  BY <1>5 DEF Max
<1> QED
  BY <1>6

-----------------------------------------------------------------------------
(* Induction.  The theorems of the library take a predicate; these take the *)
(* set of the numbers for which it holds.                                   *)

\* A set of naturals that is not empty has a least element.
LEMMA LeastNatural ==
  ASSUME NEW T, T \subseteq Nat, T # {}
  PROVE  \E x \in T : \A y \in T : x <= y
<1>1. PICK R : R = OpToRel(<, Nat)
  OBVIOUS
<1>2. IsWellFoundedOn(R, Nat)
  BY <1>1, NatLessThanWellFounded
<1>3. \A x, y \in Nat : y < x => <<y, x>> \in R
  BY <1>1 DEF OpToRel
<1>4. PICK x \in T : \A y \in T : ~(<<y, x>> \in R)
  BY ONLY <1>2, T \subseteq Nat, T # {}, WFMin
<1>5. \A y \in T : ~(y < x)
  BY <1>3, <1>4
<1> QED
  BY <1>5

\* What holds of 0, and of each number up to n if it holds of the one before,
\* holds of all of them.
LEMMA UpTo ==
  ASSUME NEW n \in Nat, NEW T, 0 \in T, \A k \in 0 .. n : k \in T /\ k # n => k + 1 \in T
  PROVE  \A k \in 0 .. n : k \in T
<1> DEFINE B == {k \in 0 .. n : k \notin T}
<1>1. ASSUME B # {}
      PROVE  FALSE
  <2>1. B \subseteq Nat
    OBVIOUS
  <2>2. PICK x \in B : \A y \in B : x <= y
    <3> HIDE DEF B
    <3> QED
      BY <1>1, <2>1, LeastNatural
  <2>3. x \in 0 .. n /\ x \notin T /\ x # 0
    OBVIOUS
  <2>4. x - 1 \in 0 .. n /\ x - 1 # n /\ (x - 1) + 1 = x /\ ~(x <= x - 1)
    BY <2>3
  <2>5. x - 1 \in T
    BY <2>2, <2>4
  <2> QED
    BY <2>3, <2>4, <2>5
<1> QED
  BY <1>1

\* What holds of every number if it holds of all smaller ones holds of all.
LEMMA AllNaturals ==
  ASSUME NEW T, \A n \in Nat : (\A k \in Nat : k < n => k \in T) => n \in T
  PROVE  \A n \in Nat : n \in T
<1> DEFINE B == {k \in Nat : k \notin T}
<1>1. ASSUME B # {}
      PROVE  FALSE
  <2>1. B \subseteq Nat
    OBVIOUS
  <2>2. PICK x \in B : \A y \in B : x <= y
    <3> HIDE DEF B
    <3> QED
      BY <1>1, <2>1, LeastNatural
  <2>3. \A k \in Nat : k < x => k \in T
    <3> TAKE k \in Nat
    <3> SUFFICES ASSUME k < x, k \notin T PROVE FALSE
      OBVIOUS
    <3>1. x <= k
      BY <2>2
    <3> QED
      BY <3>1
  <2> QED
    BY <2>3
<1> QED
  BY <1>1

\* The numbers of a finite set can be put in order.
LEMMA OrderExists ==
  ASSUME NEW E \in SUBSET Nat, IsFiniteSet(E)
  PROVE  \E s \in [1 .. Cardinality(E) -> E] : \A i, j \in DOMAIN s : i < j => s[i] < s[j]
<1> DEFINE Ordered(D, s) == s \in [1 .. Cardinality(D) -> D] /\ \A i, j \in DOMAIN s : i < j => s[i] < s[j]
           T == {n \in Nat : \A D \in SUBSET Nat :
                   IsFiniteSet(D) /\ Cardinality(D) = n => \E s : Ordered(D, s)}
<1>1. ASSUME NEW n \in Nat, \A k \in Nat : k < n => k \in T
      PROVE  n \in T
  <2> SUFFICES ASSUME NEW D \in SUBSET Nat, IsFiniteSet(D), Cardinality(D) = n
               PROVE  \E s : Ordered(D, s)
    OBVIOUS
  <2>1. CASE D = {}
    <3>1. Cardinality(D) = 0
      BY <2>1, FS_EmptySet
    <3> DEFINE s == [i \in 1 .. Cardinality(D) |-> 0]
    <3>2. 1 .. Cardinality(D) = {}
      BY <3>1
    <3>3. Ordered(D, s)
      BY <3>2
    <3> HIDE DEF s, Ordered
    <3> QED
      BY <3>3
  <2>2. CASE D # {}
    <3>1. PICK d \in D : \A y \in D : d <= y
      BY <2>2, LeastNatural
    <3> DEFINE C == D \ {d}
    <3>2. IsFiniteSet(C) /\ Cardinality(C) = n - 1 /\ Cardinality(C) \in Nat
      BY FS_RemoveElement, FS_CardinalityType
    <3>3. n - 1 \in Nat /\ n - 1 < n
      BY <3>2
    <3>4. n - 1 \in T
      BY <1>1, <3>3
    <3>5. PICK r : Ordered(C, r)
      BY <3>2, <3>4
    <3> DEFINE s == [i \in 1 .. n |-> IF i = 1 THEN d ELSE r[i - 1]]
    <3>6. r \in [1 .. n - 1 -> C] /\ \A i, j \in 1 .. n - 1 : i < j => r[i] < r[j]
      BY <3>2, <3>5
    <3>7. \A i \in 1 .. n : i = 1 \/ i - 1 \in 1 .. n - 1
      BY <3>3
    <3>8. s \in [1 .. n -> D]
      BY <3>6, <3>7
    <3>9. ASSUME NEW i \in 1 .. n, NEW j \in 1 .. n, i < j
          PROVE  s[i] < s[j]
      <4>1. j # 1 /\ j - 1 \in 1 .. n - 1
        BY <3>7, <3>9
      <4>2. r[j - 1] \in C /\ s[j] = r[j - 1]
        BY <3>6, <4>1
      <4>3. CASE i = 1
        <5>1. s[i] = d
          BY <4>3
        <5>2. s[j] \in D /\ s[j] # d
          BY <4>2
        <5> HIDE DEF s, C
        <5>3. d <= s[j]
          BY <3>1, <5>2
        <5>4. d \in Nat /\ s[j] \in Nat
          BY <5>2
        <5> QED
          BY <5>1, <5>2, <5>3, <5>4
      <4>4. CASE i # 1
        <5>1. i - 1 \in 1 .. n - 1 /\ i - 1 < j - 1
          BY <3>7, <3>9, <4>4
        <5>2. r[i - 1] < r[j - 1]
          BY <3>6, <4>1, <5>1
        <5> QED
          BY <4>2, <4>4, <5>2
      <4> QED
        BY <4>3, <4>4
    <3>10. DOMAIN s = 1 .. n
      OBVIOUS
    <3>11. Ordered(D, s)
      <4> HIDE DEF s
      <4> QED
        BY ONLY <3>8, <3>9, <3>10, Cardinality(D) = n
    <3> HIDE DEF s, Ordered
    <3> QED
      BY <3>11
  <2> QED
    BY <2>1, <2>2
<1> HIDE DEF T
<1>2. \A n \in Nat : n \in T
  BY <1>1, AllNaturals
<1>3. Cardinality(E) \in T
  BY <1>2, FS_CardinalityType
<1> QED
  BY <1>3 DEF T

\* A list of numbers in their order, as long as its set, has each of them once.
LEMMA OrderIsBijection ==
  ASSUME NEW D \in SUBSET Nat, IsFiniteSet(D), NEW s \in [1 .. Cardinality(D) -> D],
         \A i, j \in DOMAIN s : i < j => s[i] < s[j]
  PROVE  /\ \A i, j \in DOMAIN s : s[i] = s[j] => i = j
         /\ \A d \in D : \E i \in DOMAIN s : s[i] = d
<1> DEFINE n == Cardinality(D)
<1>1. n \in Nat
  BY FS_CardinalityType
<1>2. \A i \in 1 .. n : s[i] \in Nat
  OBVIOUS
<1>3. \A i, j \in 1 .. n : s[i] = s[j] => i = j
  <2> SUFFICES ASSUME NEW i \in 1 .. n, NEW j \in 1 .. n, s[i] = s[j], i # j
               PROVE  FALSE
    OBVIOUS
  <2>1. i < j \/ j < i
    OBVIOUS
  <2>2. s[i] < s[j] \/ s[j] < s[i]
    BY <2>1
  <2> QED
    BY <1>2, <2>2
<1>4. s \in Injection(1 .. n, D)
  BY <1>3 DEF Injection, IsInjective
<1>5. IsFiniteSet(1 .. n) /\ Cardinality(1 .. n) = n
  BY <1>1, FS_Interval
<1>6. s \in Surjection(1 .. n, D)
  BY <1>4, <1>5, FS_Injection
<1>7. \A d \in D : \E i \in 1 .. n : s[i] = d
  BY <1>6 DEF Surjection
<1> QED
  BY <1>3, <1>7
=============================================================================
