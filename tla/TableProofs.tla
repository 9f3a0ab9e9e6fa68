----------------------------- MODULE TableProofs -----------------------------
(***************************************************************************)
(* npserver's register table: what its operations do to it, whatever the    *)
(* registers, devices and places are; and its worker, however many tasks:   *)
(* the table stays sound, and it counts what clients hold.                  *)
(***************************************************************************)
EXTENDS ProtocolWorker, Lemmas

-----------------------------------------------------------------------------
(* Loops.                                                                   *)

\* There is a function that runs a loop.
LEMMA LoopExists ==
  ASSUME NEW op, NEW t, NEW s, NEW n \in Nat
  PROVE  \E f : f = [i \in 0 .. n |-> IF i = 0 THEN t ELSE One(op, f[i - 1], s[i])]
<1> DEFINE Loops(f, k) == f = [i \in 0 .. k |-> IF i = 0 THEN t ELSE One(op, f[i - 1], s[i])]
           T == {k \in Nat : \E f : Loops(f, k)}
<1>1. 0 \in T
  <2> DEFINE f == [i \in 0 .. 0 |-> t]
  <2>1. Loops(f, 0)
    OBVIOUS
  <2> QED
    BY <2>1
<1>2. ASSUME NEW k \in Nat, k \in T
      PROVE  k + 1 \in T
  <2>1. PICK f : Loops(f, k)
    BY <1>2
  <2> DEFINE g == [i \in 0 .. k + 1 |-> IF i = k + 1 THEN One(op, f[k], s[k + 1]) ELSE f[i]]
             G == [i \in 0 .. k + 1 |-> IF i = 0 THEN t ELSE One(op, g[i - 1], s[i])]
  <2>2. ASSUME NEW i \in 0 .. k + 1 PROVE g[i] = G[i]
    <3>1. CASE i = k + 1
      <4>1. i - 1 = k /\ k \in 0 .. k + 1 /\ k # k + 1 /\ i # 0
        BY <3>1
      <4>2. g[i] = One(op, f[k], s[i]) /\ g[k] = f[k]
        BY <3>1, <4>1
      <4>3. G[i] = One(op, g[k], s[i])
        BY <4>1
      <4> QED
        BY <4>2, <4>3
    <3>2. CASE i # k + 1 /\ i # 0
      <4>1. i \in 0 .. k /\ i - 1 \in 0 .. k + 1 /\ i - 1 # k + 1
        BY <3>2
      <4>2. g[i] = f[i] /\ g[i - 1] = f[i - 1]
        BY <3>2, <4>1
      <4>3. f[i] = One(op, f[i - 1], s[i])
        BY <2>1, <3>2, <4>1
      <4>4. G[i] = One(op, g[i - 1], s[i])
        BY <3>2
      <4> QED
        BY <4>2, <4>3, <4>4
    <3>3. CASE i = 0
      <4>1. g[i] = f[0] /\ G[i] = t
        BY <3>3
      <4>2. f[0] = t
        BY <2>1
      <4> QED
        BY <3>3, <4>1, <4>2
    <3> QED
      BY <3>1, <3>2, <3>3
  <2>3. g = G
    <3>1. DOMAIN g = 0 .. k + 1 /\ DOMAIN G = 0 .. k + 1
      OBVIOUS
    <3>2. g = [i \in 0 .. k + 1 |-> g[i]] /\ G = [i \in 0 .. k + 1 |-> G[i]]
      OBVIOUS
    <3> HIDE DEF g, G
    <3> QED
      BY <2>2, <3>2
  <2>4. Loops(g, k + 1)
    BY <2>3
  <2> HIDE DEF g, G, Loops
  <2>5. \E h : Loops(h, k + 1)
    BY <2>4
  <2> QED
    BY <2>5
<1> HIDE DEF T
<1>3. \A k \in 0 .. n : k \in T
  BY <1>1, <1>2, UpTo
<1> QED
  BY <1>3 DEF T

\* Each runs its operation for one element after the other.
LEMMA EachRuns ==
  ASSUME NEW op, NEW t, NEW s, Len(s) \in Nat
  PROVE  \E f : /\ f[0] = t
                /\ \A i \in 1 .. Len(s) : f[i] = One(op, f[i - 1], s[i])
                /\ f[Len(s)] = Each(op, t, s)
<1> DEFINE f == CHOOSE f : f = [i \in 0 .. Len(s) |-> IF i = 0 THEN t ELSE One(op, f[i - 1], s[i])]
<1>1. f = [i \in 0 .. Len(s) |-> IF i = 0 THEN t ELSE One(op, f[i - 1], s[i])]
  BY LoopExists
<1>2. f[Len(s)] = Each(op, t, s)
  BY DEF Each
<1> HIDE DEF f
<1> QED
  BY <1>1, <1>2

-----------------------------------------------------------------------------
(* The order of a row.                                                      *)

\* Before puts the registers of a device in a strict order.
LEMMA BeforeOrder ==
  ASSUME NEW g \in Handles, NEW h \in Handles, NEW k \in Handles
  PROVE  /\ ~Before(g, g)
         /\ Before(g, h) /\ Before(h, k) => Before(g, k)
         /\ g.dev_addr = h.dev_addr /\ g # h => Before(g, h) \/ Before(h, g)
<1>1. \A x \in Handles : x \in [dev_addr : Nat \ {0}, mem_addr : Nat, size : 1 .. 5]
  BY RegisterAssumption
<1>2. /\ g.mem_addr \in Nat /\ h.mem_addr \in Nat /\ k.mem_addr \in Nat
      /\ g.size \in Nat /\ h.size \in Nat /\ k.size \in Nat
  BY <1>1
<1>3. g.dev_addr = h.dev_addr /\ g.mem_addr = h.mem_addr /\ g.size = h.size => g = h
  BY <1>1
<1> QED
  BY <1>2, <1>3 DEF Before

\* A set of numbers that has with each one all smaller ones is an interval.
LEMMA Prefix ==
  ASSUME NEW n \in Nat, NEW B \in SUBSET (1 .. n),
         \A i \in B : \A j \in 1 .. n : j < i => j \in B
  PROVE  B = 1 .. Cardinality(B) /\ Cardinality(B) \in 0 .. n
<1> DEFINE T == {i \in 1 .. n + 1 : i \notin B}
<1>1. T \subseteq Nat /\ n + 1 \in T
  OBVIOUS
<1>2. PICK m \in T : \A y \in T : m <= y
  <2> HIDE DEF T
  <2> QED
    BY <1>1, LeastNatural
<1>3. m \in 1 .. n + 1 /\ m \notin B /\ m - 1 \in 0 .. n
  OBVIOUS
<1>4. \A i \in 1 .. n : i < m => i \in B
  <2> SUFFICES ASSUME NEW i \in 1 .. n, i < m, i \notin B
               PROVE  FALSE
    OBVIOUS
  <2>1. i \in T
    OBVIOUS
  <2>2. m <= i
    BY <1>2, <2>1
  <2> QED
    BY <1>3, <2>2
<1>5. \A i \in B : i < m
  <2> SUFFICES ASSUME NEW i \in B, ~(i < m)
               PROVE  FALSE
    OBVIOUS
  <2>1. i \in 1 .. n /\ i # m /\ m < i
    BY <1>3
  <2>2. m \in 1 .. n
    BY <1>3, <2>1
  <2> QED
    BY <1>3, <2>1, <2>2
<1>6. B = 1 .. m - 1
  <2>1. \A i \in 1 .. m - 1 : i \in 1 .. n /\ i < m
    BY <1>3
  <2>2. \A i \in 1 .. n : i < m => i \in 1 .. m - 1
    BY <1>3
  <2> QED
    BY <1>4, <1>5, <2>1, <2>2
<1>7. Cardinality(1 .. m - 1) = m - 1
  BY <1>3, FS_Interval
<1> QED
  BY <1>3, <1>6, <1>7

-----------------------------------------------------------------------------
(* A sound table.                                                           *)
Registers ==
  [handle : Handles \cup {NoHandle}, op_value : Values \cup {Garbage},
   op_available : {"unknown", "available", "not_responded"}, ref_cnt : Int]

TableShape(t) ==
  /\ DOMAIN t = {"reg", "pool", "row", "req", "tag_changed", "valid", "advc", "req_ix"}
  /\ t.reg \in [Places -> Registers]
  /\ t.pool \in Seq(Places) /\ IsInjective(t.pool)
  /\ t.row \in [Devices -> Seq(Places)]
  /\ DOMAIN t.req = Devices
  /\ t.tag_changed \subseteq Devices /\ t.valid \subseteq Devices

\* Every place is free or in the row of its register's device.
EachPlace(t) ==
  /\ \A p \in Places :
       /\ p \in ToSet(t.pool) <=> t.reg[p].handle = NoHandle
       /\ t.reg[p].handle # NoHandle => p \in ToSet(t.row[t.reg[p].handle.dev_addr])
  /\ \A d \in Devices : \A i \in 1 .. Len(t.row[d]) :
       t.reg[t.row[d][i]].handle \in Handles /\ t.reg[t.row[d][i]].handle.dev_addr = d

Sound(t) == TableShape(t) /\ EachPlace(t) /\ RowsSorted(t)

\* A register has a device, and NoHandle is none.
LEMMA HandleFields ==
  ASSUME NEW h \in Handles
  PROVE  h.dev_addr \in Devices /\ h # NoHandle
<1>1. h \in [dev_addr : Nat \ {0}, mem_addr : Nat, size : 1 .. 5]
  BY RegisterAssumption
<1>2. h.dev_addr \in Nat \ {0}
  BY <1>1
<1>3. NoHandle.dev_addr = 0
  BY DEF NoHandle
<1> QED
  BY <1>2, <1>3 DEF Devices

\* lower_bound: before its position a row has the smaller registers.
LEMMA PositionIs ==
  ASSUME NEW t, Sound(t), NEW h \in Handles
  PROVE  /\ Position(t, h) \in 1 .. Len(t.row[h.dev_addr]) + 1
         /\ \A i \in 1 .. Len(t.row[h.dev_addr]) :
              i < Position(t, h) <=> Before(t.reg[t.row[h.dev_addr][i]].handle, h)
<1> DEFINE s == t.row[h.dev_addr]
           n == Len(s)
           key(i) == t.reg[s[i]].handle
           B == {i \in DOMAIN s : Before(key(i), h)}
<1>1. h.dev_addr \in Devices
  BY HandleFields
<1>2. s \in Seq(Places) /\ n \in Nat /\ DOMAIN s = 1 .. n
  BY <1>1 DEF Sound, TableShape
<1>3. \A i \in 1 .. n : key(i) \in Handles
  BY <1>1 DEF Sound, EachPlace
<1>4. \A i, j \in 1 .. n : i < j => Before(key(i), key(j))
  BY <1>1, <1>2 DEF Sound, RowsSorted
<1>5. Position(t, h) = 1 + Cardinality(B)
  BY DEF Position
<1> HIDE DEF s, n, key
<1>6. \A i \in B : \A j \in 1 .. n : j < i => j \in B
  <2> TAKE i \in B
  <2> TAKE j \in 1 .. n
  <2> HAVE j < i
  <2>1. i \in 1 .. n /\ Before(key(i), h)
    BY <1>2
  <2>2. Before(key(j), key(i))
    BY <1>4, <2>1
  <2>3. Before(key(j), h)
    BY <1>3, <2>1, <2>2, BeforeOrder
  <2> QED
    BY <1>2, <2>3
<1>7. B \in SUBSET (1 .. n)
  BY <1>2
<1>8. B = 1 .. Cardinality(B) /\ Cardinality(B) \in 0 .. n
  <2> HIDE DEF B
  <2> QED
    BY <1>2, <1>6, <1>7, Prefix
<1>9. \A i \in 1 .. n : i \in B <=> Before(key(i), h)
  BY <1>2
<1> HIDE DEF B
<1>10. PICK c \in 0 .. n : c = Cardinality(B)
  BY <1>8
<1>11. 1 + c \in 1 .. n + 1 /\ \A i \in 1 .. n : i < 1 + c <=> i \in 1 .. c
  BY <1>2, <1>10
<1> QED
  BY <1>5, <1>8, <1>9, <1>10, <1>11 DEF s, n, key

\* binary_find finds a register if and only if it has a place, and it has one.
LEMMA LookUp ==
  ASSUME NEW t, Sound(t), NEW h \in Handles
  PROVE  /\ Found(t, h) \in BOOLEAN
         /\ Found(t, h) <=> \E p \in Places : t.reg[p].handle = h
         /\ Found(t, h) => /\ PlaceOf(t, h) \in Places /\ t.reg[PlaceOf(t, h)].handle = h
                           /\ PlaceOf(t, h) \in ToSet(t.row[h.dev_addr])
         /\ \A p \in Places : t.reg[p].handle = h => p = PlaceOf(t, h)
<1> DEFINE s == t.row[h.dev_addr]
           n == Len(s)
           key(i) == t.reg[s[i]].handle
<1>1. h.dev_addr \in Devices /\ h # NoHandle
  BY HandleFields
<1>2. s \in Seq(Places) /\ n \in Nat /\ DOMAIN s = 1 .. n
  BY <1>1 DEF Sound, TableShape
<1>3. \A i \in 1 .. n : key(i) \in Handles /\ key(i).dev_addr = h.dev_addr
  BY <1>1 DEF Sound, EachPlace
<1>4. \A i, j \in 1 .. n : i < j => Before(key(i), key(j))
  BY <1>1, <1>2 DEF Sound, RowsSorted
<1>5. PICK k : k = Position(t, h)
  OBVIOUS
<1>6. k \in 1 .. n + 1 /\ \A i \in 1 .. n : i < k <=> Before(key(i), h)
  BY <1>5, PositionIs
<1>7. (Found(t, h) <=> k <= n /\ key(k) = h) /\ PlaceOf(t, h) = s[k]
  BY <1>5 DEF Found, PlaceOf
<1>8. ToSet(s) = {s[i] : i \in 1 .. n} /\ \A i \in 1 .. n : s[i] \in Places
  BY <1>2, SetOfSeq
<1> HIDE DEF s, n, key
<1>9. ASSUME NEW i \in 1 .. n, key(i) = h
      PROVE  i = k /\ k <= n
  <2>1. ~(i < k)
    BY <1>3, <1>6, <1>9, BeforeOrder
  <2>2. k <= n /\ k \in 1 .. n /\ (i # k => k < i)
    BY <1>2, <1>6, <2>1
  <2>3. ~(k < i)
    <3> SUFFICES ASSUME k < i PROVE FALSE
      OBVIOUS
    <3>1. Before(key(k), h)
      BY <1>4, <1>9, <2>2
    <3>2. k < k
      BY <1>6, <2>2, <3>1
    <3> QED
      BY <1>6, <3>2
  <2> QED
    BY <2>2, <2>3
<1>10. ASSUME NEW p \in Places, t.reg[p].handle = h
       PROVE  k \in 1 .. n /\ key(k) = h /\ p = s[k]
  <2>1. p \in ToSet(s)
    BY <1>1, <1>10 DEF Sound, EachPlace, s
  <2>2. PICK i \in 1 .. n : p = s[i]
    BY <1>8, <2>1
  <2>3. key(i) = h
    BY <1>10, <2>2 DEF key
  <2> QED
    BY <1>9, <2>2, <2>3
<1>11. ASSUME k <= n, key(k) = h
       PROVE  s[k] \in Places /\ t.reg[s[k]].handle = h /\ s[k] \in ToSet(s)
  <2>1. k \in 1 .. n
    BY <1>2, <1>6, <1>11
  <2> QED
    BY <1>8, <1>11, <2>1 DEF key
<1>12. Found(t, h) \in BOOLEAN
  BY DEF Found
<1>13. \A i \in 1 .. n : i <= n
  BY <1>2
<1> QED
  BY <1>7, <1>10, <1>11, <1>12, <1>13 DEF s

\* A table stays sound when no handle is changed.
LEMMA SameHandles ==
  ASSUME NEW t, Sound(t), NEW u, TableShape(u), u.pool = t.pool, u.row = t.row,
         \A p \in Places : u.reg[p].handle = t.reg[p].handle
  PROVE  Sound(u)
<1>1. EachPlace(t) /\ RowsSorted(t) /\ TableShape(t)
  BY DEF Sound
<1>2. \A d \in Devices : \A i \in 1 .. Len(t.row[d]) : t.row[d][i] \in Places
  BY <1>1 DEF TableShape
<1>3. EachPlace(u)
  BY <1>1, <1>2 DEF EachPlace
<1>4. \A d \in Devices : DOMAIN t.row[d] = 1 .. Len(t.row[d])
  BY <1>1 DEF TableShape
<1>5. RowsSorted(u)
  BY <1>1, <1>2, <1>4 DEF RowsSorted
<1> QED
  BY <1>3, <1>5 DEF Sound

\* A register is found at the same place while that place keeps its handle
\* and no other place gets it.
LEMMA SamePlace ==
  ASSUME NEW t, Sound(t), NEW u, Sound(u), NEW h \in Handles,
         \A p \in Places : u.reg[p].handle = h <=> t.reg[p].handle = h
  PROVE  /\ Found(u, h) <=> Found(t, h)
         /\ Found(t, h) => PlaceOf(u, h) = PlaceOf(t, h)
<1>1. /\ Found(t, h) <=> \E p \in Places : t.reg[p].handle = h
      /\ Found(t, h) => PlaceOf(t, h) \in Places /\ t.reg[PlaceOf(t, h)].handle = h
  BY LookUp
<1>2. /\ Found(u, h) <=> \E p \in Places : u.reg[p].handle = h
      /\ \A p \in Places : u.reg[p].handle = h => p = PlaceOf(u, h)
  BY LookUp
<1> QED
  BY <1>1, <1>2

\* A count is changed.
CountSet(t, p, c) == [t EXCEPT !.reg = [t.reg EXCEPT ![p] = [t.reg[p] EXCEPT !.ref_cnt = c]]]

\* It changes nothing else.
LEMMA CountChanged ==
  ASSUME NEW t, Sound(t), NEW p \in Places, NEW c \in Int,
         NEW u, u = CountSet(t, p, c)
  PROVE  /\ Sound(u)
         /\ u.pool = t.pool /\ u.row = t.row /\ u.tag_changed = t.tag_changed /\ u.valid = t.valid
         /\ u.reg[p].ref_cnt = c /\ u.reg[p].handle = t.reg[p].handle
         /\ \A q \in Places : q # p => u.reg[q] = t.reg[q]
<1>1. TableShape(t) /\ t.reg \in [Places -> Registers] /\ t.reg[p] \in Registers
  BY DEF Sound, TableShape
<1>2. PICK r : r = [t.reg[p] EXCEPT !.ref_cnt = c]
  OBVIOUS
<1>3. r \in Registers /\ r.ref_cnt = c /\ r.handle = t.reg[p].handle
  BY <1>1, <1>2 DEF Registers
<1>4. /\ DOMAIN u = DOMAIN t /\ u.reg = [t.reg EXCEPT ![p] = r]
      /\ u.pool = t.pool /\ u.row = t.row /\ u.req = t.req
      /\ u.tag_changed = t.tag_changed /\ u.valid = t.valid
  BY <1>1, <1>2 DEF TableShape, CountSet
<1>5. u.reg \in [Places -> Registers] /\ u.reg[p] = r /\ \A q \in Places : q # p => u.reg[q] = t.reg[q]
  BY <1>1, <1>3, <1>4
<1>6. TableShape(u)
  BY ONLY <1>1, <1>4, <1>5 DEF TableShape
<1>7. \A q \in Places : u.reg[q].handle = t.reg[q].handle
  BY <1>3, <1>5
<1>8. Sound(u)
  BY ONLY <1>4, <1>6, <1>7, SameHandles, Sound(t)
<1> QED
  BY <1>3, <1>4, <1>5, <1>8

\* An element is inserted into a row.
LEMMA Inserted ==
  ASSUME NEW S, NEW s \in Seq(S), NEW k \in 1 .. Len(s) + 1, NEW e \in S
  PROVE  /\ InsertAt(s, k, e) \in Seq(S) /\ Len(InsertAt(s, k, e)) = Len(s) + 1
         /\ \A i \in 1 .. Len(s) + 1 :
              InsertAt(s, k, e)[i] = IF i < k THEN s[i] ELSE IF i = k THEN e ELSE s[i - 1]
<1> DEFINE n == Len(s)
           a == SubSeq(s, 1, k - 1)
           b == <<e>>
           c == SubSeq(s, k, n)
<1>1. n \in Nat /\ k \in Nat /\ k >= 1 /\ k <= n + 1
  OBVIOUS
<1>2. /\ a \in Seq(S) /\ Len(a) = k - 1 /\ \A i \in 1 .. k - 1 : a[i] = s[i]
  <2>1. \A i \in 1 .. k - 1 : s[i] \in S
    OBVIOUS
  <2> QED
    BY <1>1, <2>1
<1>3. /\ c \in Seq(S) /\ Len(c) = (n - k) + 1 /\ \A i \in 1 .. (n - k) + 1 : c[i] = s[(k + i) - 1]
  <2>1. k \in 1 .. Len(s) + 1 /\ n \in k - 1 .. Len(s)
    BY <1>1
  <2>2. /\ c \in Seq(S) /\ Len(c) = IF k <= n THEN n - k + 1 ELSE 0
        /\ \A i \in 1 .. n - k + 1 : c[i] = s[k + i - 1]
    BY <2>1, SubSeqProperties
  <2> QED
    BY <1>1, <2>2
<1>4. b \in Seq(S) /\ Len(b) = 1 /\ b[1] = e
  OBVIOUS
<1> HIDE DEF a, b, c
<1>5. /\ a \o b \in Seq(S) /\ Len(a \o b) = k
      /\ \A i \in 1 .. k : (a \o b)[i] = IF i < k THEN s[i] ELSE e
  <2>1. /\ a \o b \in Seq(S) /\ Len(a \o b) = Len(a) + Len(b)
        /\ \A i \in 1 .. Len(a) + Len(b) : (a \o b)[i] = IF i <= Len(a) THEN a[i] ELSE b[i - Len(a)]
    BY <1>2, <1>4, ConcatProperties
  <2>2. Len(a) + Len(b) = k
    BY <1>1, <1>2, <1>4
  <2>3. ASSUME NEW i \in 1 .. k
        PROVE  (a \o b)[i] = IF i < k THEN s[i] ELSE e
    <3>1. CASE i < k
      BY <1>1, <1>2, <2>1, <2>2, <3>1
    <3>2. CASE i = k
      <4>1. i - Len(a) = 1 /\ ~(i <= Len(a))
        BY <1>1, <1>2, <3>2
      <4> QED
        BY <1>4, <2>1, <2>2, <3>2, <4>1
    <3>3. i < k \/ i = k
      BY <1>1
    <3> QED
      BY <3>1, <3>2, <3>3
  <2> QED
    BY <2>1, <2>2, <2>3
<1> DEFINE r == (a \o b) \o c
<1>6. /\ r \in Seq(S) /\ Len(r) = n + 1
      /\ \A i \in 1 .. n + 1 : r[i] = IF i <= k THEN (a \o b)[i] ELSE c[i - k]
  <2> DEFINE ab == a \o b
  <2>1. ab \in Seq(S) /\ Len(ab) = k
    BY <1>5
  <2> HIDE DEF ab
  <2>2. /\ ab \o c \in Seq(S) /\ Len(ab \o c) = Len(ab) + Len(c)
        /\ \A i \in 1 .. Len(ab) + Len(c) : (ab \o c)[i] = IF i <= Len(ab) THEN ab[i] ELSE c[i - Len(ab)]
    BY <1>3, <2>1, ConcatProperties
  <2>3. Len(ab) + Len(c) = n + 1
    BY <1>1, <1>3, <2>1
  <2> QED
    BY <2>1, <2>2, <2>3 DEF ab
<1>7. InsertAt(s, k, e) = r
  BY DEF InsertAt, a, b, c
<1> HIDE DEF r
<1>8. ASSUME NEW i \in 1 .. n + 1
      PROVE  r[i] = IF i < k THEN s[i] ELSE IF i = k THEN e ELSE s[i - 1]
  <2>1. CASE i <= k
    <3>1. i \in 1 .. k /\ (i < k \/ i = k) /\ ~(i < k /\ i = k)
      BY <1>1, <2>1
    <3>2. r[i] = (a \o b)[i]
      BY <1>6, <2>1
    <3>3. (a \o b)[i] = IF i < k THEN s[i] ELSE e
      BY <1>5, <3>1
    <3> QED
      BY <3>1, <3>2, <3>3
  <2>2. CASE ~(i <= k)
    <3>1. i - k \in 1 .. (n - k) + 1 /\ (k + (i - k)) - 1 = i - 1 /\ ~(i < k) /\ i # k
      BY <1>1, <2>2
    <3> QED
      BY <1>3, <1>6, <2>2, <3>1
  <2> QED
    BY <2>1, <2>2
<1> QED
  BY <1>6, <1>7, <1>8

-----------------------------------------------------------------------------
(* The elements of a list at some of its places.                            *)

\* InOrder puts a finite set of numbers in order.
LEMMA InOrderIsOrder ==
  ASSUME NEW D \in SUBSET Nat, IsFiniteSet(D)
  PROVE  /\ InOrder(D) \in [1 .. Cardinality(D) -> D] /\ Cardinality(D) \in Nat
         /\ \A i, j \in 1 .. Cardinality(D) : i < j => InOrder(D)[i] < InOrder(D)[j]
         /\ \A i, j \in 1 .. Cardinality(D) : InOrder(D)[i] = InOrder(D)[j] => i = j
         /\ \A d \in D : \E i \in 1 .. Cardinality(D) : InOrder(D)[i] = d
<1>1. Cardinality(D) \in Nat
  BY FS_CardinalityType
<1>2. \E s \in [1 .. Cardinality(D) -> D] : \A i, j \in DOMAIN s : i < j => s[i] < s[j]
  BY OrderExists
<1>3. /\ InOrder(D) \in [1 .. Cardinality(D) -> D]
      /\ \A i, j \in DOMAIN InOrder(D) : i < j => InOrder(D)[i] < InOrder(D)[j]
  BY <1>2 DEF InOrder
<1>4. DOMAIN InOrder(D) = 1 .. Cardinality(D)
  BY <1>3
<1>5. /\ \A i, j \in DOMAIN InOrder(D) : InOrder(D)[i] = InOrder(D)[j] => i = j
      /\ \A d \in D : \E i \in DOMAIN InOrder(D) : InOrder(D)[i] = d
  BY <1>3, OrderIsBijection
<1> QED
  BY <1>1, <1>3, <1>4, <1>5

\* m leads from the places of what is picked to those of the list.
PickedBy(s, I, m) ==
  /\ m \in [1 .. Cardinality(I) -> I]
  /\ \A k \in 1 .. Cardinality(I) : Picked(s, I)[k] = s[m[k]]
  /\ \A i, j \in 1 .. Cardinality(I) : i < j => m[i] < m[j]
  /\ \A i, j \in 1 .. Cardinality(I) : m[i] = m[j] => i = j
  /\ \A d \in I : \E i \in 1 .. Cardinality(I) : m[i] = d

\* What is picked from a list are its elements at the places of I, each once
\* and in their order.
LEMMA PickedElements ==
  ASSUME NEW S, NEW s \in Seq(S), NEW I \in SUBSET (1 .. Len(s))
  PROVE  /\ Picked(s, I) \in Seq(S) /\ IsFiniteSet(I) /\ Len(Picked(s, I)) = Cardinality(I)
         /\ \E m : PickedBy(s, I, m)
<1> DEFINE n == Cardinality(I)
<1>1. I \in SUBSET Nat /\ IsFiniteSet(I)
  <2>1. Len(s) \in Nat
    OBVIOUS
  <2>2. IsFiniteSet(1 .. Len(s))
    BY <2>1, FS_Interval
  <2>3. 1 .. Len(s) \subseteq Nat
    BY <2>1
  <2> QED
    BY <2>2, <2>3, FS_Subset
<1>2. PICK m : m = InOrder(I)
  OBVIOUS
<1>3. /\ m \in [1 .. n -> I] /\ n \in Nat
      /\ \A i, j \in 1 .. n : i < j => m[i] < m[j]
      /\ \A i, j \in 1 .. n : m[i] = m[j] => i = j
      /\ \A d \in I : \E i \in 1 .. n : m[i] = d
  BY <1>1, <1>2, InOrderIsOrder
<1>4. Picked(s, I) = [k \in 1 .. n |-> s[m[k]]]
  <2>1. DOMAIN m = 1 .. n
    BY <1>3
  <2> QED
    BY <1>2, <2>1 DEF Picked
<1>5. \A k \in 1 .. n : s[m[k]] \in S
  <2> TAKE k \in 1 .. n
  <2>1. m[k] \in 1 .. Len(s)
    BY <1>3
  <2> QED
    BY <2>1
<1>6. Picked(s, I) \in Seq(S) /\ Len(Picked(s, I)) = n
  <2>1. Picked(s, I) \in [1 .. n -> S]
    BY <1>4, <1>5
  <2> HIDE DEF n
  <2> QED
    BY <1>3, <2>1
<1> QED
  <2>1. \A k \in 1 .. n : Picked(s, I)[k] = s[m[k]]
    BY <1>4
  <2> HIDE DEF n
  <2>2. PickedBy(s, I, m)
    BY <1>3, <2>1 DEF PickedBy, n
  <2> QED
    BY <1>1, <1>6, <2>2 DEF n

\* The same as a set.
LEMMA PickedSet ==
  ASSUME NEW S, NEW s \in Seq(S), NEW I \in SUBSET (1 .. Len(s))
  PROVE  ToSet(Picked(s, I)) = {s[i] : i \in I}
<1> DEFINE r == Picked(s, I)
           n == Cardinality(I)
<1>1. r \in Seq(S) /\ Len(r) = n
  BY PickedElements
<1>2. PICK m \in [1 .. n -> I] :
        /\ \A k \in 1 .. n : r[k] = s[m[k]]
        /\ \A d \in I : \E i \in 1 .. n : m[i] = d
  <2>1. PICK m : PickedBy(s, I, m)
    BY PickedElements
  <2> QED
    BY <2>1 DEF PickedBy
<1> HIDE DEF r, n
<1>3. ToSet(r) = {r[k] : k \in 1 .. n}
  BY <1>1, SetOfSeq
<1>4. {r[k] : k \in 1 .. n} \subseteq {s[i] : i \in I}
  <2> SUFFICES ASSUME NEW k \in 1 .. n
               PROVE  r[k] \in {s[i] : i \in I}
    OBVIOUS
  <2>1. m[k] \in I /\ r[k] = s[m[k]]
    BY <1>2
  <2> QED
    BY <2>1
<1>5. {s[i] : i \in I} \subseteq {r[k] : k \in 1 .. n}
  <2> SUFFICES ASSUME NEW i \in I
               PROVE  s[i] \in {r[k] : k \in 1 .. n}
    OBVIOUS
  <2>1. PICK k \in 1 .. n : m[k] = i
    BY <1>2
  <2>2. r[k] = s[i]
    BY <1>2, <2>1
  <2> QED
    BY <2>2
<1> QED
  BY <1>3, <1>4, <1>5 DEF r

\* SetToSeq lists the elements of a finite set, each once.
LEMMA SetAsSeq ==
  ASSUME NEW S, IsFiniteSet(S)
  PROVE  /\ SetToSeq(S) \in [1 .. Cardinality(S) -> S] /\ Cardinality(S) \in Nat
         /\ SetToSeq(S) \in Seq(S) /\ Len(SetToSeq(S)) = Cardinality(S)
         /\ \A i, j \in 1 .. Cardinality(S) : SetToSeq(S)[i] = SetToSeq(S)[j] => i = j
         /\ \A x \in S : \E i \in 1 .. Cardinality(S) : SetToSeq(S)[i] = x
<1> DEFINE n == Cardinality(S)
<1>1. n \in Nat /\ ExistsBijection(1 .. n, S)
  BY FS_CardinalityType
<1>2. \E f \in [1 .. n -> S] : IsInjective(f)
  BY <1>1 DEF ExistsBijection, Bijection, Injection
<1> DEFINE s == SetToSeq(S)
<1>3. s \in [1 .. n -> S] /\ IsInjective(s)
  BY <1>2 DEF SetToSeq
<1> HIDE DEF s
<1>4. \A i, j \in 1 .. n : s[i] = s[j] => i = j
  BY <1>3 DEF IsInjective
<1>5. s \in Injection(1 .. n, S)
  BY <1>3, <1>4 DEF Injection, IsInjective
<1>6. IsFiniteSet(1 .. n) /\ Cardinality(1 .. n) = n
  BY <1>1, FS_Interval
<1>7. s \in Surjection(1 .. n, S)
  BY <1>5, <1>6, FS_Injection
<1>8. \A x \in S : \E i \in 1 .. n : s[i] = x
  BY <1>7 DEF Surjection
<1>9. s \in Seq(S) /\ Len(s) = n
  <2> HIDE DEF n
  <2> QED
    BY <1>1, <1>3
<1> QED
  BY <1>1, <1>3, <1>4, <1>8, <1>9 DEF s

-----------------------------------------------------------------------------
(* add_register.                                                            *)

\* A new register takes the next free place and its position in its row.
LEMMA RegisterMade ==
  ASSUME NEW t, Sound(t), NEW h \in Handles, ~Found(t, h), t.pool # <<>>,
         NEW u, u = AddOne(t, h)
  PROVE  /\ Sound(u)
         /\ u.pool = Tail(t.pool) /\ u.tag_changed = t.tag_changed \cup {h.dev_addr}
         /\ u.valid = t.valid
         /\ Head(t.pool) \in Places /\ t.reg[Head(t.pool)].handle = NoHandle
         /\ u.reg[Head(t.pool)].handle = h /\ u.reg[Head(t.pool)].ref_cnt = 1
         /\ \A q \in Places : q # Head(t.pool) => u.reg[q] = t.reg[q]
         /\ \A d \in Devices : d # h.dev_addr => u.row[d] = t.row[d]
<1> DEFINE d == h.dev_addr
           p == Head(t.pool)
           s == t.row[d]
           n == Len(s)
           k == Position(t, h)
           r == InsertAt(s, k, p)
           key(i) == t.reg[s[i]].handle
<1>1. TableShape(t) /\ EachPlace(t) /\ RowsSorted(t) /\ d \in Devices /\ h # NoHandle
  BY HandleFields DEF Sound
<1>2. /\ t.reg \in [Places -> Registers] /\ t.row \in [Devices -> Seq(Places)]
      /\ s \in Seq(Places) /\ n \in Nat /\ DOMAIN s = 1 .. n
  BY <1>1 DEF TableShape
<1>3. /\ p \in ToSet(t.pool) /\ Tail(t.pool) \in Seq(Places) /\ IsInjective(Tail(t.pool))
      /\ ToSet(Tail(t.pool)) = ToSet(t.pool) \ {p}
  BY <1>1, TailSet DEF TableShape
<1>4. p \in Places /\ t.reg[p].handle = NoHandle
  <2>1. p \in Places
    BY <1>1, <1>3, SetOfSeq DEF TableShape
  <2> QED
    BY <1>1, <1>3, <2>1 DEF EachPlace
<1>5. /\ k \in 1 .. n + 1
      /\ \A i \in 1 .. n : i < k <=> Before(key(i), h)
  BY PositionIs
<1>6. /\ r \in Seq(Places) /\ Len(r) = n + 1
      /\ \A i \in 1 .. n + 1 : r[i] = IF i < k THEN s[i] ELSE IF i = k THEN p ELSE s[i - 1]
  <2> HIDE DEF p, k, s
  <2> QED
    BY <1>2, <1>4, <1>5, Inserted
<1>7. u = [t EXCEPT !.pool = Tail(@),
                    !.reg[p] = [@ EXCEPT !.handle = h, !.ref_cnt = 1, !.op_available = "unknown"],
                    !.row[d] = r,
                    !.tag_changed = @ \cup {d}]
  BY DEF AddOne
<1>8. /\ DOMAIN u = DOMAIN t /\ u.pool = Tail(t.pool) /\ u.valid = t.valid /\ u.req = t.req
      /\ u.tag_changed = t.tag_changed \cup {d}
      /\ u.row = [t.row EXCEPT ![d] = r]
      /\ u.reg = [t.reg EXCEPT ![p] = [@ EXCEPT !.handle = h, !.ref_cnt = 1, !.op_available = "unknown"]]
  <2> HIDE DEF d, p, r
  <2> QED
    BY <1>1, <1>7 DEF TableShape
<1> HIDE DEF d, p, s, n, k, r, key
<1>9. /\ u.reg[p].handle = h /\ u.reg[p].ref_cnt = 1 /\ u.reg[p] \in Registers
      /\ \A q \in Places : q # p => u.reg[q] = t.reg[q]
  <2>1. \A q \in Places : q # p => u.reg[q] = t.reg[q]
    BY <1>2, <1>8
  <2>2. u.reg[p] = [t.reg[p] EXCEPT !.handle = h, !.ref_cnt = 1, !.op_available = "unknown"]
    BY <1>2, <1>4, <1>8
  <2>3. PICK x \in Registers : x = t.reg[p]
    BY <1>2, <1>4
  <2>4. [x EXCEPT !.handle = h, !.ref_cnt = 1, !.op_available = "unknown"] \in Registers
    <3>1. PICK y \in Registers : y = [x EXCEPT !.handle = h]
      BY ONLY x \in Registers, h \in Handles DEF Registers
    <3>2. PICK z \in Registers : z = [y EXCEPT !.ref_cnt = 1]
      <4>1. PICK c \in Int : c = 1
        OBVIOUS
      <4>2. [y EXCEPT !.ref_cnt = c] \in Registers
        BY ONLY y \in Registers, c \in Int DEF Registers
      <4> QED
        BY ONLY <4>1, <4>2
    <3>3. [z EXCEPT !.op_available = "unknown"] \in Registers
      BY ONLY z \in Registers DEF Registers
    <3>4. [x EXCEPT !.handle = h, !.ref_cnt = 1, !.op_available = "unknown"]
            = [[[x EXCEPT !.handle = h] EXCEPT !.ref_cnt = 1] EXCEPT !.op_available = "unknown"]
      BY ONLY x \in Registers DEF Registers
    <3> QED
      BY ONLY <3>1, <3>2, <3>3, <3>4
  <2>5. /\ [x EXCEPT !.handle = h, !.ref_cnt = 1, !.op_available = "unknown"].handle = h
        /\ [x EXCEPT !.handle = h, !.ref_cnt = 1, !.op_available = "unknown"].ref_cnt = 1
    BY DEF Registers
  <2> QED
    BY <2>1, <2>2, <2>3, <2>4, <2>5
<1>10. u.reg \in [Places -> Registers]
  BY <1>2, <1>8, <1>9
<1>11. /\ u.row \in [Devices -> Seq(Places)] /\ u.row[d] = r
       /\ \A e \in Devices : e # d => u.row[e] = t.row[e]
  BY <1>1, <1>2, <1>6, <1>8
<1>12. TableShape(u)
  BY <1>1, <1>3, <1>8, <1>10, <1>11 DEF TableShape
<1>13. \A i \in 1 .. n : key(i) \in Handles /\ key(i).dev_addr = d /\ s[i] \in Places /\ s[i] # p
  <2> TAKE i \in 1 .. n
  <2>1. key(i) \in Handles /\ key(i).dev_addr = d
    BY <1>1 DEF EachPlace, key, s, n
  <2>2. s[i] \in Places
    BY <1>2
  <2>3. s[i] # p
    BY <1>4, <2>1, HandleFields DEF key
  <2> QED
    BY <2>1, <2>2, <2>3
<1>14. \A i \in 1 .. n + 1 :
         /\ i < k => i \in 1 .. n /\ r[i] = s[i]
         /\ i = k => r[i] = p
         /\ k < i => i - 1 \in 1 .. n /\ r[i] = s[i - 1] /\ ~(i - 1 < k)
         /\ i < k \/ i = k \/ k < i
  <2> TAKE i \in 1 .. n + 1
  <2>1. /\ i < k => i \in 1 .. n
        /\ k < i => i - 1 \in 1 .. n /\ ~(i - 1 < k) /\ ~(i < k) /\ i # k
        /\ i < k \/ i = k \/ k < i
        /\ i = k => ~(i < k)
    BY <1>2, <1>5
  <2> QED
    BY <1>6, <2>1
<1>15. \A i \in 1 .. n : \E j \in 1 .. n + 1 : r[j] = s[i]
  <2> TAKE i \in 1 .. n
  <2>1. CASE i < k
    <3>1. i \in 1 .. n + 1
      BY <1>2
    <3> QED
      BY <1>14, <2>1, <3>1
  <2>2. CASE ~(i < k)
    <3>1. i + 1 \in 1 .. n + 1 /\ k < i + 1 /\ (i + 1) - 1 = i
      BY <1>2, <1>5, <2>2
    <3> QED
      BY <1>14, <3>1
  <2> QED
    BY <2>1, <2>2
<1>16. ToSet(r) = {r[i] : i \in 1 .. n + 1} /\ ToSet(s) = {s[i] : i \in 1 .. n}
  BY <1>2, <1>6, SetOfSeq DEF n
<1>17. p \in ToSet(r) /\ ToSet(s) \subseteq ToSet(r)
  BY <1>5, <1>14, <1>15, <1>16
<1>18. EachPlace(u)
  <2>1. ASSUME NEW q \in Places
        PROVE  /\ q \in ToSet(u.pool) <=> u.reg[q].handle = NoHandle
               /\ u.reg[q].handle # NoHandle => q \in ToSet(u.row[u.reg[q].handle.dev_addr])
    <3>1. CASE q = p
      <4>1. q \notin ToSet(u.pool) /\ u.reg[q].handle = h
        BY <1>3, <1>8, <1>9, <3>1
      <4>2. u.reg[q].handle.dev_addr = d
        BY <4>1 DEF d
      <4> QED
        BY <1>1, <1>11, <1>17, <3>1, <4>1, <4>2
    <3>2. CASE q # p
      <4>1. u.reg[q].handle = t.reg[q].handle
        BY <1>9, <3>2
      <4>2. q \in ToSet(u.pool) <=> q \in ToSet(t.pool)
        BY <1>3, <1>8, <3>2
      <4>3. q \in ToSet(t.pool) <=> t.reg[q].handle = NoHandle
        BY <1>1 DEF EachPlace
      <4>4. ASSUME t.reg[q].handle # NoHandle
            PROVE  q \in ToSet(u.row[t.reg[q].handle.dev_addr])
        <5>1. t.reg[q].handle.dev_addr \in Devices
          <6>1. t.reg[q].handle \in Handles
            BY <1>2, <4>4 DEF Registers
          <6> QED
            BY <6>1, HandleFields
        <5>2. q \in ToSet(t.row[t.reg[q].handle.dev_addr])
          BY <1>1, <4>4 DEF EachPlace
        <5> QED
          BY <1>11, <1>17, <5>1, <5>2 DEF s
      <4> QED
        BY <4>1, <4>2, <4>3, <4>4
    <3> QED
      BY <3>1, <3>2
  <2>2. ASSUME NEW e \in Devices, NEW i \in 1 .. Len(u.row[e])
        PROVE  u.reg[u.row[e][i]].handle \in Handles /\ u.reg[u.row[e][i]].handle.dev_addr = e
    <3>1. CASE e # d
      <4>1. u.row[e] = t.row[e]
        BY <1>11, <3>1
      <4>2. t.row[e][i] \in Places /\ t.reg[t.row[e][i]].handle \in Handles
            /\ t.reg[t.row[e][i]].handle.dev_addr = e
        BY <1>1, <1>2, <2>2, <4>1 DEF EachPlace
      <4>3. t.row[e][i] # p
        BY <1>4, <4>2, HandleFields
      <4> QED
        BY <1>9, <4>1, <4>2, <4>3
    <3>2. CASE e = d
      <4>1. u.row[e] = r /\ i \in 1 .. n + 1
        BY <1>6, <1>11, <2>2, <3>2
      <4>2. CASE i = k
        <5>1. h.dev_addr = d
          BY DEF d
        <5> QED
          BY <1>9, <1>14, <3>2, <4>1, <4>2, <5>1
      <4>3. CASE i # k
        <5>1. PICK j \in 1 .. n : r[i] = s[j]
          BY <1>14, <4>1, <4>3
        <5>2. u.reg[s[j]] = t.reg[s[j]]
          BY <1>9, <1>13
        <5> QED
          BY <1>13, <3>2, <4>1, <5>1, <5>2 DEF key
      <4> QED
        BY <4>2, <4>3
    <3> QED
      BY <3>1, <3>2
  <2> QED
    BY <2>1, <2>2 DEF EachPlace
<1>19. RowsSorted(u)
  <2> SUFFICES ASSUME NEW e \in Devices, NEW i \in DOMAIN u.row[e], NEW j \in DOMAIN u.row[e], i < j
               PROVE  Before(u.reg[u.row[e][i]].handle, u.reg[u.row[e][j]].handle)
    BY DEF RowsSorted
  <2>1. CASE e # d
    <3>1. u.row[e] = t.row[e] /\ DOMAIN t.row[e] = 1 .. Len(t.row[e])
      BY <1>2, <1>11, <2>1
    <3>2. \A m \in 1 .. Len(t.row[e]) : t.row[e][m] \in Places /\ t.reg[t.row[e][m]].handle \in Handles
      BY <1>1, <1>2 DEF EachPlace
    <3>3. \A m \in 1 .. Len(t.row[e]) : u.reg[t.row[e][m]] = t.reg[t.row[e][m]]
      BY <1>4, <1>9, <3>2, HandleFields
    <3> QED
      BY <1>1, <3>1, <3>3 DEF RowsSorted
  <2>2. CASE e = d
    <3> DEFINE K(m) == u.reg[r[m]].handle
    <3>1. u.row[e] = r /\ DOMAIN r = 1 .. n + 1
      BY <1>6, <1>11, <2>2
    <3>2. i \in 1 .. n + 1 /\ j \in 1 .. n + 1
      BY <3>1
    <3>3. \A m \in 1 .. n : u.reg[s[m]].handle = key(m)
      BY <1>9, <1>13 DEF key
    <3>4. \A m \in 1 .. n + 1 : /\ m < k => K(m) = key(m) /\ m \in 1 .. n
                                /\ m = k => K(m) = h
                                /\ k < m => K(m) = key(m - 1) /\ m - 1 \in 1 .. n /\ ~(m - 1 < k)
      BY <1>9, <1>14, <3>3
    <3>5. \A a, b \in 1 .. n : a < b => Before(key(a), key(b))
      BY <1>1, <1>2 DEF RowsSorted, key, s
    <3>6. \A a \in 1 .. n : ~(a < k) => Before(h, key(a))
      <4> TAKE a \in 1 .. n
      <4> HAVE ~(a < k)
      <4>1. ~Before(key(a), h)
        BY <1>5
      <4>2. key(a) # h
        BY <1>13, LookUp DEF key
      <4>3. h.dev_addr = d
        BY DEF d
      <4> QED
        BY <1>13, <4>1, <4>2, <4>3, BeforeOrder
    <3>7. Before(K(i), K(j))
      <4> HIDE DEF K
      <4>1. CASE j < k
        <5>1. i < k
          BY <1>5, <3>2, <4>1
        <5> QED
          BY <3>2, <3>4, <3>5, <4>1, <5>1
      <4>2. CASE j = k
        <5>1. i < k
          BY <1>5, <3>2, <4>2
        <5> QED
          BY <1>5, <3>2, <3>4, <4>2, <5>1
      <4>3. CASE k < j /\ i < k
        <5>1. i < j - 1
          BY <1>5, <3>2, <4>3
        <5> QED
          BY <3>2, <3>4, <3>5, <4>3, <5>1
      <4>4. CASE k < j /\ i = k
        BY <3>2, <3>4, <3>6, <4>4
      <4>5. CASE k < j /\ k < i
        <5>1. i - 1 < j - 1
          BY <3>2
        <5> QED
          BY <3>2, <3>4, <3>5, <4>5, <5>1
      <4> QED
        BY <1>14, <3>2, <4>1, <4>2, <4>3, <4>4, <4>5
    <3> QED
      BY <3>1, <3>7
  <2> QED
    BY <2>1, <2>2
<1> QED
  BY <1>4, <1>8, <1>9, <1>11, <1>12, <1>18, <1>19 DEF Sound, d, p

\* The count of a register that is found.
Counted(t, h) == t.reg[PlaceOf(t, h)].ref_cnt

\* A count is a number.
LEMMA CountedType ==
  ASSUME NEW t, Sound(t), NEW h \in Handles, Found(t, h)
  PROVE  Counted(t, h) \in Int
<1>1. PlaceOf(t, h) \in Places
  BY LookUp
<1>2. t.reg[PlaceOf(t, h)] \in Registers
  BY <1>1 DEF Sound, TableShape
<1> QED
  BY <1>2 DEF Registers, Counted

\* A register's count is changed: nothing else is.
LEMMA CountedBy ==
  ASSUME NEW t, Sound(t), NEW h \in Handles, Found(t, h), NEW k \in Int,
         NEW u, u = CountBy(t, h, k)
  PROVE  /\ Sound(u) /\ u.valid = t.valid
         /\ u.pool = t.pool /\ u.row = t.row /\ u.tag_changed = t.tag_changed
         /\ Counted(u, h) = Counted(t, h) + k
         /\ \A g \in Handles :
              /\ Found(u, g) <=> Found(t, g)
              /\ Found(t, g) => PlaceOf(u, g) = PlaceOf(t, g)
              /\ Found(t, g) /\ g # h => Counted(u, g) = Counted(t, g)
<1> DEFINE p == PlaceOf(t, h)
           c == t.reg[p].ref_cnt + k
<1>1. p \in Places /\ t.reg[p].handle = h
  BY LookUp
<1>2. c \in Int
  BY CountedType DEF Counted
<1>3. u = CountSet(t, p, c)
  <2>1. t.reg[p] \in Registers /\ DOMAIN t = {"reg", "pool", "row", "req", "tag_changed", "valid", "advc", "req_ix"}
    BY <1>1 DEF Sound, TableShape
  <2> QED
    BY <2>1 DEF CountBy, CountSet
<1> HIDE DEF p, c
<1>4. /\ Sound(u)
      /\ u.pool = t.pool /\ u.row = t.row /\ u.tag_changed = t.tag_changed /\ u.valid = t.valid
      /\ u.reg[p].ref_cnt = c
      /\ \A q \in Places : q # p => u.reg[q] = t.reg[q]
      /\ u.reg[p].handle = t.reg[p].handle
  BY ONLY <1>1, <1>2, <1>3, CountChanged, Sound(t)
<1>8. ASSUME NEW g \in Handles
      PROVE  /\ Found(u, g) <=> Found(t, g)
             /\ Found(t, g) => PlaceOf(u, g) = PlaceOf(t, g)
  <2>1. \A q \in Places : u.reg[q].handle = g <=> t.reg[q].handle = g
    BY <1>4
  <2> QED
    BY ONLY <1>4, <2>1, SamePlace, Sound(t), g \in Handles
<1>5. ASSUME NEW g \in Handles, g # h, Found(t, g)
      PROVE  PlaceOf(u, g) = PlaceOf(t, g) /\ Counted(u, g) = Counted(t, g)
  <2>1. PlaceOf(t, g) \in Places /\ t.reg[PlaceOf(t, g)].handle = g
    BY <1>5, LookUp
  <2>2. PlaceOf(t, g) # p
    BY <1>1, <1>5, <2>1
  <2> QED
    BY <1>4, <1>5, <1>8, <2>1, <2>2 DEF Counted
<1>6. Found(u, h) /\ PlaceOf(u, h) = p /\ Counted(u, h) = c
  BY <1>4, <1>8 DEF Counted, p
<1>7. c = Counted(t, h) + k
  BY DEF c, p, Counted
<1> QED
  BY ONLY <1>4, <1>5, <1>6, <1>7, <1>8 DEF p

\* add_register counts one register once more, or makes it.
LEMMA OneAdded ==
  ASSUME NEW t, Sound(t), NEW h \in Handles, Found(t, h) \/ t.pool # <<>>,
         NEW u, u = AddOne(t, h)
  PROVE  /\ Sound(u) /\ u.valid = t.valid /\ Found(u, h)
         /\ Counted(u, h) = IF Found(t, h) THEN Counted(t, h) + 1 ELSE 1
         /\ Found(t, h) => /\ u.pool = t.pool /\ u.row = t.row /\ u.tag_changed = t.tag_changed
                           /\ PlaceOf(u, h) = PlaceOf(t, h)
         /\ ~Found(t, h) => /\ Len(t.pool) \in Nat /\ Len(u.pool) = Len(t.pool) - 1
                            /\ u.tag_changed = t.tag_changed \cup {h.dev_addr}
                            /\ \A d \in Devices : d # h.dev_addr => u.row[d] = t.row[d]
         /\ \A g \in Handles : g # h =>
              /\ Found(u, g) <=> Found(t, g)
              /\ Found(t, g) => PlaceOf(u, g) = PlaceOf(t, g) /\ Counted(u, g) = Counted(t, g)
<1>1. CASE Found(t, h)
  <2>1. u = CountBy(t, h, 1)
    BY <1>1 DEF AddOne
  <2>2. /\ Sound(u) /\ u.valid = t.valid
        /\ u.pool = t.pool /\ u.row = t.row /\ u.tag_changed = t.tag_changed
        /\ Counted(u, h) = Counted(t, h) + 1
        /\ \A g \in Handles :
             /\ Found(u, g) <=> Found(t, g)
             /\ Found(t, g) => PlaceOf(u, g) = PlaceOf(t, g)
             /\ Found(t, g) /\ g # h => Counted(u, g) = Counted(t, g)
    BY ONLY <1>1, <2>1, CountedBy, Sound(t), h \in Handles
  <2> QED
    BY ONLY <1>1, <2>2, h \in Handles
<1>2. CASE ~Found(t, h)
  <2> DEFINE p == Head(t.pool)
  <2>1. t.pool # <<>>
    BY <1>2
  <2>2. /\ Sound(u)
        /\ u.pool = Tail(t.pool) /\ u.tag_changed = t.tag_changed \cup {h.dev_addr}
        /\ u.valid = t.valid
        /\ p \in Places /\ t.reg[p].handle = NoHandle
        /\ u.reg[p].handle = h /\ u.reg[p].ref_cnt = 1
        /\ \A q \in Places : q # p => u.reg[q] = t.reg[q]
        /\ \A d \in Devices : d # h.dev_addr => u.row[d] = t.row[d]
    BY <1>2, <2>1, RegisterMade
  <2> HIDE DEF p
  <2>3. Found(u, h) /\ PlaceOf(u, h) = p
    BY <2>2, LookUp
  <2>4. Counted(u, h) = 1
    BY <2>2, <2>3 DEF Counted
  <2>5. ASSUME NEW g \in Handles, g # h
        PROVE  /\ Found(u, g) <=> Found(t, g)
               /\ Found(t, g) => PlaceOf(u, g) = PlaceOf(t, g) /\ Counted(u, g) = Counted(t, g)
    <3>1. \A q \in Places : u.reg[q].handle = g <=> t.reg[q].handle = g
      BY <2>2, <2>5, HandleFields
    <3>2. /\ Found(u, g) <=> Found(t, g)
          /\ Found(t, g) => PlaceOf(u, g) = PlaceOf(t, g)
      BY ONLY <2>2, <3>1, SamePlace, Sound(t), g \in Handles
    <3>3. Found(t, g) => PlaceOf(t, g) \in Places /\ PlaceOf(t, g) # p
      BY <2>2, LookUp, HandleFields
    <3> QED
      BY <2>2, <3>2, <3>3 DEF Counted
  <2>6. Len(t.pool) \in Nat /\ Len(Tail(t.pool)) = Len(t.pool) - 1
    BY <2>1 DEF Sound, TableShape
  <2> QED
    BY ONLY <1>2, <2>2, <2>3, <2>4, <2>5, <2>6
<1> QED
  BY <1>1, <1>2

\* How often an element is among the first k ones of a list.
Among(hs, k, g) == Cardinality({i \in 1 .. k : hs[i] = g})

\* The next one of a list counts for itself.
LEMMA AmongNext ==
  ASSUME NEW hs, NEW g, NEW k \in Nat
  PROVE  /\ Among(hs, k, g) \in Nat
         /\ Among(hs, k + 1, g) = Among(hs, k, g) + IF hs[k + 1] = g THEN 1 ELSE 0
         /\ Among(hs, 0, g) = 0
<1> DEFINE A == {i \in 1 .. k : hs[i] = g}
           B == {i \in 1 .. k + 1 : hs[i] = g}
<1>1. IsFiniteSet(A) /\ Cardinality(A) \in Nat
  <2>1. A \subseteq 1 .. k /\ IsFiniteSet(1 .. k)
    BY FS_Interval
  <2>2. IsFiniteSet(A)
    BY <2>1, FS_Subset
  <2> QED
    BY <2>2, FS_CardinalityType
<1>2. \A i \in 1 .. k + 1 : i \in 1 .. k \/ i = k + 1
  OBVIOUS
<1>3. \A i \in 1 .. k : i \in 1 .. k + 1 /\ i # k + 1
  OBVIOUS
<1>4. k + 1 \in 1 .. k + 1
  OBVIOUS
<1>8. Among(hs, k, g) = Cardinality(A) /\ Among(hs, k + 1, g) = Cardinality(B)
  BY DEF Among
<1>5. ASSUME hs[k + 1] = g
      PROVE  Among(hs, k + 1, g) = Among(hs, k, g) + 1
  <2>1. B = A \cup {k + 1} /\ k + 1 \notin A
    BY <1>2, <1>3, <1>4, <1>5
  <2> HIDE DEF A, B
  <2>2. Cardinality(B) = Cardinality(A) + 1
    BY <1>1, <2>1, FS_AddElement
  <2> QED
    BY <1>5, <1>8, <2>2
<1>6. ASSUME hs[k + 1] # g
      PROVE  Among(hs, k + 1, g) = Among(hs, k, g)
  <2>1. B = A
    BY <1>2, <1>3, <1>6
  <2> HIDE DEF A, B
  <2> QED
    BY <1>1, <1>6, <1>8, <2>1
<1>7. Among(hs, 0, g) = 0
  <2>1. {i \in 1 .. 0 : hs[i] = g} = {}
    OBVIOUS
  <2> QED
    BY <2>1, FS_EmptySet DEF Among
<1> QED
  BY <1>1, <1>5, <1>6, <1>7, <1>8

\* How often a register is counted, if it is there.
Total(t, h) == IF Found(t, h) THEN Counted(t, h) ELSE 0

\* The first k of the registers hs were added to t.
AddedUpTo(t, hs, k, u) ==
  /\ Sound(u) /\ u.valid = t.valid /\ t.tag_changed \subseteq u.tag_changed
  /\ Cardinality({h \in ToSet(hs) : ~Found(u, h)}) <= Len(u.pool)
  /\ \A d \in Devices : u.row[d] = t.row[d] \/ d \in u.tag_changed
  /\ (\A h \in ToSet(hs) : Found(t, h)) => u.row = t.row
  /\ \A g \in Handles :
       /\ Found(u, g) <=> Found(t, g) \/ \E i \in 1 .. k : hs[i] = g
       /\ Found(t, g) => PlaceOf(u, g) = PlaceOf(t, g)
       /\ Total(u, g) = Total(t, g) + Among(hs, k, g)

\* A register that is not there is not counted.
LEMMA TotalType ==
  ASSUME NEW t, Sound(t), NEW h \in Handles
  PROVE  Total(t, h) \in Int
BY CountedType DEF Total

\* One more register of the list.
LEMMA AddedNext ==
  ASSUME NEW t, Sound(t), NEW hs \in Seq(Handles), NEW k \in 0 .. Len(hs), k # Len(hs),
         NEW u, AddedUpTo(t, hs, k, u), NEW w, w = AddOne(u, hs[k + 1])
  PROVE  AddedUpTo(t, hs, k + 1, w)
<1> DEFINE h == hs[k + 1]
           Missing(x) == {g \in ToSet(hs) : ~Found(x, g)}
<1>1. k \in Nat /\ k + 1 \in 1 .. Len(hs) /\ h \in Handles
  OBVIOUS
<1>2. h \in ToSet(hs) /\ ToSet(hs) \subseteq Handles
  BY <1>1, SetOfSeq
<1>3. IsFiniteSet(ToSet(hs))
  BY <1>2, RegisterAssumption, FS_Subset
<1>4. IsFiniteSet(Missing(u)) /\ Cardinality(Missing(u)) \in Nat
  <2>1. Missing(u) \subseteq ToSet(hs)
    OBVIOUS
  <2>2. IsFiniteSet(Missing(u))
    BY <1>3, <2>1, FS_Subset
  <2> QED
    BY <2>2, FS_CardinalityType
<1>5. Sound(u) /\ Cardinality(Missing(u)) <= Len(u.pool) /\ Len(u.pool) \in Nat /\ u.pool \in Seq(Places)
  BY DEF AddedUpTo, Sound, TableShape
<1> HIDE DEF h, Missing
<1>6. ~Found(u, h) => /\ Missing(u) # {} /\ h \in Missing(u)
                      /\ Cardinality(Missing(u) \ {h}) = Cardinality(Missing(u)) - 1
  <2> SUFFICES ASSUME ~Found(u, h)
               PROVE  h \in Missing(u) /\ Cardinality(Missing(u) \ {h}) = Cardinality(Missing(u)) - 1
    OBVIOUS
  <2>1. h \in Missing(u)
    BY <1>2 DEF Missing
  <2> QED
    BY <1>4, <2>1, FS_RemoveElement
<1>7. Found(u, h) \/ u.pool # <<>>
  <2> SUFFICES ASSUME ~Found(u, h), u.pool = <<>>
               PROVE  FALSE
    OBVIOUS
  <2>1. Len(u.pool) = 0
    OBVIOUS
  <2>2. Cardinality(Missing(u)) = 0
    BY <1>4, <1>5, <2>1
  <2> QED
    BY <1>4, <1>6, <2>2, FS_EmptySet
<1>8. w = AddOne(u, h)
  BY DEF h
<1>9. /\ Sound(w) /\ w.valid = u.valid /\ Found(w, h)
      /\ Counted(w, h) = IF Found(u, h) THEN Counted(u, h) + 1 ELSE 1
      /\ Found(u, h) => /\ w.pool = u.pool /\ w.row = u.row /\ w.tag_changed = u.tag_changed
                        /\ PlaceOf(w, h) = PlaceOf(u, h)
      /\ ~Found(u, h) => /\ Len(w.pool) = Len(u.pool) - 1
                         /\ w.tag_changed = u.tag_changed \cup {h.dev_addr}
                         /\ \A d \in Devices : d # h.dev_addr => w.row[d] = u.row[d]
      /\ \A g \in Handles : g # h =>
           /\ Found(w, g) <=> Found(u, g)
           /\ Found(u, g) => PlaceOf(w, g) = PlaceOf(u, g) /\ Counted(w, g) = Counted(u, g)
  BY <1>1, <1>5, <1>7, <1>8, OneAdded DEF h
<1>10. Missing(w) = Missing(u) \ {h}
  BY <1>2, <1>9 DEF Missing
<1>11. Cardinality(Missing(w)) <= Len(w.pool)
  <2>1. CASE Found(u, h)
    <3>1. Missing(w) = Missing(u)
      BY <1>10, <2>1 DEF Missing
    <3> QED
      BY <1>5, <1>9, <2>1, <3>1
  <2>2. CASE ~Found(u, h)
    <3>1. Cardinality(Missing(w)) = Cardinality(Missing(u)) - 1
      BY <1>6, <1>10, <2>2
    <3>2. Len(w.pool) = Len(u.pool) - 1
      BY <1>9, <2>2
    <3> QED
      BY <1>4, <1>5, <3>1, <3>2
  <2> QED
    BY <2>1, <2>2
<1>12. w.valid = t.valid /\ t.tag_changed \subseteq w.tag_changed
  BY <1>9 DEF AddedUpTo
<1>13. \A d \in Devices : w.row[d] = t.row[d] \/ d \in w.tag_changed
  BY <1>9 DEF AddedUpTo
<1>14. (\A g \in ToSet(hs) : Found(t, g)) => w.row = t.row
  <2> SUFFICES ASSUME \A g \in ToSet(hs) : Found(t, g)
               PROVE  w.row = t.row
    OBVIOUS
  <2>1. Found(u, h) /\ u.row = t.row
    BY <1>1, <1>2 DEF AddedUpTo
  <2> QED
    BY <1>9, <2>1
<1>15. ASSUME NEW g \in Handles
       PROVE  /\ Found(w, g) <=> Found(t, g) \/ \E i \in 1 .. k + 1 : hs[i] = g
              /\ Found(t, g) => PlaceOf(w, g) = PlaceOf(t, g)
              /\ Total(w, g) = Total(t, g) + Among(hs, k + 1, g)
  <2>1. /\ Found(u, g) <=> Found(t, g) \/ \E i \in 1 .. k : hs[i] = g
        /\ Found(t, g) => PlaceOf(u, g) = PlaceOf(t, g)
        /\ Total(u, g) = Total(t, g) + Among(hs, k, g)
    BY DEF AddedUpTo
  <2>2. (\E i \in 1 .. k + 1 : hs[i] = g) <=> (\E i \in 1 .. k : hs[i] = g) \/ h = g
    <3>1. \A i \in 1 .. k + 1 : i \in 1 .. k \/ i = k + 1
      BY <1>1
    <3>2. (\A i \in 1 .. k : i \in 1 .. k + 1) /\ k + 1 \in 1 .. k + 1
      BY <1>1
    <3> QED
      BY <3>1, <3>2 DEF h
  <2>3. /\ Among(hs, k, g) \in Nat
        /\ Among(hs, k + 1, g)
             = Among(hs, k, g) + IF h = g THEN 1 ELSE 0
    <3>1. k \in Nat
      BY <1>1
    <3>2. /\ Among(hs, k, g) \in Nat
          /\ Among(hs, k + 1, g)
               = Among(hs, k, g) + IF hs[k + 1] = g THEN 1 ELSE 0
      BY ONLY <3>1, AmongNext
    <3> QED
      BY ONLY <3>2 DEF h
  <2>4. Total(t, g) \in Int /\ Total(u, g) \in Int
    BY <1>5, TotalType
  <2>5. Found(w, g) <=> Found(u, g) \/ h = g
    BY <1>9
  <2>6. Found(u, g) => PlaceOf(w, g) = PlaceOf(u, g)
    BY <1>9
  <2>7. Total(w, g) = Total(u, g) + IF h = g THEN 1 ELSE 0
    <3>1. CASE h = g /\ Found(u, g)
      BY <1>9, <3>1 DEF Total
    <3>2. CASE h = g /\ ~Found(u, g)
      BY <1>9, <3>2 DEF Total
    <3>3. CASE h # g
      <4>1. Total(w, g) = Total(u, g)
        BY <1>9, <3>3 DEF Total
      <4> QED
        BY <2>4, <3>3, <4>1
    <3> QED
      BY <3>1, <3>2, <3>3
  <2>8. Total(w, g) = Total(t, g) + Among(hs, k + 1, g)
    <3>1. PICK m : m = Among(hs, k, g)
      OBVIOUS
    <3>2. PICK e : e = IF h = g THEN 1 ELSE 0
      OBVIOUS
    <3>3. e \in Int /\ m \in Int /\ Total(w, g) = (Total(t, g) + m) + e
      BY <2>1, <2>3, <2>7, <3>1, <3>2
    <3>4. Among(hs, k + 1, g) = m + e
      BY <2>3, <3>1, <3>2
    <3> QED
      BY ONLY <2>4, <3>3, <3>4
  <2> QED
    BY <2>1, <2>2, <2>5, <2>6, <2>8
<1> QED
  BY <1>9, <1>11, <1>12, <1>13, <1>14, <1>15 DEF AddedUpTo, Missing

\* The loop of t_add_registers counts each register as often as it is asked
\* for, and moves none.
LEMMA AllAdded ==
  ASSUME NEW t, Sound(t), NEW hs \in Seq(Handles),
         Cardinality({h \in ToSet(hs) : ~Found(t, h)}) <= Len(t.pool),
         NEW u, u = Each("add", t, hs)
  PROVE  AddedUpTo(t, hs, Len(hs), u)
<1> DEFINE n == Len(hs)
<1>1. n \in Nat
  OBVIOUS
<1>2. PICK f : /\ f[0] = t
               /\ \A i \in 1 .. n : f[i] = One("add", f[i - 1], hs[i])
               /\ f[n] = Each("add", t, hs)
  BY <1>1, EachRuns
<1> DEFINE T == {k \in 0 .. n : AddedUpTo(t, hs, k, f[k])}
<1>3. 0 \in T
  <2>2. \A g : Among(hs, 0, g) = 0
    BY AmongNext
  <2>3. \A g \in Handles : Total(t, g) = Total(t, g) + Among(hs, 0, g)
    <3> TAKE g \in Handles
    <3>1. Total(t, g) \in Int
      BY TotalType
    <3> QED
      BY <2>2, <3>1
  <2>4. \A i \in 1 .. 0 : FALSE
    OBVIOUS
  <2>5. AddedUpTo(t, hs, 0, t)
    BY <2>3, <2>4 DEF AddedUpTo
  <2> QED
    BY <1>1, <1>2, <2>5
<1>4. ASSUME NEW k \in 0 .. n, k \in T, k # n
      PROVE  k + 1 \in T
  <2>1. k + 1 \in 1 .. n /\ (k + 1) - 1 = k /\ k + 1 \in 0 .. n
    BY <1>1, <1>4
  <2>2. f[k + 1] = AddOne(f[k], hs[k + 1])
    <3>1. f[k + 1] = One("add", f[k], hs[k + 1])
      BY <1>2, <2>1
    <3> QED
      BY <3>1 DEF One
  <2>3. AddedUpTo(t, hs, k, f[k])
    BY <1>4
  <2>4. AddedUpTo(t, hs, k + 1, f[k + 1])
    BY <1>4, <2>2, <2>3, AddedNext
  <2> QED
    BY <2>1, <2>4
<1> HIDE DEF T
<1>5. \A k \in 0 .. n : k \in T
  BY <1>1, <1>3, <1>4, UpTo
<1>6. AddedUpTo(t, hs, n, f[n])
  BY <1>1, <1>5 DEF T
<1> QED
  BY <1>2, <1>6

-----------------------------------------------------------------------------
(* release_register.                                                        *)

\* Two sets without a common element count together what they count.
LEMMA Disjoint ==
  ASSUME NEW A, NEW B, IsFiniteSet(A), IsFiniteSet(B), A \cap B = {}
  PROVE  /\ IsFiniteSet(A \cup B) /\ Cardinality(A) \in Nat /\ Cardinality(B) \in Nat
         /\ Cardinality(A \cup B) = Cardinality(A) + Cardinality(B)
<1>1. Cardinality(A) \in Nat /\ Cardinality(B) \in Nat
  BY FS_CardinalityType
<1>2. /\ IsFiniteSet(A \cup B)
      /\ Cardinality(A \cup B) = Cardinality(A) + Cardinality(B) - Cardinality(A \cap B)
  BY FS_Union
<1>3. Cardinality(A \cap B) = 0
  BY FS_EmptySet
<1> QED
  BY <1>1, <1>2, <1>3

\* One thing, c times.
LEMMA Times ==
  ASSUME NEW x, NEW c \in Nat
  PROVE  IsFiniteSet({x} \X (1 .. c)) /\ Cardinality({x} \X (1 .. c)) = c
<1>1. IsFiniteSet({x}) /\ Cardinality({x}) = 1
  BY FS_Singleton
<1>2. IsFiniteSet(1 .. c) /\ Cardinality(1 .. c) = c
  BY FS_Interval
<1> DEFINE S == {x}
           T == 1 .. c
<1>3. IsFiniteSet(S) /\ IsFiniteSet(T) /\ Cardinality(S) = 1 /\ Cardinality(T) = c
  BY <1>1, <1>2
<1> HIDE DEF S, T
<1>4. IsFiniteSet(S \X T) /\ Cardinality(S \X T) = Cardinality(S) * Cardinality(T)
  BY <1>3, FS_Product
<1>5. 1 * c = c
  OBVIOUS
<1>6. IsFiniteSet(S \X T) /\ Cardinality(S \X T) = c
  BY <1>3, <1>4, <1>5
<1> QED
  BY <1>6 DEF S, T

\* What the first k entries of a release give back of a register.
Back(xs, k, g) == UNION {{i} \X (1 .. xs[i][2]) : i \in {i \in 1 .. k : xs[i][1] = g}}
GivenBack(xs, k, g) == Cardinality(Back(xs, k, g))

\* The next entry gives back what it says.
LEMMA BackNext ==
  ASSUME NEW xs, NEW g, NEW k \in Nat, xs[k + 1][2] \in Nat, IsFiniteSet(Back(xs, k, g))
  PROVE  /\ IsFiniteSet(Back(xs, k + 1, g)) /\ GivenBack(xs, k, g) \in Nat
         /\ GivenBack(xs, k + 1, g) = GivenBack(xs, k, g) + IF xs[k + 1][1] = g THEN xs[k + 1][2] ELSE 0
<1> DEFINE A == Back(xs, k, g)
           B == Back(xs, k + 1, g)
           c == xs[k + 1][2]
           N == {k + 1} \X (1 .. c)
<1>1. \A z : z \in A <=> \E i \in 1 .. k : xs[i][1] = g /\ z \in {i} \X (1 .. xs[i][2])
  BY DEF Back
<1>2. \A z : z \in B <=> \E i \in 1 .. k + 1 : xs[i][1] = g /\ z \in {i} \X (1 .. xs[i][2])
  BY DEF Back
<1>3. /\ \A i \in 1 .. k + 1 : i \in 1 .. k \/ i = k + 1
      /\ \A i \in 1 .. k : i \in 1 .. k + 1 /\ i # k + 1
      /\ k + 1 \in 1 .. k + 1
  OBVIOUS
<1>4. IsFiniteSet(N) /\ Cardinality(N) = c
  <2> HIDE DEF c
  <2>1. c \in Nat
    BY DEF c
  <2> QED
    BY <2>1, Times
<1>5. IsFiniteSet(A) /\ Cardinality(A) \in Nat
  BY FS_CardinalityType
<1> HIDE DEF A, B
<1>6. ASSUME xs[k + 1][1] = g
      PROVE  IsFiniteSet(B) /\ Cardinality(B) = Cardinality(A) + c
  <2>1. \A z : z \in B <=> z \in A \/ z \in N
    <3> TAKE z
    <3>1. ASSUME z \in B PROVE z \in A \/ z \in N
      <4>1. PICK i \in 1 .. k + 1 : xs[i][1] = g /\ z \in {i} \X (1 .. xs[i][2])
        BY <1>2, <3>1
      <4> QED
        BY <1>1, <1>3, <4>1
    <3>2. ASSUME z \in A PROVE z \in B
      BY <1>1, <1>2, <1>3, <3>2
    <3>3. ASSUME z \in N PROVE z \in B
      BY <1>2, <1>3, <1>6, <3>3
    <3> QED
      BY <3>1, <3>2, <3>3
  <2>2. B = A \cup N
    BY <2>1
  <2>3. A \cap N = {}
    <3> SUFFICES ASSUME NEW z \in A, z \in N
                 PROVE  FALSE
      OBVIOUS
    <3>1. PICK i \in 1 .. k : z \in {i} \X (1 .. xs[i][2])
      BY <1>1
    <3>2. z[1] = i /\ z[1] = k + 1
      BY <3>1
    <3> QED
      BY <1>3, <3>2
  <2> HIDE DEF N, c
  <2> QED
    BY <1>4, <1>5, <2>2, <2>3, Disjoint
<1>7. ASSUME xs[k + 1][1] # g
      PROVE  B = A
  <2>1. \A z : z \in B <=> z \in A
    BY <1>1, <1>2, <1>3, <1>7
  <2> QED
    BY <2>1
<1>8. GivenBack(xs, k, g) = Cardinality(A) /\ GivenBack(xs, k + 1, g) = Cardinality(B)
  BY DEF GivenBack, A, B
<1> HIDE DEF N
<1>9. IsFiniteSet(B)
  BY <1>5, <1>6, <1>7
<1>10. GivenBack(xs, k + 1, g) = GivenBack(xs, k, g) + IF xs[k + 1][1] = g THEN c ELSE 0
  <2> HIDE DEF c
  <2> QED
    BY <1>5, <1>6, <1>7, <1>8
<1> QED
  BY <1>5, <1>8, <1>9, <1>10 DEF B

\* A release of nothing gives nothing back.
LEMMA BackNone ==
  ASSUME NEW xs, NEW g
  PROVE  IsFiniteSet(Back(xs, 0, g)) /\ GivenBack(xs, 0, g) = 0
<1>1. Back(xs, 0, g) = {}
  <2>1. {i \in 1 .. 0 : xs[i][1] = g} = {}
    OBVIOUS
  <2> QED
    BY <2>1 DEF Back
<1> QED
  BY <1>1, FS_EmptySet DEF GivenBack

\* What a release may ask for.
Entries == Handles \X (Nat \ {0})

\* release_register counts one register down, if its device is there.
LEMMA OneReleased ==
  ASSUME NEW t, Sound(t), NEW x \in Entries, NEW u, u = ReleaseOne(t, x)
  PROVE  /\ Sound(u) /\ u.valid = t.valid /\ u.pool = t.pool /\ u.row = t.row
         /\ t.tag_changed \subseteq u.tag_changed
         /\ x[1].dev_addr \in t.valid => x[1].dev_addr \in u.tag_changed
         /\ \A g \in Handles :
              /\ Found(u, g) <=> Found(t, g)
              /\ Found(t, g) => PlaceOf(u, g) = PlaceOf(t, g)
              /\ Found(t, g) /\ g.dev_addr \in t.valid =>
                   Counted(u, g) = Counted(t, g) - IF x[1] = g THEN x[2] ELSE 0
              /\ Found(t, g) /\ g.dev_addr \notin t.valid => Counted(u, g) = Counted(t, g)
<1> DEFINE h == x[1]
           d == h.dev_addr
           p == PlaceOf(t, h)
           c == t.reg[p].ref_cnt - x[2]
<1>1. h \in Handles /\ x[2] \in Nat /\ d \in Devices
  BY HandleFields DEF Entries
<1>2. \A g \in Handles : Found(t, g) => PlaceOf(t, g) \in Places /\ t.reg[PlaceOf(t, g)].handle = g /\ Counted(t, g) \in Int
  BY LookUp, CountedType
<1>3. CASE d \notin t.valid
  <2>1. u = t
    BY <1>3 DEF ReleaseOne
  <2>2. \A g \in Handles : g.dev_addr \in t.valid => h # g
    BY <1>3
  <2>3. \A g \in Handles : Found(t, g) /\ g.dev_addr \in t.valid =>
          Counted(u, g) = Counted(t, g) - IF h = g THEN x[2] ELSE 0
    BY <1>2, <2>1, <2>2
  <2> HIDE DEF d, h
  <2> QED
    BY <1>3, <2>1, <2>3 DEF d, h
<1>4. CASE d \in t.valid
  <2> DEFINE v == [t EXCEPT !.tag_changed = @ \cup {d}]
  <2>1. TableShape(t)
    BY DEF Sound
  <2>2. /\ v.reg = t.reg /\ v.valid = t.valid /\ v.pool = t.pool /\ v.row = t.row /\ v.req = t.req
        /\ DOMAIN v = DOMAIN t /\ v.tag_changed = t.tag_changed \cup {d}
    <3> HIDE DEF d
    <3> QED
      BY <2>1 DEF TableShape
  <2> HIDE DEF v, d
  <2>3. Sound(v)
    <3>1. TableShape(v)
      BY <1>1, <2>1, <2>2 DEF TableShape
    <3> QED
      BY ONLY <2>2, <3>1, SameHandles, Sound(t)
  <2>4. \A g \in Handles : /\ Found(v, g) <=> Found(t, g)
                           /\ Found(t, g) => PlaceOf(v, g) = PlaceOf(t, g)
    <3> TAKE g \in Handles
    <3>1. \A q \in Places : v.reg[q].handle = g <=> t.reg[q].handle = g
      BY <2>2
    <3> QED
      BY ONLY <2>3, <3>1, SamePlace, Sound(t), g \in Handles
  <2>5. CASE Found(t, h)
    <3>1. PICK k \in Int : k = -x[2]
      BY <1>1
    <3>2. u = CountBy(v, h, k)
      BY <1>4, <2>5, <3>1 DEF ReleaseOne, d, v
    <3>3. Found(v, h) /\ Counted(v, h) = Counted(t, h)
      BY <1>1, <2>2, <2>4, <2>5 DEF Counted
    <3>4. /\ Sound(u) /\ u.valid = v.valid
          /\ u.pool = v.pool /\ u.row = v.row /\ u.tag_changed = v.tag_changed
          /\ Counted(u, h) = Counted(v, h) + k
          /\ \A g \in Handles :
               /\ Found(u, g) <=> Found(v, g)
               /\ Found(v, g) => PlaceOf(u, g) = PlaceOf(v, g)
               /\ Found(v, g) /\ g # h => Counted(u, g) = Counted(v, g)
      <4> HIDE DEF h, p
      <4> QED
        BY ONLY <1>1, <2>3, <3>2, <3>3, CountedBy
    <3>5. ASSUME NEW g \in Handles, Found(t, g), h # g
          PROVE  Counted(u, g) = Counted(t, g)
      <4>1. Counted(u, g) = Counted(v, g)
        BY <2>4, <3>4, <3>5
      <4> QED
        BY <2>2, <2>4, <3>5, <4>1 DEF Counted
    <3>6. Counted(u, h) = Counted(t, h) - x[2]
      <4>1. Counted(t, h) \in Int
        BY <1>1, <1>2, <2>5
      <4> QED
        BY <1>1, <3>1, <3>3, <3>4, <4>1
    <3>7. ASSUME NEW g \in Handles, Found(t, g)
          PROVE  /\ g.dev_addr \in t.valid => Counted(u, g) = Counted(t, g) - IF h = g THEN x[2] ELSE 0
                 /\ g.dev_addr \notin t.valid => Counted(u, g) = Counted(t, g)
      <4>1. CASE h = g
        BY <1>4, <3>6, <4>1 DEF d
      <4>2. CASE h # g
        <5>1. Counted(u, g) = Counted(t, g) /\ Counted(t, g) \in Int
          BY <1>2, <3>5, <3>7, <4>2
        <5> QED
          BY <4>2, <5>1
      <4> QED
        BY <4>1, <4>2
    <3> HIDE DEF h
    <3> QED
      BY <2>2, <2>4, <3>4, <3>7 DEF d, h
  <2>6. CASE ~Found(t, h)
    <3>1. u = v
      BY <1>4, <2>6 DEF ReleaseOne, d, v
    <3>2. \A g \in Handles : Found(t, g) => h # g
      BY <2>6
    <3>3. \A g \in Handles : Found(t, g) => Counted(u, g) = Counted(t, g)
      BY <2>2, <2>4, <3>1 DEF Counted
    <3>4. \A g \in Handles : Found(t, g) => Counted(u, g) = Counted(t, g) - IF h = g THEN x[2] ELSE 0
      BY <1>2, <3>2, <3>3
    <3> HIDE DEF h
    <3> QED
      BY <2>2, <2>3, <2>4, <3>1, <3>3, <3>4 DEF d, h
  <2> QED
    BY <2>5, <2>6
<1> QED
  BY <1>3, <1>4

\* The first k entries of xs were released from t.
ReleasedUpTo(t, xs, k, u) ==
  /\ Sound(u) /\ u.valid = t.valid /\ u.pool = t.pool /\ u.row = t.row
  /\ t.tag_changed \subseteq u.tag_changed
  /\ \A i \in 1 .. k : xs[i][1].dev_addr \in t.valid => xs[i][1].dev_addr \in u.tag_changed
  /\ \A g \in Handles :
       /\ IsFiniteSet(Back(xs, k, g))
       /\ Found(u, g) <=> Found(t, g)
       /\ Found(t, g) => PlaceOf(u, g) = PlaceOf(t, g)
       /\ Found(t, g) /\ g.dev_addr \in t.valid => Counted(u, g) = Counted(t, g) - GivenBack(xs, k, g)
       /\ Found(t, g) /\ g.dev_addr \notin t.valid => Counted(u, g) = Counted(t, g)

\* One more entry of the list.
LEMMA ReleasedNext ==
  ASSUME NEW t, Sound(t), NEW xs \in Seq(Entries), NEW k \in 0 .. Len(xs), k # Len(xs),
         NEW u, ReleasedUpTo(t, xs, k, u), NEW w, w = ReleaseOne(u, xs[k + 1])
  PROVE  ReleasedUpTo(t, xs, k + 1, w)
<1>1. PICK x : x = xs[k + 1]
  OBVIOUS
<1>2. k \in Nat /\ k + 1 \in 1 .. Len(xs) /\ x \in Entries /\ xs[k + 1][2] \in Nat
  BY <1>1 DEF Entries
<1>3. Sound(u) /\ w = ReleaseOne(u, x)
  BY <1>1 DEF ReleasedUpTo
<1>8. x \in Entries
  BY <1>2
<1>9. Sound(u)
  BY <1>3
<1>10. w = ReleaseOne(u, x)
  BY <1>3
<1>4. /\ Sound(w) /\ w.valid = u.valid /\ w.pool = u.pool /\ w.row = u.row
      /\ u.tag_changed \subseteq w.tag_changed
      /\ x[1].dev_addr \in u.valid => x[1].dev_addr \in w.tag_changed
      /\ \A g \in Handles :
           /\ Found(w, g) <=> Found(u, g)
           /\ Found(u, g) => PlaceOf(w, g) = PlaceOf(u, g)
           /\ Found(u, g) /\ g.dev_addr \in u.valid =>
                Counted(w, g) = Counted(u, g) - IF x[1] = g THEN x[2] ELSE 0
           /\ Found(u, g) /\ g.dev_addr \notin u.valid => Counted(w, g) = Counted(u, g)
  BY ONLY <1>8, <1>9, <1>10, OneReleased
<1>5. w.valid = t.valid /\ w.pool = t.pool /\ w.row = t.row /\ t.tag_changed \subseteq w.tag_changed
  BY <1>4 DEF ReleasedUpTo
<1>6. \A i \in 1 .. k + 1 : xs[i][1].dev_addr \in t.valid => xs[i][1].dev_addr \in w.tag_changed
  <2>1. \A i \in 1 .. k + 1 : i \in 1 .. k \/ i = k + 1
    BY <1>2
  <2>2. \A i \in 1 .. k : xs[i][1].dev_addr \in t.valid => xs[i][1].dev_addr \in u.tag_changed
    BY DEF ReleasedUpTo
  <2> QED
    BY <1>1, <1>4, <1>5, <2>1, <2>2
<1>7. ASSUME NEW g \in Handles
      PROVE  /\ IsFiniteSet(Back(xs, k + 1, g))
             /\ Found(w, g) <=> Found(t, g)
             /\ Found(t, g) => PlaceOf(w, g) = PlaceOf(t, g)
             /\ Found(t, g) /\ g.dev_addr \in t.valid =>
                  Counted(w, g) = Counted(t, g) - GivenBack(xs, k + 1, g)
             /\ Found(t, g) /\ g.dev_addr \notin t.valid => Counted(w, g) = Counted(t, g)
  <2>1. /\ IsFiniteSet(Back(xs, k, g)) /\ u.valid = t.valid
        /\ Found(u, g) <=> Found(t, g)
        /\ Found(t, g) => PlaceOf(u, g) = PlaceOf(t, g)
        /\ Found(t, g) /\ g.dev_addr \in t.valid => Counted(u, g) = Counted(t, g) - GivenBack(xs, k, g)
        /\ Found(t, g) /\ g.dev_addr \notin t.valid => Counted(u, g) = Counted(t, g)
    BY DEF ReleasedUpTo
  <2>2. /\ IsFiniteSet(Back(xs, k + 1, g)) /\ GivenBack(xs, k, g) \in Nat
        /\ GivenBack(xs, k + 1, g) = GivenBack(xs, k, g) + IF x[1] = g THEN x[2] ELSE 0
    <3>1. k \in Nat /\ xs[k + 1][2] \in Nat
      BY <1>2
    <3>2. IsFiniteSet(Back(xs, k, g))
      BY <2>1
    <3>3. /\ IsFiniteSet(Back(xs, k + 1, g)) /\ GivenBack(xs, k, g) \in Nat
          /\ GivenBack(xs, k + 1, g) = GivenBack(xs, k, g) + IF xs[k + 1][1] = g THEN xs[k + 1][2] ELSE 0
      BY ONLY <3>1, <3>2, BackNext
    <3> QED
      BY ONLY <1>1, <3>3
  <2>3. ASSUME Found(t, g), g.dev_addr \in t.valid
        PROVE  Counted(w, g) = Counted(t, g) - GivenBack(xs, k + 1, g)
    <3>1. PICK e : e = IF x[1] = g THEN x[2] ELSE 0
      OBVIOUS
    <3>2. e \in Int
      <4>1. x[2] \in Int
        BY <1>1, <1>2
      <4> QED
        BY ONLY <3>1, <4>1
    <3>3. Counted(w, g) = Counted(u, g) - e
      BY <1>4, <2>1, <2>3, <3>1
    <3>4. Counted(u, g) = Counted(t, g) - GivenBack(xs, k, g)
      BY <2>1, <2>3
    <3>5. GivenBack(xs, k + 1, g) = GivenBack(xs, k, g) + e /\ GivenBack(xs, k, g) \in Int
      BY <2>2, <3>1
    <3>6. Counted(t, g) \in Int
      BY <2>3, CountedType
    <3> QED
      BY ONLY <3>2, <3>3, <3>4, <3>5, <3>6
  <2> QED
    BY <1>4, <2>1, <2>2, <2>3
<1> QED
  BY <1>4, <1>5, <1>6, <1>7 DEF ReleasedUpTo

\* The loop of t_release_registers lowers each count by what is given back,
\* and notes the devices.
LEMMA AllReleased ==
  ASSUME NEW t, Sound(t), NEW xs \in Seq(Entries),
         NEW u, u = Each("release", t, xs)
  PROVE  ReleasedUpTo(t, xs, Len(xs), u)
<1> DEFINE n == Len(xs)
<1>1. n \in Nat
  OBVIOUS
<1>2. PICK f : /\ f[0] = t
               /\ \A i \in 1 .. n : f[i] = One("release", f[i - 1], xs[i])
               /\ f[n] = Each("release", t, xs)
  BY <1>1, EachRuns
<1> DEFINE T == {k \in 0 .. n : ReleasedUpTo(t, xs, k, f[k])}
<1>3. 0 \in T
  <2>1. \A g : IsFiniteSet(Back(xs, 0, g)) /\ GivenBack(xs, 0, g) = 0
    BY BackNone
  <2>2. \A g \in Handles : Found(t, g) => Counted(t, g) = Counted(t, g) - GivenBack(xs, 0, g)
    <3> TAKE g \in Handles
    <3>1. Found(t, g) => Counted(t, g) \in Int
      BY CountedType
    <3>2. GivenBack(xs, 0, g) = 0
      BY <2>1
    <3> QED
      BY ONLY <3>1, <3>2
  <2>3. \A i \in 1 .. 0 : FALSE
    OBVIOUS
  <2>4. ReleasedUpTo(t, xs, 0, t)
    BY <2>1, <2>2, <2>3 DEF ReleasedUpTo
  <2> QED
    BY <1>1, <1>2, <2>4
<1>4. ASSUME NEW k \in 0 .. n, k \in T, k # n
      PROVE  k + 1 \in T
  <2>1. k + 1 \in 1 .. n /\ (k + 1) - 1 = k /\ k + 1 \in 0 .. n
    BY <1>1, <1>4
  <2>2. f[k + 1] = ReleaseOne(f[k], xs[k + 1])
    <3>1. f[k + 1] = One("release", f[k], xs[k + 1])
      BY <1>2, <2>1
    <3> QED
      BY <3>1 DEF One
  <2>3. ReleasedUpTo(t, xs, k, f[k])
    BY <1>4
  <2>4. ReleasedUpTo(t, xs, k + 1, f[k + 1])
    BY <1>4, <2>2, <2>3, ReleasedNext
  <2> QED
    BY <2>1, <2>4
<1> HIDE DEF T
<1>5. \A k \in 0 .. n : k \in T
  BY <1>1, <1>3, <1>4, UpTo
<1>6. ReleasedUpTo(t, xs, n, f[n])
  BY <1>1, <1>5 DEF T
<1> QED
  BY <1>2, <1>6

-----------------------------------------------------------------------------
(* Registers go.                                                            *)

\* A list turned round.
LEMMA Reversed ==
  ASSUME NEW S, NEW s \in Seq(S)
  PROVE  /\ Reverse(s) \in Seq(S) /\ ToSet(Reverse(s)) = ToSet(s)
         /\ IsInjective(s) => IsInjective(Reverse(s))
<1> DEFINE n == Len(s)
           r == Reverse(s)
<1>1. n \in Nat
  OBVIOUS
<1>2. \A i \in 1 .. n : (n - i) + 1 \in 1 .. n /\ (n - ((n - i) + 1)) + 1 = i
  BY <1>1
<1>3. r = [i \in 1 .. n |-> s[(n - i) + 1]]
  BY DEF Reverse
<1>4. r \in Seq(S) /\ Len(r) = n
  <2>1. \A i \in 1 .. n : s[i] \in S
    OBVIOUS
  <2>2. r \in [1 .. n -> S]
    BY <1>2, <1>3, <2>1
  <2> HIDE DEF n, r
  <2> QED
    BY <1>1, <2>2
<1>5. \A i \in 1 .. n : r[i] = s[(n - i) + 1]
  BY <1>3
<1>6. ToSet(r) = {r[i] : i \in 1 .. n} /\ ToSet(s) = {s[i] : i \in 1 .. n}
  BY <1>4, SetOfSeq
<1> HIDE DEF n, r
<1>7. ToSet(r) = ToSet(s)
  <2>1. ASSUME NEW i \in 1 .. n PROVE r[i] \in ToSet(s)
    BY <1>2, <1>5, <1>6
  <2>2. ASSUME NEW i \in 1 .. n PROVE s[i] \in ToSet(r)
    <3>1. r[(n - i) + 1] = s[i] /\ (n - i) + 1 \in 1 .. n
      BY <1>2, <1>5
    <3> QED
      BY <1>6, <3>1
  <2> QED
    BY <1>6, <2>1, <2>2
<1>8. ASSUME IsInjective(s)
      PROVE  IsInjective(r)
  <2>1. \A i, j \in 1 .. n : s[i] = s[j] => i = j
    BY <1>8, InjectiveSeq DEF n
  <2>2. ASSUME NEW i \in 1 .. n, NEW j \in 1 .. n, r[i] = r[j]
        PROVE  i = j
    <3>1. s[(n - i) + 1] = s[(n - j) + 1]
      BY <1>5, <2>2
    <3>2. (n - i) + 1 = (n - j) + 1
      BY <1>2, <2>1, <3>1
    <3> QED
      BY <1>1, <3>2
  <2> QED
    BY <1>4, <2>2, InjectiveSeq
<1> QED
  BY <1>4, <1>7, <1>8 DEF r

\* The places of a row: registers of its device in their order.
LEMMA RowPlaces ==
  ASSUME NEW t, Sound(t), NEW d \in Devices
  PROVE  /\ t.row[d] \in Seq(Places) /\ Len(t.row[d]) \in Nat /\ DOMAIN t.row[d] = 1 .. Len(t.row[d])
         /\ \A i \in 1 .. Len(t.row[d]) :
              /\ t.row[d][i] \in Places /\ t.reg[t.row[d][i]].handle \in Handles
              /\ t.reg[t.row[d][i]].handle.dev_addr = d /\ t.reg[t.row[d][i]].handle # NoHandle
         /\ \A i, j \in 1 .. Len(t.row[d]) :
              /\ i < j => Before(t.reg[t.row[d][i]].handle, t.reg[t.row[d][j]].handle)
              /\ t.row[d][i] = t.row[d][j] => i = j
<1> DEFINE s == t.row[d]
           n == Len(s)
<1>1. s \in Seq(Places) /\ n \in Nat /\ DOMAIN s = 1 .. n
  BY DEF Sound, TableShape
<1>2. \A i \in 1 .. n : /\ s[i] \in Places /\ t.reg[s[i]].handle \in Handles
                        /\ t.reg[s[i]].handle.dev_addr = d /\ t.reg[s[i]].handle # NoHandle
  <2> TAKE i \in 1 .. n
  <2>1. t.reg[s[i]].handle \in Handles /\ t.reg[s[i]].handle.dev_addr = d
    BY DEF Sound, EachPlace
  <2>2. t.reg[s[i]].handle # NoHandle
    BY <2>1, HandleFields
  <2> QED
    BY <1>1, <2>1, <2>2
<1>3. \A i, j \in 1 .. n : i < j => Before(t.reg[s[i]].handle, t.reg[s[j]].handle)
  BY <1>1 DEF Sound, RowsSorted
<1> HIDE DEF s, n
<1>4. ASSUME NEW i \in 1 .. n, NEW j \in 1 .. n, s[i] = s[j]
      PROVE  i = j
  <2>1. PICK h : h = t.reg[s[i]].handle
    OBVIOUS
  <2>2. h \in Handles /\ h = t.reg[s[j]].handle
    BY <1>2, <1>4, <2>1
  <2>3. ~Before(h, h)
    BY <2>2, BeforeOrder
  <2>4. ~(i < j) /\ ~(j < i)
    BY <1>3, <2>1, <2>2, <2>3
  <2> QED
    BY <2>4
<1> QED
  BY <1>1, <1>2, <1>3, <1>4 DEF s, n

\* What is not at I in a row.
Others(row, I) == {row[i] : i \in (1 .. Len(row)) \ I}
\* The places of s are cleared.
Cleared(t, s, u) ==
  /\ u.reg \in [Places -> Registers]
  /\ \A p \in Places : /\ p \in ToSet(s) => u.reg[p].handle = NoHandle
                       /\ p \notin ToSet(s) => u.reg[p] = t.reg[p]

\* From t to u the row of d is cut down to what is at I, and the places of
\* the others, s, are free.
CutTo(t, d, row, I, s, u) ==
  /\ row \in Seq(Places) /\ I \in SUBSET (1 .. Len(row))
  /\ Sound(t) /\ d \in Devices /\ t.row[d] = row
  /\ s \in Seq(Places) /\ IsInjective(s) /\ ToSet(s) = Others(row, I)
  /\ DOMAIN u = DOMAIN t /\ u.pool = Reverse(s) \o t.pool
  /\ u.row = [t.row EXCEPT ![d] = Picked(row, I)] /\ Cleared(t, s, u)
  /\ DOMAIN u.req = Devices /\ u.tag_changed \subseteq Devices /\ u.valid \subseteq Devices

\* The table stays sound, and only the registers that went are found no more.
LEMMA RowCut ==
  ASSUME NEW t, NEW d, NEW row, NEW I, NEW s, NEW u, CutTo(t, d, row, I, s, u)
  PROVE  /\ Sound(u)
         /\ \A g \in Handles :
              /\ Found(u, g) <=> Found(t, g) /\ PlaceOf(t, g) \notin ToSet(s)
              /\ Found(u, g) => PlaceOf(u, g) = PlaceOf(t, g) /\ Counted(u, g) = Counted(t, g)
<1> SUFFICES ASSUME
      row \in Seq(Places), I \in SUBSET (1 .. Len(row)),
      Sound(t), d \in Devices, t.row[d] = row,
      s \in Seq(Places), IsInjective(s), ToSet(s) = Others(row, I),
      DOMAIN u = DOMAIN t, u.pool = Reverse(s) \o t.pool,
      u.row = [t.row EXCEPT ![d] = Picked(row, I)], Cleared(t, s, u),
      DOMAIN u.req = Devices, u.tag_changed \subseteq Devices, u.valid \subseteq Devices
    PROVE
      /\ Sound(u)
      /\ \A g \in Handles :
           /\ Found(u, g) <=> Found(t, g) /\ PlaceOf(t, g) \notin ToSet(s)
           /\ Found(u, g) => PlaceOf(u, g) = PlaceOf(t, g) /\ Counted(u, g) = Counted(t, g)
  BY DEF CutTo
<1> DEFINE n == Len(row)
           r == Picked(row, I)
           m == Cardinality(I)
<1>1. TableShape(t) /\ EachPlace(t)
  BY DEF Sound
<1>2. /\ row \in Seq(Places) /\ n \in Nat
      /\ \A i \in 1 .. n : /\ row[i] \in Places /\ t.reg[row[i]].handle \in Handles
                           /\ t.reg[row[i]].handle.dev_addr = d /\ t.reg[row[i]].handle # NoHandle
      /\ \A i, j \in 1 .. n : /\ i < j => Before(t.reg[row[i]].handle, t.reg[row[j]].handle)
                              /\ row[i] = row[j] => i = j
  <2>1. /\ t.row[d] \in Seq(Places) /\ Len(t.row[d]) \in Nat
        /\ \A i \in 1 .. Len(t.row[d]) :
             /\ t.row[d][i] \in Places /\ t.reg[t.row[d][i]].handle \in Handles
             /\ t.reg[t.row[d][i]].handle.dev_addr = d /\ t.reg[t.row[d][i]].handle # NoHandle
        /\ \A i, j \in 1 .. Len(t.row[d]) :
             /\ i < j => Before(t.reg[t.row[d][i]].handle, t.reg[t.row[d][j]].handle)
             /\ t.row[d][i] = t.row[d][j] => i = j
    BY ONLY RowPlaces, Sound(t), d \in Devices
  <2> QED
    BY ONLY <2>1, t.row[d] = row
<1>3. r \in Seq(Places) /\ Len(r) = m
  BY <1>2, PickedElements
<1>4. PICK q \in [1 .. m -> I] : /\ \A k \in 1 .. m : r[k] = row[q[k]]
                                 /\ \A i, j \in 1 .. m : i < j => q[i] < q[j]
                                 /\ \A i, j \in 1 .. m : q[i] = q[j] => i = j
                                 /\ \A i \in I : \E k \in 1 .. m : q[k] = i
  <2>1. PICK q : PickedBy(row, I, q)
    BY PickedElements
  <2> QED
    BY ONLY <2>1 DEF m, r, PickedBy
<1>5. u.row[d] = r /\ \A e \in Devices : e # d => u.row[e] = t.row[e]
  BY <1>1 DEF TableShape
<1>6. u.row \in [Devices -> Seq(Places)]
  <2>1. u.row = [t.row EXCEPT ![d] = r] /\ t.row \in [Devices -> Seq(Places)]
    BY <1>1 DEF TableShape
  <2> HIDE DEF r
  <2> QED
    BY <1>3, <2>1
<1>7. \A p : p \in ToSet(s) <=> \E i \in 1 .. n : i \notin I /\ p = row[i]
  BY DEF Others
<1>20. /\ u.reg \in [Places -> Registers]
       /\ \A p \in Places : /\ p \in ToSet(s) => u.reg[p].handle = NoHandle
                            /\ p \notin ToSet(s) => u.reg[p] = t.reg[p]
  BY DEF Cleared
<1>8. m \in Nat
  <2>1. IsFiniteSet(I)
    BY <1>2, PickedElements
  <2> QED
    BY <2>1, FS_CardinalityType
<1> HIDE DEF n, r, m
<1>9. \A p \in ToSet(s) : p \in Places /\ t.reg[p].handle.dev_addr = d /\ t.reg[p].handle # NoHandle
  <2> TAKE p \in ToSet(s)
  <2>1. PICK i \in 1 .. n : p = row[i]
    BY ONLY <1>7, p \in ToSet(s)
  <2> QED
    BY ONLY <1>2, <2>1
<1>10. /\ u.pool \in Seq(Places) /\ IsInjective(u.pool)
       /\ \A p : p \in ToSet(u.pool) <=> p \in ToSet(s) \/ p \in ToSet(t.pool)
  <2>1. t.pool \in Seq(Places) /\ IsInjective(t.pool)
    BY <1>1 DEF TableShape
  <2>2. Reverse(s) \in Seq(Places) /\ ToSet(Reverse(s)) = ToSet(s) /\ IsInjective(Reverse(s))
    BY Reversed
  <2>3. ToSet(Reverse(s)) \cap ToSet(t.pool) = {}
    BY <1>1, <1>9, <2>2 DEF EachPlace
  <2>4. PICK z : z = Reverse(s)
    OBVIOUS
  <2>5. u.pool = z \o t.pool
    BY <2>4
  <2>6. /\ z \o t.pool \in Seq(Places) /\ ToSet(z \o t.pool) = ToSet(z) \cup ToSet(t.pool)
        /\ IsInjective(z \o t.pool)
    BY <2>1, <2>2, <2>3, <2>4, ConcatSet
  <2> QED
    BY <2>2, <2>4, <2>5, <2>6
<1>11. TableShape(u)
  BY <1>1, <1>6, <1>10, <1>20 DEF TableShape
<1>12. ASSUME NEW k \in 1 .. m
       PROVE  /\ q[k] \in 1 .. n /\ r[k] = row[q[k]] /\ r[k] \in Places
              /\ u.reg[r[k]] = t.reg[r[k]]
  <2>1. q[k] \in I /\ q[k] \in 1 .. n /\ r[k] = row[q[k]]
    <3>1. q[k] \in I
      BY <1>4
    <3>2. I \subseteq 1 .. n
      BY DEF n
    <3> QED
      BY <1>4, <3>1, <3>2
  <2>2. r[k] \notin ToSet(s)
    <3>1. PICK j : j = q[k]
      OBVIOUS
    <3>2. j \in I /\ j \in 1 .. n /\ r[k] = row[j]
      BY <2>1, <3>1
    <3> QED
      BY ONLY <1>2, <1>7, <3>2
  <2>3. r[k] \in Places
    BY <1>2, <2>1
  <2> QED
    BY <1>20, <2>1, <2>2, <2>3
<1>13. ASSUME NEW e \in Devices, e # d, NEW i \in 1 .. Len(t.row[e])
       PROVE  /\ u.row[e] = t.row[e] /\ t.row[e][i] \in Places
              /\ u.reg[t.row[e][i]] = t.reg[t.row[e][i]]
  <2>1. t.row[e][i] \in Places /\ t.reg[t.row[e][i]].handle.dev_addr = e
    BY RowPlaces
  <2>2. t.row[e][i] \notin ToSet(s)
    BY <1>9, <1>13, <2>1
  <2> QED
    BY <1>5, <1>13, <1>20, <2>1, <2>2
<1>14. EachPlace(u)
  <2>1. ASSUME NEW p \in Places
        PROVE  p \in ToSet(u.pool) <=> u.reg[p].handle = NoHandle
    BY <1>1, <1>10, <1>20 DEF EachPlace
  <2>2. ASSUME NEW p \in Places, u.reg[p].handle # NoHandle
        PROVE  p \in ToSet(u.row[u.reg[p].handle.dev_addr])
    <3>1. p \notin ToSet(s) /\ u.reg[p] = t.reg[p]
      BY <1>20, <2>2
    <3>2. PICK e : e = t.reg[p].handle.dev_addr
      OBVIOUS
    <3>3. p \in ToSet(t.row[e])
      BY <1>1, <2>2, <3>1, <3>2 DEF EachPlace
    <3>4. e \in Devices
      <4>1. t.reg[p].handle \in Handles
        BY <1>1, <2>2, <3>1 DEF TableShape, Registers
      <4> QED
        BY <3>2, <4>1, HandleFields
    <3>5. CASE e # d
      BY <1>5, <3>1, <3>2, <3>3, <3>4, <3>5
    <3>6. CASE e = d
      <4>1. PICK i \in 1 .. n : p = row[i]
        <5>1. p \in ToSet(row)
          BY <3>3, <3>6
        <5>2. ToSet(row) = {row[i] : i \in 1 .. n}
          BY <1>2, SetOfSeq DEF n
        <5> QED
          BY <5>1, <5>2
      <4>2. i \in I
        BY <1>7, <3>1, <4>1
      <4>3. PICK k \in 1 .. m : q[k] = i
        BY <1>4, <4>2
      <4>4. p = r[k] /\ ToSet(r) = {r[j] : j \in 1 .. m}
        BY <1>3, <1>4, <4>1, <4>3, SetOfSeq
      <4> QED
        BY <1>5, <3>1, <3>2, <3>6, <4>4
    <3> QED
      BY <3>5, <3>6
  <2>3. ASSUME NEW e \in Devices, NEW i \in 1 .. Len(u.row[e])
        PROVE  u.reg[u.row[e][i]].handle \in Handles /\ u.reg[u.row[e][i]].handle.dev_addr = e
    <3>1. CASE e = d
      <4>1. u.row[e] = r /\ i \in 1 .. m
        BY <1>3, <1>5, <3>1
      <4> QED
        BY ONLY <1>2, <1>12, <3>1, <4>1
    <3>2. CASE e # d
      <4>1. u.row[e] = t.row[e]
        BY <1>5, <3>2
      <4>2. t.reg[t.row[e][i]].handle \in Handles /\ t.reg[t.row[e][i]].handle.dev_addr = e
        BY <4>1, RowPlaces
      <4>3. u.reg[t.row[e][i]] = t.reg[t.row[e][i]]
        BY <1>13, <3>2, <4>1
      <4> QED
        BY <4>1, <4>2, <4>3
    <3> QED
      BY <3>1, <3>2
  <2> QED
    BY <2>1, <2>2, <2>3 DEF EachPlace
<1>15. RowsSorted(u)
  <2> SUFFICES ASSUME NEW e \in Devices, NEW i \in DOMAIN u.row[e], NEW j \in DOMAIN u.row[e], i < j
               PROVE  Before(u.reg[u.row[e][i]].handle, u.reg[u.row[e][j]].handle)
    BY DEF RowsSorted
  <2>1. CASE e = d
    <3>1. u.row[e] = r /\ i \in 1 .. m /\ j \in 1 .. m
      <4>1. DOMAIN r = 1 .. m
        BY <1>3
      <4> QED
        BY <1>5, <2>1, <4>1
    <3>2. q[i] < q[j]
      BY <1>4, <3>1
    <3> QED
      BY ONLY <1>2, <1>12, <3>1, <3>2
  <2>2. CASE e # d
    <3>1. u.row[e] = t.row[e]
      BY <1>5, <2>2
    <3>2. i \in 1 .. Len(t.row[e]) /\ j \in 1 .. Len(t.row[e])
      BY <3>1, RowPlaces
    <3>3. Before(t.reg[t.row[e][i]].handle, t.reg[t.row[e][j]].handle)
      BY <3>2, RowPlaces
    <3>4. u.reg[t.row[e][i]] = t.reg[t.row[e][i]] /\ u.reg[t.row[e][j]] = t.reg[t.row[e][j]]
      BY <1>13, <2>2, <3>2
    <3> QED
      BY <3>1, <3>3, <3>4
  <2> QED
    BY <2>1, <2>2
<1>16. Sound(u)
  BY <1>11, <1>14, <1>15 DEF Sound
<1>17. ASSUME NEW g \in Handles
       PROVE  /\ Found(u, g) <=> Found(t, g) /\ PlaceOf(t, g) \notin ToSet(s)
              /\ Found(u, g) => PlaceOf(u, g) = PlaceOf(t, g) /\ Counted(u, g) = Counted(t, g)
  <2>1. /\ Found(t, g) <=> \E p \in Places : t.reg[p].handle = g
        /\ Found(t, g) => PlaceOf(t, g) \in Places /\ t.reg[PlaceOf(t, g)].handle = g
        /\ \A p \in Places : t.reg[p].handle = g => p = PlaceOf(t, g)
    BY LookUp
  <2>2. /\ Found(u, g) <=> \E p \in Places : u.reg[p].handle = g
        /\ Found(u, g) => PlaceOf(u, g) \in Places /\ u.reg[PlaceOf(u, g)].handle = g
        /\ \A p \in Places : u.reg[p].handle = g => p = PlaceOf(u, g)
    BY <1>16, LookUp
  <2>3. g # NoHandle
    BY HandleFields
  <2>4. \A p \in Places : u.reg[p].handle = g <=> t.reg[p].handle = g /\ p \notin ToSet(s)
    BY <1>20, <2>3
  <2>5. Found(u, g) <=> Found(t, g) /\ PlaceOf(t, g) \notin ToSet(s)
    BY ONLY <2>1, <2>2, <2>4
  <2>6. Found(u, g) => PlaceOf(u, g) = PlaceOf(t, g) /\ PlaceOf(t, g) \in Places /\ PlaceOf(t, g) \notin ToSet(s)
    BY ONLY <2>1, <2>2, <2>4, <2>5
  <2>7. Found(u, g) => u.reg[PlaceOf(t, g)] = t.reg[PlaceOf(t, g)]
    BY <1>20, <2>6
  <2> QED
    BY <2>5, <2>6, <2>7 DEF Counted
<1> QED
  BY <1>16, <1>17

\* Freeing places clears their handles and puts them before the free ones.
LEMMA FreedIs ==
  ASSUME NEW t, TableShape(t), NEW s \in Seq(Places), NEW u, u = Freed(t, s)
  PROVE  /\ DOMAIN u = DOMAIN t /\ u.pool = Reverse(s) \o t.pool /\ u.row = t.row /\ u.req = t.req
         /\ u.tag_changed = t.tag_changed /\ u.valid = t.valid
         /\ Cleared(t, s, u)
<1>1. /\ DOMAIN u = DOMAIN t /\ u.pool = Reverse(s) \o t.pool /\ u.row = t.row /\ u.req = t.req
      /\ u.tag_changed = t.tag_changed /\ u.valid = t.valid
      /\ u.reg = [p \in Places |-> IF p \in ToSet(s) THEN [t.reg[p] EXCEPT !.handle = NoHandle]
                                                     ELSE t.reg[p]]
  BY DEF TableShape, Freed
<1>2. ASSUME NEW p \in Places
      PROVE  /\ u.reg[p] \in Registers
             /\ p \in ToSet(s) => u.reg[p].handle = NoHandle
             /\ p \notin ToSet(s) => u.reg[p] = t.reg[p]
  <2>1. t.reg[p] \in Registers
    BY DEF TableShape
  <2>2. u.reg[p] = IF p \in ToSet(s) THEN [t.reg[p] EXCEPT !.handle = NoHandle] ELSE t.reg[p]
    BY ONLY <1>1, p \in Places
  <2>3. [t.reg[p] EXCEPT !.handle = NoHandle] \in Registers /\ [t.reg[p] EXCEPT !.handle = NoHandle].handle = NoHandle
    BY <2>1 DEF Registers
  <2> QED
    BY ONLY <2>1, <2>2, <2>3
<1>3. u.reg \in [Places -> Registers]
  BY ONLY <1>1, <1>2
<1> QED
  BY ONLY <1>1, <1>2, <1>3 DEF Cleared

-----------------------------------------------------------------------------
(* build_req and rebuild.                                                   *)

\* From t to u the registers of d that nobody counts are dropped.
BuiltFrom(t, d, u) ==
  /\ Sound(u) /\ u.tag_changed = t.tag_changed
  /\ u.valid = IF u.row[d] = <<>> THEN t.valid \ {d} ELSE t.valid \cup {d}
  /\ \A e \in Devices : e # d => u.row[e] = t.row[e]
  /\ \A g \in Handles :
       /\ Found(u, g) <=> Found(t, g) /\ (g.dev_addr = d => Counted(t, g) > 0)
       /\ Found(u, g) => PlaceOf(u, g) = PlaceOf(t, g) /\ Counted(u, g) = Counted(t, g)

\* build_req does that.
LEMMA Built ==
  ASSUME NEW t, Sound(t), NEW d \in Devices, NEW u, u = BuildReq(t, d)
  PROVE  BuiltFrom(t, d, u)
<1>1. PICK row : row = t.row[d]
  OBVIOUS
<1>2. TableShape(t)
  BY DEF Sound
<1>3. /\ row \in Seq(Places) /\ Len(row) \in Nat /\ DOMAIN row = 1 .. Len(row)
      /\ \A i \in 1 .. Len(row) : row[i] \in Places /\ t.reg[row[i]].handle.dev_addr = d
      /\ \A i, j \in 1 .. Len(row) : row[i] = row[j] => i = j
  BY <1>1, RowPlaces
<1> DEFINE J == {i \in DOMAIN row : t.reg[row[i]].ref_cnt > 0}
           K == DOMAIN row \ J
           s == Picked(row, K)
           r == Picked(row, J)
           q == RequestsOf(t.reg, r)
           v == Freed(t, s)
<1>4. J \in SUBSET (1 .. Len(row)) /\ K \in SUBSET (1 .. Len(row)) /\ K = (1 .. Len(row)) \ J
  BY <1>3
<1>5. u = [v EXCEPT !.row[d] = r, !.req[d] = q,
                    !.valid = IF r = <<>> THEN @ \ {d} ELSE @ \cup {d}]
  BY <1>1 DEF BuildReq
<1>6. \A i \in 1 .. Len(row) : i \in J <=> t.reg[row[i]].ref_cnt > 0
  BY <1>3
<1> HIDE DEF J, K
<1>7. s \in Seq(Places) /\ ToSet(s) = {row[i] : i \in K}
  BY <1>3, <1>4, PickedElements, PickedSet
<1>8. IsInjective(s)
  <2>1. PICK m : PickedBy(row, K, m)
    BY <1>3, <1>4, PickedElements
  <2>2. Len(s) = Cardinality(K)
    BY <1>3, <1>4, PickedElements
  <2>3. ASSUME NEW i \in 1 .. Len(s), NEW j \in 1 .. Len(s), s[i] = s[j]
        PROVE  i = j
    <3>1. /\ s[i] = row[m[i]] /\ s[j] = row[m[j]] /\ m[i] \in K /\ m[j] \in K
          /\ m[i] = m[j] => i = j
      BY ONLY <2>1, <2>2, i \in 1 .. Len(s), j \in 1 .. Len(s) DEF PickedBy, s
    <3>2. PICK a, b : a = m[i] /\ b = m[j]
      OBVIOUS
    <3>3. a \in 1 .. Len(row) /\ b \in 1 .. Len(row) /\ row[a] = row[b]
      BY <1>4, <2>3, <3>1, <3>2
    <3>4. a = b
      BY ONLY <1>3, <3>3
    <3> QED
      BY <3>1, <3>2, <3>4
  <2> QED
    BY <1>7, <2>3, InjectiveSeq
<1> HIDE DEF s
<1>9. /\ DOMAIN v = DOMAIN t /\ v.pool = Reverse(s) \o t.pool /\ v.row = t.row /\ v.req = t.req
      /\ v.tag_changed = t.tag_changed /\ v.valid = t.valid
      /\ Cleared(t, s, v)
  <2> HIDE DEF v
  <2>1. v = Freed(t, s)
    BY DEF v
  <2> QED
    BY ONLY <1>2, <1>7, <2>1, FreedIs
<1> HIDE DEF v, r, q
<1>10. /\ DOMAIN u = DOMAIN t /\ u.pool = Reverse(s) \o t.pool /\ u.reg = v.reg
       /\ u.row = [t.row EXCEPT ![d] = r] /\ u.req = [t.req EXCEPT ![d] = q]
       /\ u.tag_changed = t.tag_changed
       /\ u.valid = IF r = <<>> THEN t.valid \ {d} ELSE t.valid \cup {d}
  <2>1. DOMAIN v = {"reg", "pool", "row", "req", "tag_changed", "valid", "advc", "req_ix"}
    BY <1>2, <1>9 DEF TableShape
  <2>2. /\ DOMAIN u = DOMAIN v /\ u.pool = v.pool /\ u.reg = v.reg
        /\ u.row = [v.row EXCEPT ![d] = r] /\ u.req = [v.req EXCEPT ![d] = q]
        /\ u.tag_changed = v.tag_changed
        /\ u.valid = IF r = <<>> THEN v.valid \ {d} ELSE v.valid \cup {d}
    BY ONLY <1>5, <2>1
  <2> QED
    BY ONLY <1>9, <2>2
<1>11. DOMAIN u.req = Devices /\ u.tag_changed \subseteq Devices /\ u.valid \subseteq Devices
  BY <1>2, <1>10 DEF TableShape
<1>12. u.row[d] = r /\ \A e \in Devices : e # d => u.row[e] = t.row[e]
  <2>1. t.row \in [Devices -> Seq(Places)]
    BY <1>2 DEF TableShape
  <2> QED
    BY <1>10, <2>1
<1>13. /\ Sound(u)
       /\ \A g \in Handles :
            /\ Found(u, g) <=> Found(t, g) /\ PlaceOf(t, g) \notin ToSet(s)
            /\ Found(u, g) => PlaceOf(u, g) = PlaceOf(t, g) /\ Counted(u, g) = Counted(t, g)
  <2>1. row \in Seq(Places)
    BY <1>3
  <2>2. J \in SUBSET (1 .. Len(row))
    BY <1>4
  <2>3. t.row[d] = row
    BY <1>1
  <2>4. s \in Seq(Places)
    BY <1>7
  <2>5. ToSet(s) = Others(row, J)
    BY <1>4, <1>7 DEF Others
  <2>6. u.row = [t.row EXCEPT ![d] = Picked(row, J)]
    BY <1>10 DEF r
  <2>7. Cleared(t, s, u)
    BY <1>9, <1>10 DEF Cleared
  <2>8. DOMAIN u = DOMAIN t /\ u.pool = Reverse(s) \o t.pool
    BY <1>10
  <2>9. CutTo(t, d, row, J, s, u)
    BY ONLY <1>8, <1>11, <2>1, <2>2, <2>3, <2>4, <2>5, <2>6, <2>7, <2>8, Sound(t), d \in Devices DEF CutTo
  <2> QED
    BY ONLY <2>9, RowCut
<1>14. ASSUME NEW g \in Handles, Found(t, g)
       PROVE  PlaceOf(t, g) \notin ToSet(s) <=> (g.dev_addr = d => Counted(t, g) > 0)
  <2>1. PICK p : p = PlaceOf(t, g)
    OBVIOUS
  <2>2. t.reg[p].handle = g /\ p \in ToSet(t.row[g.dev_addr])
    BY <1>14, <2>1, LookUp
  <2>3. CASE g.dev_addr # d
    <3>1. ASSUME p \in ToSet(s) PROVE FALSE
      <4>1. PICK i \in K : p = row[i]
        BY <1>7, <3>1
      <4>2. i \in 1 .. Len(row)
        BY <1>4
      <4>3. t.reg[p].handle.dev_addr = d
        BY ONLY <1>3, <4>1, <4>2
      <4> QED
        BY <2>2, <2>3, <4>3
    <3> QED
      BY <2>1, <2>3, <3>1
  <2>4. CASE g.dev_addr = d
    <3>1. p \in ToSet(row) /\ ToSet(row) = {row[i] : i \in 1 .. Len(row)}
      BY <1>1, <1>3, <2>2, <2>4, SetOfSeq
    <3>2. PICK i \in 1 .. Len(row) : p = row[i]
      BY <3>1
    <3>3. p \in ToSet(s) <=> i \in K
      <4>1. \A j \in K : row[j] = row[i] => j = i
        BY ONLY <1>3, <1>4
      <4> QED
        BY ONLY <1>7, <3>2, <4>1
    <3>4. i \in K <=> ~(t.reg[p].ref_cnt > 0)
      BY <1>4, <1>6, <3>2
    <3> QED
      BY <2>1, <2>4, <3>3, <3>4 DEF Counted
  <2> QED
    BY <2>3, <2>4
<1>15. u.valid = IF u.row[d] = <<>> THEN t.valid \ {d} ELSE t.valid \cup {d}
  BY <1>10, <1>12
<1> QED
  BY ONLY <1>10, <1>12, <1>13, <1>14, <1>15 DEF BuiltFrom

\* The requests of the first k devices of s were built anew.
BuiltUpTo(t, s, k, u) ==
  /\ Sound(u) /\ u.tag_changed = t.tag_changed
  /\ \A d \in Devices :
       IF \E i \in 1 .. k : s[i] = d
       THEN d \in u.valid <=> u.row[d] # <<>>
       ELSE u.row[d] = t.row[d] /\ (d \in u.valid <=> d \in t.valid)
  /\ \A g \in Handles :
       /\ Found(u, g) <=> Found(t, g) /\ ((\E i \in 1 .. k : s[i] = g.dev_addr) => Counted(t, g) > 0)
       /\ Found(u, g) => PlaceOf(u, g) = PlaceOf(t, g) /\ Counted(u, g) = Counted(t, g)

\* One more device.
LEMMA BuiltNext ==
  ASSUME NEW t, NEW s \in Seq(Devices), NEW k \in 0 .. Len(s), k # Len(s),
         NEW u, BuiltUpTo(t, s, k, u), NEW w, w = BuildReq(u, s[k + 1])
  PROVE  BuiltUpTo(t, s, k + 1, w)
<1>1. PICK d \in Devices : d = s[k + 1]
  <2>1. k + 1 \in 1 .. Len(s)
    OBVIOUS
  <2> QED
    BY <2>1
<1>2. /\ Sound(w) /\ w.tag_changed = u.tag_changed
      /\ w.valid = IF w.row[d] = <<>> THEN u.valid \ {d} ELSE u.valid \cup {d}
      /\ \A e \in Devices : e # d => w.row[e] = u.row[e]
      /\ \A g \in Handles :
           /\ Found(w, g) <=> Found(u, g) /\ (g.dev_addr = d => Counted(u, g) > 0)
           /\ Found(w, g) => PlaceOf(w, g) = PlaceOf(u, g) /\ Counted(w, g) = Counted(u, g)
  <2>1. Sound(u)
    BY DEF BuiltUpTo
  <2>2. w = BuildReq(u, d)
    BY <1>1
  <2>3. BuiltFrom(u, d, w)
    BY ONLY <2>1, <2>2, d \in Devices, Built
  <2> QED
    BY ONLY <2>3 DEF BuiltFrom
<1>3. ASSUME NEW e
      PROVE  (\E i \in 1 .. k + 1 : s[i] = e) <=> (\E i \in 1 .. k : s[i] = e) \/ e = d
  <2>1. \A i \in 1 .. k + 1 : i \in 1 .. k \/ i = k + 1
    OBVIOUS
  <2>2. (\A i \in 1 .. k : i \in 1 .. k + 1) /\ k + 1 \in 1 .. k + 1
    OBVIOUS
  <2> QED
    BY <1>1, <2>1, <2>2
<1>4. ASSUME NEW e \in Devices
      PROVE  IF \E i \in 1 .. k + 1 : s[i] = e
             THEN e \in w.valid <=> w.row[e] # <<>>
             ELSE w.row[e] = t.row[e] /\ (e \in w.valid <=> e \in t.valid)
  <2>1. IF \E i \in 1 .. k : s[i] = e
        THEN e \in u.valid <=> u.row[e] # <<>>
        ELSE u.row[e] = t.row[e] /\ (e \in u.valid <=> e \in t.valid)
    BY DEF BuiltUpTo
  <2>2. CASE e = d
    <3>1. e \in w.valid <=> w.row[e] # <<>>
      BY ONLY <1>2, <2>2
    <3> QED
      BY <1>3, <2>2, <3>1
  <2>3. CASE e # d
    <3>1. w.row[e] = u.row[e] /\ (e \in w.valid <=> e \in u.valid)
      BY ONLY <1>2, <2>3, e \in Devices
    <3>2. (\E i \in 1 .. k + 1 : s[i] = e) <=> (\E i \in 1 .. k : s[i] = e)
      BY <1>3, <2>3
    <3> QED
      BY ONLY <2>1, <3>1, <3>2
  <2> QED
    BY <2>2, <2>3
<1>5. ASSUME NEW g \in Handles
      PROVE  /\ Found(w, g) <=> /\ Found(t, g)
                                /\ (\E i \in 1 .. k + 1 : s[i] = g.dev_addr) => Counted(t, g) > 0
             /\ Found(w, g) => PlaceOf(w, g) = PlaceOf(t, g) /\ Counted(w, g) = Counted(t, g)
  <2>1. /\ Found(u, g) <=> Found(t, g) /\ ((\E i \in 1 .. k : s[i] = g.dev_addr) => Counted(t, g) > 0)
        /\ Found(u, g) => PlaceOf(u, g) = PlaceOf(t, g) /\ Counted(u, g) = Counted(t, g)
    BY DEF BuiltUpTo
  <2>2. (\E i \in 1 .. k + 1 : s[i] = g.dev_addr) <=> (\E i \in 1 .. k : s[i] = g.dev_addr) \/ g.dev_addr = d
    BY <1>3
  <2>3. /\ Found(w, g) <=> Found(u, g) /\ (g.dev_addr = d => Counted(u, g) > 0)
        /\ Found(w, g) => PlaceOf(w, g) = PlaceOf(u, g) /\ Counted(w, g) = Counted(u, g)
    BY <1>2
  <2>4. ASSUME Found(w, g), g.dev_addr = d \/ \E i \in 1 .. k : s[i] = g.dev_addr
        PROVE  Counted(t, g) > 0
    BY ONLY <2>1, <2>3, <2>4
  <2>5. ASSUME Found(t, g), (g.dev_addr = d \/ \E i \in 1 .. k : s[i] = g.dev_addr) => Counted(t, g) > 0
        PROVE  Found(w, g)
    BY ONLY <2>1, <2>3, <2>5
  <2> QED
    BY ONLY <2>1, <2>2, <2>3, <2>4, <2>5
<1>6. w.tag_changed = t.tag_changed
  BY <1>2 DEF BuiltUpTo
<1> QED
  BY ONLY <1>2, <1>4, <1>5, <1>6 DEF BuiltUpTo

\* The devices are a finite set of numbers.
LEMMA DevicesFinite == Devices \subseteq Nat /\ IsFiniteSet(Devices)
<1> DEFINE f == [h \in Handles |-> h.dev_addr]
<1>1. f \in [Handles -> Devices]
  BY HandleFields
<1>2. \A d \in Devices : \E h \in Handles : f[h] = d
  BY DEF Devices
<1>3. f \in Surjection(Handles, Devices)
  <2> HIDE DEF f
  <2> QED
    BY <1>1, <1>2 DEF Surjection
<1> HIDE DEF f
<1>4. IsFiniteSet(Devices)
  BY <1>3, RegisterAssumption, FS_Surjection
<1>5. \A h \in Handles : h.dev_addr \in Nat
  <2> TAKE h \in Handles
  <2>1. h \in [dev_addr : Nat \ {0}, mem_addr : Nat, size : 1 .. 5]
    BY RegisterAssumption
  <2> QED
    BY <2>1
<1> QED
  BY <1>4, <1>5 DEF Devices

\* rebuild: the changed devices have lost what nobody counts, and the others
\* are as they were.
Rebuilt(t, u) ==
  /\ Sound(u) /\ u.tag_changed = {}
  /\ \A d \in Devices :
       IF d \in t.tag_changed
       THEN d \in u.valid <=> u.row[d] # <<>>
       ELSE u.row[d] = t.row[d] /\ (d \in u.valid <=> d \in t.valid)
  /\ \A g \in Handles :
       /\ Found(u, g) <=> Found(t, g) /\ (g.dev_addr \in t.tag_changed => Counted(t, g) > 0)
       /\ Found(u, g) => PlaceOf(u, g) = PlaceOf(t, g) /\ Counted(u, g) = Counted(t, g)

\* The loop of rebuild.
LEMMA AllBuilt ==
  ASSUME NEW t, Sound(t), NEW s \in Seq(Devices), NEW u, u = Each("build", t, s)
  PROVE  BuiltUpTo(t, s, Len(s), u)
<1> DEFINE n == Len(s)
<1>1. n \in Nat
  OBVIOUS
<1>2. PICK f : /\ f[0] = t
               /\ \A i \in 1 .. n : f[i] = One("build", f[i - 1], s[i])
               /\ f[n] = Each("build", t, s)
  BY <1>1, EachRuns
<1> DEFINE T == {k \in 0 .. n : BuiltUpTo(t, s, k, f[k])}
<1>3. 0 \in T
  <2>1. \A i \in 1 .. 0 : FALSE
    OBVIOUS
  <2>2. \A d : (\E i \in 1 .. 0 : s[i] = d) = FALSE
    BY <2>1
  <2>3. BuiltUpTo(t, s, 0, t)
    BY ONLY Sound(t), <2>2 DEF BuiltUpTo
  <2> QED
    BY <1>1, <1>2, <2>3
<1>4. ASSUME NEW k \in 0 .. n, k \in T, k # n
      PROVE  k + 1 \in T
  <2>1. k + 1 \in 1 .. n /\ (k + 1) - 1 = k /\ k + 1 \in 0 .. n
    BY <1>1, <1>4
  <2>2. f[k + 1] = BuildReq(f[k], s[k + 1])
    <3>1. f[k + 1] = One("build", f[k], s[k + 1])
      BY <1>2, <2>1
    <3> QED
      BY <3>1 DEF One
  <2>3. BuiltUpTo(t, s, k, f[k])
    BY <1>4
  <2>4. BuiltUpTo(t, s, k + 1, f[k + 1])
    BY <1>4, <2>2, <2>3, BuiltNext
  <2> QED
    BY <2>1, <2>4
<1> HIDE DEF T
<1>5. \A k \in 0 .. n : k \in T
  BY <1>1, <1>3, <1>4, UpTo
<1>6. BuiltUpTo(t, s, n, f[n])
  BY <1>1, <1>5 DEF T
<1> QED
  BY <1>2, <1>6

\* The table is as good when only the poll is set elsewhere.
LEMMA PollMoved ==
  ASSUME NEW t, Sound(t), NEW u, TableShape(u), u.reg = t.reg, u.pool = t.pool, u.row = t.row
  PROVE  /\ Sound(u)
         /\ \A g \in Handles : /\ Found(u, g) <=> Found(t, g)
                               /\ PlaceOf(u, g) = PlaceOf(t, g) /\ Counted(u, g) = Counted(t, g)
<1>1. Sound(u)
  BY ONLY SameHandles, Sound(t), TableShape(u), u.reg = t.reg, u.pool = t.pool, u.row = t.row
<1>2. \A g \in Handles : /\ Found(u, g) <=> Found(t, g)
                         /\ PlaceOf(u, g) = PlaceOf(t, g) /\ Counted(u, g) = Counted(t, g)
  BY ONLY u.reg = t.reg, u.row = t.row DEF Found, PlaceOf, Position, Counted
<1> QED
  BY <1>1, <1>2

\* The devices whose rows were changed, one after the other.
LEMMA ChangedInOrder ==
  ASSUME NEW t, Sound(t), NEW s, s = InOrder(t.tag_changed)
  PROVE  /\ s \in Seq(Devices)
         /\ \A d : (\E i \in 1 .. Len(s) : s[i] = d) <=> d \in t.tag_changed
<1>1. t.tag_changed \subseteq Devices
  BY DEF Sound, TableShape
<1>2. t.tag_changed \in SUBSET Nat /\ IsFiniteSet(t.tag_changed)
  BY <1>1, DevicesFinite, FS_Subset
<1>3. PICK c, n : c = t.tag_changed /\ n = Cardinality(c)
  OBVIOUS
<1>4. /\ s \in [1 .. n -> c] /\ n \in Nat
      /\ \A d \in c : \E i \in 1 .. n : s[i] = d
  BY <1>2, <1>3, InOrderIsOrder
<1>5. s \in [1 .. n -> Devices] /\ c \subseteq Devices
  BY <1>1, <1>3, <1>4
<1>6. s \in Seq(Devices) /\ Len(s) = n
  BY <1>4, <1>5
<1>7. \A d : (\E i \in 1 .. n : s[i] = d) <=> d \in c
  BY <1>4
<1> QED
  BY ONLY <1>3, <1>6, <1>7

\* rebuild.
LEMMA RebuildIs ==
  ASSUME NEW t, Sound(t), NEW u, u = Rebuild(t)
  PROVE  Rebuilt(t, u)
<1> DEFINE s == InOrder(t.tag_changed)
           v == Each("build", t, s)
<1>1. TableShape(t) /\ t.tag_changed \subseteq Devices
  BY DEF Sound, TableShape
<1>2. /\ s \in Seq(Devices)
      /\ \A d : (\E i \in 1 .. Len(s) : s[i] = d) <=> d \in t.tag_changed
  BY ChangedInOrder
<1> HIDE DEF s
<1>3. BuiltUpTo(t, s, Len(s), v)
  BY <1>2, AllBuilt
<1>4. u = Restarted([v EXCEPT !.tag_changed = {}])
  BY DEF Rebuild, s
<1> HIDE DEF v
<1>5. Sound(v) /\ TableShape(v)
  BY <1>3 DEF BuiltUpTo, Sound
<1>6. /\ u.reg = v.reg /\ u.pool = v.pool /\ u.row = v.row /\ u.req = v.req /\ u.valid = v.valid
      /\ u.tag_changed = {} /\ DOMAIN u = DOMAIN v
  BY ONLY <1>4, <1>5 DEF Restarted, TableShape
<1>7. TableShape(u)
  BY ONLY <1>5, <1>6 DEF TableShape
<1>8. /\ Sound(u)
      /\ \A g \in Handles : /\ Found(u, g) <=> Found(v, g)
                            /\ PlaceOf(u, g) = PlaceOf(v, g) /\ Counted(u, g) = Counted(v, g)
  BY ONLY <1>5, <1>6, <1>7, PollMoved
<1>9. ASSUME NEW d \in Devices
      PROVE  IF d \in t.tag_changed
             THEN d \in u.valid <=> u.row[d] # <<>>
             ELSE u.row[d] = t.row[d] /\ (d \in u.valid <=> d \in t.valid)
  <2>1. IF \E i \in 1 .. Len(s) : s[i] = d
        THEN d \in v.valid <=> v.row[d] # <<>>
        ELSE v.row[d] = t.row[d] /\ (d \in v.valid <=> d \in t.valid)
    BY <1>3 DEF BuiltUpTo
  <2> QED
    BY ONLY <1>2, <1>6, <2>1
<1>10. ASSUME NEW g \in Handles
       PROVE  /\ Found(u, g) <=> Found(t, g) /\ (g.dev_addr \in t.tag_changed => Counted(t, g) > 0)
              /\ Found(u, g) => PlaceOf(u, g) = PlaceOf(t, g) /\ Counted(u, g) = Counted(t, g)
  <2>1. /\ Found(v, g) <=> /\ Found(t, g)
                           /\ (\E i \in 1 .. Len(s) : s[i] = g.dev_addr) => Counted(t, g) > 0
        /\ Found(v, g) => PlaceOf(v, g) = PlaceOf(t, g) /\ Counted(v, g) = Counted(t, g)
    BY <1>3 DEF BuiltUpTo
  <2> QED
    BY ONLY <1>2, <1>8, <2>1, g \in Handles
<1> QED
  BY ONLY <1>6, <1>8, <1>9, <1>10 DEF Rebuilt

-----------------------------------------------------------------------------
(* The tasks of the worker.                                                 *)

\* A table between two tasks: a device is valid while it has registers, and
\* a register is there while it is counted.
AtRest(t) ==
  /\ Sound(t)
  /\ \A d \in Devices : d \in t.valid <=> t.row[d] # <<>>
  /\ \A g \in Handles : Found(t, g) => Counted(t, g) > 0

\* A register that is found is in the row of its device.
LEMMA FoundIsValid ==
  ASSUME NEW t, AtRest(t), NEW g \in Handles, Found(t, g)
  PROVE  g.dev_addr \in t.valid /\ Counted(t, g) \in Int /\ Counted(t, g) > 0
<1>1. Sound(t) /\ Counted(t, g) > 0 /\ g.dev_addr \in Devices
  BY HandleFields DEF AtRest
<1>2. PlaceOf(t, g) \in ToSet(t.row[g.dev_addr]) /\ Counted(t, g) \in Int
  BY <1>1, LookUp, CountedType
<1>3. t.row[g.dev_addr] # <<>>
  <2>1. t.row[g.dev_addr] \in Seq(Places)
    BY <1>1, RowPlaces
  <2> QED
    BY <1>2, <2>1, SetOfSeq
<1> QED
  BY <1>1, <1>2, <1>3 DEF AtRest

\* Only what a list has is among its elements.
LEMMA AmongIs ==
  ASSUME NEW hs, NEW k \in Nat, NEW g
  PROVE  /\ Among(hs, k, g) \in Nat
         /\ Among(hs, k, g) > 0 <=> \E i \in 1 .. k : hs[i] = g
<1> DEFINE A == {i \in 1 .. k : hs[i] = g}
<1>1. IsFiniteSet(A)
  <2>1. A \subseteq 1 .. k /\ IsFiniteSet(1 .. k)
    BY FS_Interval
  <2> QED
    BY <2>1, FS_Subset
<1>2. Cardinality(A) \in Nat /\ (Cardinality(A) = 0 <=> A = {})
  BY <1>1, FS_CardinalityType, FS_EmptySet
<1>3. A # {} <=> \E i \in 1 .. k : hs[i] = g
  OBVIOUS
<1>4. Among(hs, k, g) = Cardinality(A)
  BY DEF Among
<1> HIDE DEF A
<1>5. Cardinality(A) > 0 <=> A # {}
  BY <1>2
<1> QED
  BY ONLY <1>2, <1>3, <1>4, <1>5

\* t_add_registers: the registers of hs are there, each counted as often as
\* it is among them; all others are as they were, and none is moved.
Added(t, hs, u) ==
  /\ AtRest(u)
  /\ \A g \in Handles :
       /\ Found(u, g) <=> Found(t, g) \/ \E i \in 1 .. Len(hs) : hs[i] = g
       /\ Found(t, g) => PlaceOf(u, g) = PlaceOf(t, g)
       /\ Total(u, g) = Total(t, g) + Among(hs, Len(hs), g)

\* AddRegisters does that.
LEMMA AddTaskDone ==
  ASSUME NEW t, AtRest(t), NEW hs \in Seq(Handles),
         Cardinality({h \in ToSet(hs) : ~Found(t, h)}) <= Len(t.pool),
         NEW u, u = AddRegisters(t, hs)
  PROVE  Added(t, hs, u)
<1> DEFINE n == Len(hs)
           v == Each("add", t, hs)
<1>1. Sound(t) /\ n \in Nat
  BY DEF AtRest
<1>2. AddedUpTo(t, hs, n, v)
  BY <1>1, AllAdded
<1> HIDE DEF v
<1>3. /\ Sound(v) /\ v.valid = t.valid
      /\ \A d \in Devices : v.row[d] = t.row[d] \/ d \in v.tag_changed
      /\ (\A h \in ToSet(hs) : Found(t, h)) => v.row = t.row
      /\ \A g \in Handles :
           /\ Found(v, g) <=> Found(t, g) \/ \E i \in 1 .. n : hs[i] = g
           /\ Found(t, g) => PlaceOf(v, g) = PlaceOf(t, g)
           /\ Total(v, g) = Total(t, g) + Among(hs, n, g)
  BY ONLY <1>2 DEF AddedUpTo
<1>4. ASSUME NEW g \in Handles, Found(v, g)
      PROVE  Counted(v, g) > 0
  <2>1. /\ Among(hs, n, g) \in Nat
        /\ Among(hs, n, g) > 0 <=> \E i \in 1 .. n : hs[i] = g
    BY <1>1, AmongIs
  <2>2. Counted(v, g) = Total(t, g) + Among(hs, n, g)
    BY <1>3, <1>4 DEF Total
  <2>3. CASE Found(t, g)
    <3>1. Total(t, g) \in Int /\ Total(t, g) > 0
      BY <2>3, FoundIsValid DEF Total
    <3> QED
      BY ONLY <2>1, <2>2, <3>1
  <2>4. CASE ~Found(t, g)
    <3>1. Total(t, g) = 0
      BY <2>4 DEF Total
    <3>2. Among(hs, n, g) > 0
      BY <1>3, <1>4, <2>1, <2>4
    <3> QED
      BY ONLY <2>1, <2>2, <3>1, <3>2
  <2> QED
    BY <2>3, <2>4
<1>5. CASE \A h \in ToSet(hs) : Found(t, h)
  <2>1. u = v /\ v.row = t.row
    BY <1>3, <1>5 DEF AddRegisters, v
  <2>2. \A d \in Devices : d \in v.valid <=> v.row[d] # <<>>
    BY <1>3, <2>1 DEF AtRest
  <2>3. AtRest(v)
    BY ONLY <1>3, <1>4, <2>2 DEF AtRest
  <2> QED
    BY ONLY <1>3, <2>1, <2>3 DEF Added, n
<1>6. CASE ~(\A h \in ToSet(hs) : Found(t, h))
  <2>1. u = Rebuild(v)
    BY <1>6 DEF AddRegisters, v
  <2>2. Rebuilt(v, u)
    BY ONLY <1>3, <2>1, RebuildIs
  <2>3. ASSUME NEW d \in Devices
        PROVE  d \in u.valid <=> u.row[d] # <<>>
    <3>1. IF d \in v.tag_changed
          THEN d \in u.valid <=> u.row[d] # <<>>
          ELSE u.row[d] = v.row[d] /\ (d \in u.valid <=> d \in v.valid)
      BY <2>2 DEF Rebuilt
    <3>2. d \in t.valid <=> t.row[d] # <<>>
      BY DEF AtRest
    <3> QED
      BY <1>3, <3>1, <3>2
  <2>4. ASSUME NEW g \in Handles
        PROVE  /\ Found(u, g) <=> Found(v, g)
               /\ Found(u, g) => PlaceOf(u, g) = PlaceOf(v, g) /\ Counted(u, g) = Counted(v, g)
    <3>1. /\ Found(u, g) <=> Found(v, g) /\ (g.dev_addr \in v.tag_changed => Counted(v, g) > 0)
          /\ Found(u, g) => PlaceOf(u, g) = PlaceOf(v, g) /\ Counted(u, g) = Counted(v, g)
      BY ONLY <2>2, g \in Handles DEF Rebuilt
    <3>2. Found(v, g) => Counted(v, g) > 0
      BY <1>4
    <3> QED
      BY ONLY <3>1, <3>2
  <2>5. ASSUME NEW g \in Handles
        PROVE  /\ Found(u, g) => Counted(u, g) > 0
               /\ Found(u, g) <=> Found(t, g) \/ \E i \in 1 .. n : hs[i] = g
               /\ Found(t, g) => PlaceOf(u, g) = PlaceOf(t, g)
               /\ Total(u, g) = Total(t, g) + Among(hs, n, g)
    <3>1. Total(u, g) = Total(v, g)
      BY ONLY <2>4, g \in Handles DEF Total
    <3>2. Found(u, g) => Counted(u, g) > 0
      <4>1. Found(v, g) => Counted(v, g) > 0
        BY <1>4
      <4> QED
        BY ONLY <2>4, <4>1, g \in Handles
    <3>3. /\ Found(v, g) <=> Found(t, g) \/ \E i \in 1 .. n : hs[i] = g
          /\ Found(t, g) => PlaceOf(v, g) = PlaceOf(t, g)
          /\ Total(v, g) = Total(t, g) + Among(hs, n, g)
      BY ONLY <1>3, g \in Handles
    <3>4. Found(u, g) <=> Found(v, g)
      BY <2>4
    <3>5. Found(u, g) => PlaceOf(u, g) = PlaceOf(v, g)
      BY <2>4
    <3> QED
      BY ONLY <3>1, <3>2, <3>3, <3>4, <3>5
  <2>6. AtRest(u)
    <3>1. Sound(u)
      BY <2>2 DEF Rebuilt
    <3> QED
      BY ONLY <2>3, <2>5, <3>1 DEF AtRest
  <2> QED
    BY ONLY <2>5, <2>6 DEF Added, n
<1> QED
  BY <1>5, <1>6

\* t_release_registers: each register's count is lowered by what is given
\* back, and a register is there while something is left.
ReleasedAll(t, xs, u) ==
  /\ AtRest(u)
  /\ \A g \in Handles :
       /\ GivenBack(xs, Len(xs), g) \in Nat
       /\ Found(u, g) <=> Found(t, g) /\ Counted(t, g) - GivenBack(xs, Len(xs), g) > 0
       /\ Found(u, g) => /\ PlaceOf(u, g) = PlaceOf(t, g)
                         /\ Counted(u, g) = Counted(t, g) - GivenBack(xs, Len(xs), g)

\* Only what a list has is given back.
LEMMA BackIs ==
  ASSUME NEW xs, NEW k \in Nat, NEW g, IsFiniteSet(Back(xs, k, g))
  PROVE  /\ GivenBack(xs, k, g) \in Nat
         /\ GivenBack(xs, k, g) > 0 => \E i \in 1 .. k : xs[i][1] = g
<1>1. /\ GivenBack(xs, k, g) \in Nat
      /\ Back(xs, k, g) = {} => GivenBack(xs, k, g) = 0
  BY FS_CardinalityType, FS_EmptySet DEF GivenBack
<1>2. Back(xs, k, g) # {} => \E i \in 1 .. k : xs[i][1] = g
  BY DEF Back
<1> QED
  BY <1>1, <1>2

\* ReleaseRegisters does that.
LEMMA ReleaseTaskDone ==
  ASSUME NEW t, AtRest(t), NEW xs \in Seq(Entries), NEW u, u = ReleaseRegisters(t, xs)
  PROVE  ReleasedAll(t, xs, u)
<1> DEFINE n == Len(xs)
           v == Each("release", t, xs)
           del == \E x \in ToSet(xs) : /\ x[1].dev_addr \in t.valid
                                       /\ Found(t, x[1])
                                       /\ Unused(v.reg[PlaceOf(t, x[1])])
<1>1. Sound(t) /\ n \in Nat
  BY DEF AtRest
<1>2. ReleasedUpTo(t, xs, n, v)
  BY <1>1, AllReleased
<1>3. u = IF del THEN Rebuild(v) ELSE v
  BY DEF ReleaseRegisters
<1>4. \A i \in 1 .. n : xs[i] \in ToSet(xs) /\ xs[i] \in Entries
  BY SetOfSeq
<1> HIDE DEF v
<1>5. /\ Sound(v) /\ v.valid = t.valid /\ v.row = t.row
      /\ \A i \in 1 .. n : xs[i][1].dev_addr \in t.valid => xs[i][1].dev_addr \in v.tag_changed
      /\ \A g \in Handles :
           /\ IsFiniteSet(Back(xs, n, g))
           /\ Found(v, g) <=> Found(t, g)
           /\ Found(t, g) => PlaceOf(v, g) = PlaceOf(t, g)
           /\ Found(t, g) /\ g.dev_addr \in t.valid => Counted(v, g) = Counted(t, g) - GivenBack(xs, n, g)
  BY ONLY <1>2 DEF ReleasedUpTo
<1>6. \A d \in Devices : d \in v.valid <=> v.row[d] # <<>>
  BY <1>5 DEF AtRest
<1>7. ASSUME NEW g \in Handles
      PROVE  /\ GivenBack(xs, n, g) \in Nat
             /\ GivenBack(xs, n, g) > 0 => \E i \in 1 .. n : xs[i][1] = g
  <2>1. IsFiniteSet(Back(xs, n, g))
    BY <1>5
  <2> QED
    BY <1>1, <2>1, BackIs
<1>8. ASSUME NEW g \in Handles, Found(t, g)
      PROVE  /\ Counted(v, g) = Counted(t, g) - GivenBack(xs, n, g) /\ Counted(v, g) \in Int
             /\ ~(Counted(v, g) > 0) => del /\ g.dev_addr \in v.tag_changed
  <2>1. g.dev_addr \in t.valid /\ Counted(t, g) \in Int /\ Counted(t, g) > 0
    BY <1>8, FoundIsValid
  <2>2. Counted(v, g) = Counted(t, g) - GivenBack(xs, n, g)
    BY <1>5, <1>8, <2>1
  <2>3. Counted(v, g) \in Int
    BY <1>7, <2>1, <2>2
  <2>4. ASSUME ~(Counted(v, g) > 0)
        PROVE  del /\ g.dev_addr \in v.tag_changed
    <3>1. GivenBack(xs, n, g) > 0
      <4>1. GivenBack(xs, n, g) \in Nat
        BY <1>7
      <4> QED
        BY ONLY <2>1, <2>2, <2>3, <2>4, <4>1
    <3>2. PICK i \in 1 .. n : xs[i][1] = g
      BY <1>7, <3>1
    <3>3. v.reg[PlaceOf(t, g)].ref_cnt <= 0
      <4>1. Counted(v, g) <= 0
        BY <2>3, <2>4
      <4> QED
        BY <1>5, <1>8, <4>1 DEF Counted
    <3>4. PICK x : x = xs[i]
      OBVIOUS
    <3>5. x \in ToSet(xs) /\ x[1] = g
      BY <1>4, <3>2, <3>4
    <3>6. del
      BY <1>8, <2>1, <3>3, <3>5 DEF Unused
    <3> QED
      BY <1>5, <2>1, <3>2, <3>6
  <2> QED
    BY <2>2, <2>3, <2>4
<1>9. CASE ~del
  <2>1. u = v
    BY <1>3, <1>9
  <2> HIDE DEF del
  <2>2. ASSUME NEW g \in Handles
        PROVE  /\ Found(v, g) => Counted(v, g) > 0
               /\ GivenBack(xs, n, g) \in Nat
               /\ Found(v, g) <=> Found(t, g) /\ Counted(t, g) - GivenBack(xs, n, g) > 0
               /\ Found(v, g) => /\ PlaceOf(v, g) = PlaceOf(t, g)
                                 /\ Counted(v, g) = Counted(t, g) - GivenBack(xs, n, g)
    <3>1. Found(v, g) <=> Found(t, g)
      BY <1>5
    <3>2. Found(t, g) => PlaceOf(v, g) = PlaceOf(t, g)
      BY <1>5
    <3>3. Found(t, g) => Counted(v, g) > 0 /\ Counted(v, g) = Counted(t, g) - GivenBack(xs, n, g)
      BY <1>8, <1>9
    <3>4. GivenBack(xs, n, g) \in Nat
      BY <1>7
    <3> QED
      BY ONLY <3>1, <3>2, <3>3, <3>4
  <2>3. AtRest(v)
    BY ONLY <1>5, <1>6, <2>2 DEF AtRest
  <2> QED
    BY ONLY <2>1, <2>2, <2>3 DEF ReleasedAll, n
<1>10. CASE del
  <2>1. u = Rebuild(v)
    BY <1>3, <1>10
  <2> HIDE DEF del
  <2>2. Rebuilt(v, u)
    BY ONLY <1>5, <2>1, RebuildIs
  <2>3. ASSUME NEW d \in Devices
        PROVE  d \in u.valid <=> u.row[d] # <<>>
    <3>1. IF d \in v.tag_changed
          THEN d \in u.valid <=> u.row[d] # <<>>
          ELSE u.row[d] = v.row[d] /\ (d \in u.valid <=> d \in v.valid)
      BY <2>2 DEF Rebuilt
    <3> QED
      BY <1>6, <3>1
  <2>4. ASSUME NEW g \in Handles
        PROVE  /\ Found(u, g) => Counted(u, g) > 0
               /\ GivenBack(xs, n, g) \in Nat
               /\ Found(u, g) <=> Found(t, g) /\ Counted(t, g) - GivenBack(xs, n, g) > 0
               /\ Found(u, g) => /\ PlaceOf(u, g) = PlaceOf(t, g)
                                 /\ Counted(u, g) = Counted(t, g) - GivenBack(xs, n, g)
    <3>1. /\ Found(u, g) <=> Found(v, g) /\ (g.dev_addr \in v.tag_changed => Counted(v, g) > 0)
          /\ Found(u, g) => PlaceOf(u, g) = PlaceOf(v, g) /\ Counted(u, g) = Counted(v, g)
      BY ONLY <2>2, g \in Handles DEF Rebuilt
    <3>2. /\ Found(v, g) <=> Found(t, g)
          /\ Found(t, g) => PlaceOf(v, g) = PlaceOf(t, g)
      BY <1>5
    <3>3. Found(t, g) => /\ Counted(v, g) = Counted(t, g) - GivenBack(xs, n, g)
                         /\ ~(Counted(v, g) > 0) => g.dev_addr \in v.tag_changed
      BY <1>8
    <3>4. GivenBack(xs, n, g) \in Nat
      BY <1>7
    <3> QED
      BY ONLY <3>1, <3>2, <3>3, <3>4
  <2>5. Sound(u)
    BY <2>2 DEF Rebuilt
  <2>6. AtRest(u)
    BY ONLY <2>3, <2>4, <2>5 DEF AtRest
  <2> QED
    BY ONLY <2>4, <2>6 DEF ReleasedAll, n
<1> QED
  BY <1>9, <1>10

\* t_remove_device: the registers of d are gone, the others as they were.
DeviceRemoved(t, d, u) ==
  /\ AtRest(u)
  /\ \A g \in Handles :
       /\ Found(u, g) <=> Found(t, g) /\ g.dev_addr # d
       /\ Found(u, g) => PlaceOf(u, g) = PlaceOf(t, g) /\ Counted(u, g) = Counted(t, g)

\* RemoveDevice does that.
LEMMA RemoveTaskDone ==
  ASSUME NEW t, AtRest(t), NEW d \in Devices, NEW u, u = RemoveDevice(t, d)
  PROVE  DeviceRemoved(t, d, u)
<1>1. Sound(t) /\ TableShape(t)
  BY DEF AtRest, Sound
<1>2. PICK row : row = t.row[d]
  OBVIOUS
<1>3. /\ row \in Seq(Places) /\ Len(row) \in Nat /\ DOMAIN row = 1 .. Len(row)
      /\ \A i \in 1 .. Len(row) : row[i] \in Places /\ t.reg[row[i]].handle.dev_addr = d
      /\ \A i, j \in 1 .. Len(row) : row[i] = row[j] => i = j
  BY <1>1, <1>2, RowPlaces
<1> DEFINE r == Restarted([t EXCEPT !.valid = @ \ {d}])
           v == Freed(r, row)
<1>4. u = [v EXCEPT !.row[d] = <<>>, !.req[d] = <<>>]
  BY <1>2 DEF RemoveDevice
<1>5. /\ r.reg = t.reg /\ r.pool = t.pool /\ r.row = t.row /\ r.req = t.req
      /\ r.tag_changed = t.tag_changed /\ r.valid = t.valid \ {d} /\ DOMAIN r = DOMAIN t
  BY ONLY <1>1 DEF Restarted, TableShape
<1>6. TableShape(r)
  BY ONLY <1>1, <1>5 DEF TableShape
<1> HIDE DEF r
<1>7. /\ DOMAIN v = DOMAIN r /\ v.pool = Reverse(row) \o r.pool /\ v.row = r.row /\ v.req = r.req
      /\ v.tag_changed = r.tag_changed /\ v.valid = r.valid
      /\ Cleared(r, row, v)
  <2>1. v = Freed(r, row)
    OBVIOUS
  <2> HIDE DEF v
  <2> QED
    BY ONLY <1>3, <1>6, <2>1, FreedIs
<1> HIDE DEF v
<1>8. /\ DOMAIN u = DOMAIN v /\ u.pool = v.pool /\ u.reg = v.reg
      /\ u.row = [v.row EXCEPT ![d] = <<>>] /\ u.req = [v.req EXCEPT ![d] = <<>>]
      /\ u.tag_changed = v.tag_changed /\ u.valid = v.valid
  <2>1. DOMAIN v = {"reg", "pool", "row", "req", "tag_changed", "valid", "advc", "req_ix"}
    BY <1>1, <1>5, <1>7 DEF TableShape
  <2> QED
    BY ONLY <1>4, <2>1
<1>9. Picked(row, {}) = <<>>
  <2>1. {} \in SUBSET (1 .. Len(row))
    OBVIOUS
  <2>2. Picked(row, {}) \in Seq(Places) /\ Len(Picked(row, {})) = Cardinality({})
    BY ONLY <1>3, <2>1, PickedElements
  <2>3. Cardinality({}) = 0
    BY FS_EmptySet
  <2> QED
    BY <2>2, <2>3
<1>10. CutTo(t, d, row, {}, row, u)
  <2>1. row \in Seq(Places) /\ {} \in SUBSET (1 .. Len(row)) /\ t.row[d] = row
    BY <1>2, <1>3
  <2>2. IsInjective(row)
    BY <1>3, InjectiveSeq
  <2>3. ToSet(row) = Others(row, {})
    <3>1. ToSet(row) = {row[i] : i \in 1 .. Len(row)} /\ (1 .. Len(row)) \ {} = 1 .. Len(row)
      BY <1>3, SetOfSeq
    <3> QED
      BY ONLY <3>1 DEF Others
  <2>4. DOMAIN u = DOMAIN t /\ u.pool = Reverse(row) \o t.pool
    BY ONLY <1>5, <1>7, <1>8
  <2>5. u.row = [t.row EXCEPT ![d] = Picked(row, {})]
    BY ONLY <1>5, <1>7, <1>8, <1>9
  <2>6. Cleared(t, row, u)
    BY ONLY <1>5, <1>7, <1>8 DEF Cleared
  <2>7. DOMAIN u.req = Devices /\ u.tag_changed \subseteq Devices /\ u.valid \subseteq Devices
    BY ONLY <1>1, <1>5, <1>7, <1>8 DEF TableShape
  <2> QED
    BY ONLY <1>1, <2>1, <2>2, <2>3, <2>4, <2>5, <2>6, <2>7, d \in Devices DEF CutTo
<1>11. /\ Sound(u)
       /\ \A g \in Handles :
            /\ Found(u, g) <=> Found(t, g) /\ PlaceOf(t, g) \notin ToSet(row)
            /\ Found(u, g) => PlaceOf(u, g) = PlaceOf(t, g) /\ Counted(u, g) = Counted(t, g)
  BY ONLY <1>10, RowCut
<1>12. ASSUME NEW g \in Handles, Found(t, g)
       PROVE  PlaceOf(t, g) \in ToSet(row) <=> g.dev_addr = d
  <2>1. t.reg[PlaceOf(t, g)].handle = g /\ PlaceOf(t, g) \in ToSet(t.row[g.dev_addr])
    BY <1>1, <1>12, LookUp
  <2>2. ASSUME PlaceOf(t, g) \in ToSet(row)
        PROVE  g.dev_addr = d
    <3>1. PICK i \in 1 .. Len(row) : PlaceOf(t, g) = row[i]
      BY <1>3, <2>2, SetOfSeq
    <3> QED
      BY <1>3, <2>1, <3>1
  <2> QED
    BY <1>2, <2>1, <2>2
<1>13. \A e \in Devices : e \in u.valid <=> u.row[e] # <<>>
  <2> TAKE e \in Devices
  <2>1. t.row \in [Devices -> Seq(Places)] /\ (e \in t.valid <=> t.row[e] # <<>>)
    BY <1>1 DEF TableShape, AtRest
  <2>2. u.row = [t.row EXCEPT ![d] = <<>>] /\ u.valid = t.valid \ {d}
    BY ONLY <1>5, <1>7, <1>8
  <2> QED
    BY ONLY <2>1, <2>2, e \in Devices
<1>14. \A g \in Handles : /\ Found(u, g) <=> Found(t, g) /\ g.dev_addr # d
                          /\ Found(u, g) => Counted(u, g) > 0
  <2> TAKE g \in Handles
  <2>1. Found(u, g) <=> Found(t, g) /\ g.dev_addr # d
    BY <1>11, <1>12
  <2>2. Found(t, g) => Counted(t, g) > 0
    BY DEF AtRest
  <2>3. Found(u, g) => Counted(u, g) = Counted(t, g)
    BY <1>11
  <2> QED
    BY ONLY <2>1, <2>2, <2>3
<1>15. AtRest(u)
  BY ONLY <1>11, <1>13, <1>14 DEF AtRest
<1> QED
  BY ONLY <1>11, <1>14, <1>15 DEF DeviceRemoved

\* A poll changes values, and no register is made, counted or moved.
Polled(t, u) ==
  /\ AtRest(u)
  /\ u.row = t.row
  /\ \A p \in Places : u.reg[p].handle = t.reg[p].handle /\ u.reg[p].ref_cnt = t.reg[p].ref_cnt
  /\ \A g \in Handles :
       /\ Found(u, g) <=> Found(t, g)
       /\ PlaceOf(u, g) = PlaceOf(t, g) /\ (Found(t, g) => Counted(u, g) = Counted(t, g))

\* Registers whose handles and counts are the same leave a table at rest.
LEMMA ValuesChanged ==
  ASSUME NEW t, AtRest(t), NEW u, TableShape(u), u.pool = t.pool, u.row = t.row, u.valid = t.valid,
         \A p \in Places : u.reg[p].handle = t.reg[p].handle /\ u.reg[p].ref_cnt = t.reg[p].ref_cnt
  PROVE  Polled(t, u)
<1>1. Sound(t)
  BY DEF AtRest
<1>2. Sound(u)
  BY <1>1, SameHandles
<1>3. ASSUME NEW g \in Handles
      PROVE  /\ Found(u, g) <=> Found(t, g)
             /\ PlaceOf(u, g) = PlaceOf(t, g) /\ (Found(t, g) => Counted(u, g) = Counted(t, g))
  <2>1. g.dev_addr \in Devices
    BY HandleFields
  <2>2. DOMAIN t.row[g.dev_addr] = 1 .. Len(t.row[g.dev_addr])
        /\ \A i \in 1 .. Len(t.row[g.dev_addr]) : t.row[g.dev_addr][i] \in Places
    BY <1>1, <2>1, RowPlaces
  <2>3. \A i \in DOMAIN t.row[g.dev_addr] :
          u.reg[t.row[g.dev_addr][i]].handle = t.reg[t.row[g.dev_addr][i]].handle
    BY <2>2
  <2>4. Position(u, g) = Position(t, g)
    <3>1. {i \in DOMAIN t.row[g.dev_addr] : Before(u.reg[t.row[g.dev_addr][i]].handle, g)}
            = {i \in DOMAIN t.row[g.dev_addr] : Before(t.reg[t.row[g.dev_addr][i]].handle, g)}
      BY <2>3
    <3> QED
      BY ONLY <3>1, u.row = t.row DEF Position
  <2>5. PlaceOf(u, g) = PlaceOf(t, g)
    BY ONLY <2>4, u.row = t.row DEF PlaceOf
  <2>6. Found(u, g) <=> Found(t, g)
    <3>1. \A p \in Places : u.reg[p].handle = g <=> t.reg[p].handle = g
      OBVIOUS
    <3> QED
      BY ONLY <1>1, <1>2, <3>1, SamePlace, g \in Handles
  <2>7. Found(t, g) => PlaceOf(t, g) \in Places
    BY <1>1, LookUp
  <2>8. Found(t, g) => Counted(u, g) = Counted(t, g)
    BY <2>5, <2>7 DEF Counted
  <2> QED
    BY ONLY <2>5, <2>6, <2>8
<1>4. \A d \in Devices : d \in u.valid <=> u.row[d] # <<>>
  BY DEF AtRest
<1>5. \A g \in Handles : Found(u, g) => Counted(u, g) > 0
  <2> TAKE g \in Handles
  <2>1. Found(t, g) => Counted(t, g) > 0
    BY DEF AtRest
  <2> QED
    BY <1>3, <2>1
<1>6. AtRest(u)
  BY ONLY <1>2, <1>4, <1>5 DEF AtRest
<1> QED
  BY <1>3, <1>6 DEF Polled

\* Advancing the poll changes nothing else.
LEMMA AdvancedIs ==
  ASSUME NEW t, TableShape(t), NEW u, u = Advanced(t)
  PROVE  /\ TableShape(u) /\ u.reg = t.reg /\ u.pool = t.pool /\ u.row = t.row /\ u.valid = t.valid
<1>1. /\ DOMAIN u = DOMAIN t /\ u.reg = t.reg /\ u.pool = t.pool /\ u.row = t.row /\ u.valid = t.valid
      /\ u.req = t.req /\ u.tag_changed = t.tag_changed
  <2>1. CASE t.req_ix < Len(t.req[t.advc])
    BY <2>1 DEF Advanced, TableShape
  <2>2. CASE ~(t.req_ix < Len(t.req[t.advc]))
    BY <2>2 DEF Advanced, TableShape
  <2> QED
    BY <2>1, <2>2
<1> QED
  BY <1>1 DEF TableShape

\* From t to v registers were read, or not: only values are new.
Read(t, v) ==
  /\ TableShape(v) /\ v.pool = t.pool /\ v.row = t.row /\ v.req = t.req
  /\ v.valid = t.valid /\ v.advc = t.advc /\ v.req_ix = t.req_ix
  /\ \A p \in Places : v.reg[p].handle = t.reg[p].handle /\ v.reg[p].ref_cnt = t.reg[p].ref_cnt

\* Polls reads and advances.
LEMMA PollReads ==
  ASSUME NEW t, TableShape(t), NEW u \in Polls(t)
  PROVE  \E v : u = Advanced(v) /\ Read(t, v)
<1>1. TableShape(t)
  OBVIOUS
<1> DEFINE asked == ToSet(Request(t))
<1>2. PICK v : /\ u = Advanced(v)
               /\ \/ v = [t EXCEPT !.reg = [p \in Places |->
                            IF p \in asked THEN [@[p] EXCEPT !.op_available = "not_responded"] ELSE @[p]]]
                  \/ \E answer \in [asked -> Values] :
                       v = [t EXCEPT !.reg = [p \in Places |->
                              IF p \in asked
                              THEN [@[p] EXCEPT !.op_value = answer[p], !.op_available = "available"] ELSE @[p]]]
  <2>1. CASE u = NotAnswered(t)
    BY <2>1 DEF NotAnswered
  <2>2. CASE \E answer \in [asked -> Values] : u = Answered(t, answer)
    BY <2>2 DEF Answered
  <2> QED
    BY <2>1, <2>2 DEF Polls
<1> HIDE DEF asked
<1>3. /\ DOMAIN v = DOMAIN t /\ v.pool = t.pool /\ v.row = t.row /\ v.valid = t.valid
      /\ v.req = t.req /\ v.tag_changed = t.tag_changed /\ v.advc = t.advc /\ v.req_ix = t.req_ix
      /\ v.reg \in [Places -> Registers]
      /\ \A p \in Places : v.reg[p].handle = t.reg[p].handle /\ v.reg[p].ref_cnt = t.reg[p].ref_cnt
  <2>1. CASE v = [t EXCEPT !.reg = [p \in Places |->
                    IF p \in asked THEN [@[p] EXCEPT !.op_available = "not_responded"] ELSE @[p]]]
    <3>1. /\ DOMAIN v = DOMAIN t /\ v.pool = t.pool /\ v.row = t.row /\ v.valid = t.valid
          /\ v.req = t.req /\ v.tag_changed = t.tag_changed /\ v.advc = t.advc /\ v.req_ix = t.req_ix
          /\ v.reg = [p \in Places |->
               IF p \in asked THEN [t.reg[p] EXCEPT !.op_available = "not_responded"] ELSE t.reg[p]]
      BY <1>1, <2>1 DEF TableShape
    <3>2. ASSUME NEW p \in Places
          PROVE  v.reg[p] \in Registers /\ v.reg[p].handle = t.reg[p].handle /\ v.reg[p].ref_cnt = t.reg[p].ref_cnt
      <4>1. t.reg[p] \in Registers
        BY <1>1 DEF TableShape
      <4>2. PICK r : r = [t.reg[p] EXCEPT !.op_available = "not_responded"]
        OBVIOUS
      <4>3. r \in Registers /\ r.handle = t.reg[p].handle /\ r.ref_cnt = t.reg[p].ref_cnt
        BY ONLY <4>1, <4>2 DEF Registers
      <4>4. v.reg[p] = IF p \in asked THEN r ELSE t.reg[p]
        BY <3>1, <4>2
      <4> QED
        BY ONLY <4>1, <4>3, <4>4
    <3>3. v.reg \in [Places -> Registers]
      BY ONLY <3>1, <3>2
    <3> QED
      BY ONLY <3>1, <3>2, <3>3
  <2>2. ASSUME NEW answer \in [asked -> Values],
               v = [t EXCEPT !.reg = [p \in Places |->
                      IF p \in asked
                      THEN [@[p] EXCEPT !.op_value = answer[p], !.op_available = "available"] ELSE @[p]]]
        PROVE  /\ DOMAIN v = DOMAIN t /\ v.pool = t.pool /\ v.row = t.row /\ v.valid = t.valid
               /\ v.req = t.req /\ v.tag_changed = t.tag_changed /\ v.advc = t.advc /\ v.req_ix = t.req_ix
               /\ v.reg \in [Places -> Registers]
               /\ \A p \in Places : v.reg[p].handle = t.reg[p].handle /\ v.reg[p].ref_cnt = t.reg[p].ref_cnt
    <3>1. /\ DOMAIN v = DOMAIN t /\ v.pool = t.pool /\ v.row = t.row /\ v.valid = t.valid
          /\ v.req = t.req /\ v.tag_changed = t.tag_changed /\ v.advc = t.advc /\ v.req_ix = t.req_ix
          /\ v.reg = [p \in Places |->
               IF p \in asked
               THEN [t.reg[p] EXCEPT !.op_value = answer[p], !.op_available = "available"] ELSE t.reg[p]]
      BY <1>1, <2>2 DEF TableShape
    <3>2. ASSUME NEW p \in Places
          PROVE  v.reg[p] \in Registers /\ v.reg[p].handle = t.reg[p].handle /\ v.reg[p].ref_cnt = t.reg[p].ref_cnt
      <4>1. t.reg[p] \in Registers
        BY <1>1 DEF TableShape
      <4>2. PICK r : r = [[t.reg[p] EXCEPT !.op_value = answer[p]] EXCEPT !.op_available = "available"]
        OBVIOUS
      <4>3. p \in asked => r \in Registers
        <5>1. PICK q : q = [t.reg[p] EXCEPT !.op_value = answer[p]]
          OBVIOUS
        <5>2. p \in asked => answer[p] \in Values
          OBVIOUS
        <5>3. p \in asked => q \in Registers
          BY ONLY <4>1, <5>1, <5>2 DEF Registers
        <5> QED
          BY ONLY <4>2, <5>1, <5>3 DEF Registers
      <4>4. r.handle = t.reg[p].handle /\ r.ref_cnt = t.reg[p].ref_cnt
        BY ONLY <4>1, <4>2 DEF Registers
      <4>5. v.reg[p] = IF p \in asked THEN r ELSE t.reg[p]
        BY ONLY <3>1, <4>2, p \in Places
      <4> QED
        BY ONLY <4>1, <4>3, <4>4, <4>5
    <3>3. v.reg \in [Places -> Registers]
      BY ONLY <3>1, <3>2
    <3> QED
      BY ONLY <3>1, <3>2, <3>3
  <2> QED
    BY <1>2, <2>1, <2>2
<1>4. TableShape(v)
  BY ONLY <1>1, <1>3 DEF TableShape
<1> QED
  BY <1>2, <1>3, <1>4 DEF Read

\* It changes nothing else.
LEMMA PollDone ==
  ASSUME NEW t, AtRest(t), NEW u \in Polls(t)
  PROVE  Polled(t, u)
<1>1. TableShape(t)
  BY DEF AtRest, Sound
<1>2. PICK v : u = Advanced(v) /\ Read(t, v)
  BY <1>1, PollReads
<1>3. /\ TableShape(u) /\ u.reg = v.reg /\ u.pool = v.pool /\ u.row = v.row /\ u.valid = v.valid
  BY <1>2, AdvancedIs DEF Read
<1> QED
  BY ONLY <1>2, <1>3, ValuesChanged, AtRest(t) DEF Read

\* Nothing is in the table at first.
LEMMA InitialAtRest ==
  /\ AtRest(InitialTable)
  /\ \A g \in Handles : ~Found(InitialTable, g)
  /\ \A p \in Places : InitialTable.reg[p].handle = NoHandle
<1>1. PICK t : t = InitialTable
  OBVIOUS
<1>2. PICK s : s = SetToSeq(Places)
  OBVIOUS
<1>3. /\ DOMAIN t = {"reg", "pool", "row", "req", "tag_changed", "valid", "advc", "req_ix"}
      /\ t.reg = [p \in Places |-> [handle |-> NoHandle, op_value |-> Garbage,
                                    op_available |-> "unknown", ref_cnt |-> 0]]
      /\ t.pool = s /\ t.row = [d \in Devices |-> <<>>] /\ t.req = [d \in Devices |-> <<>>]
      /\ t.tag_changed = {} /\ t.valid = {}
  BY <1>1, <1>2 DEF InitialTable
<1>4. s \in Seq(Places) /\ IsInjective(s) /\ \A p \in Places : p \in ToSet(s)
  <2>1. PICK n : n = Cardinality(Places)
    OBVIOUS
  <2>2. /\ s \in [1 .. n -> Places] /\ n \in Nat /\ s \in Seq(Places) /\ Len(s) = n
        /\ \A i, j \in 1 .. n : s[i] = s[j] => i = j
        /\ \A p \in Places : \E i \in 1 .. n : s[i] = p
    BY <1>2, <2>1, RegisterAssumption, SetAsSeq
  <2>3. ToSet(s) = {s[i] : i \in 1 .. n}
    BY <2>2, SetOfSeq
  <2>4. IsInjective(s)
    BY <2>2, InjectiveSeq
  <2> QED
    BY <2>2, <2>3, <2>4
<1>5. \A p \in Places : t.reg[p] \in Registers /\ t.reg[p].handle = NoHandle
  BY ONLY <1>3 DEF Registers
<1>6. t.row \in [Devices -> Seq(Places)] /\ \A d \in Devices : t.row[d] = <<>> /\ Len(t.row[d]) = 0
  BY ONLY <1>3
<1>7. TableShape(t)
  <2>1. t.reg \in [Places -> Registers]
    BY ONLY <1>3, <1>5
  <2>2. DOMAIN t.req = Devices
    BY ONLY <1>3
  <2> QED
    BY ONLY <1>3, <1>4, <1>6, <2>1, <2>2 DEF TableShape
<1>8. EachPlace(t)
  <2>1. \A i \in 1 .. 0 : FALSE
    OBVIOUS
  <2> QED
    BY ONLY <1>3, <1>4, <1>5, <1>6, <2>1 DEF EachPlace
<1>9. RowsSorted(t)
  <2>1. \A d \in Devices : DOMAIN t.row[d] = {}
    BY <1>6
  <2> QED
    BY <2>1 DEF RowsSorted
<1>10. Sound(t)
  BY <1>7, <1>8, <1>9 DEF Sound
<1>11. \A g \in Handles : ~Found(t, g)
  <2> TAKE g \in Handles
  <2>1. g # NoHandle
    BY HandleFields
  <2> QED
    BY <1>5, <1>10, <2>1, LookUp
<1>12. AtRest(t)
  BY <1>3, <1>6, <1>10, <1>11 DEF AtRest
<1> QED
  BY <1>1, <1>5, <1>11, <1>12

\* Every place of a sound table is free or in one row, once.
LEMMA SoundIsShared ==
  ASSUME NEW t, Sound(t)
  PROVE  PlacesShared(t) /\ RowsSorted(t)
<1>1. TableShape(t) /\ EachPlace(t) /\ RowsSorted(t)
  BY DEF Sound
<1>2. t.pool \in Seq(Places) /\ IsInjective(t.pool) /\ ToSet(t.pool) \subseteq Places
  BY <1>1, SetOfSeq DEF TableShape
<1>3. ToSet(t.pool) = Places \ Live(t)
  BY <1>1, <1>2 DEF EachPlace, Live
<1>4. Len(t.pool) = Cardinality(ToSet(t.pool))
  <2>1. PICK n : n = Len(t.pool)
    OBVIOUS
  <2>2. n \in Nat /\ ToSet(t.pool) = {t.pool[i] : i \in 1 .. n}
    BY <1>2, <2>1, SetOfSeq
  <2>3. \A i, j \in 1 .. n : t.pool[i] = t.pool[j] => i = j
    BY <1>2, <2>1, InjectiveSeq
  <2>4. t.pool \in [1 .. n -> ToSet(t.pool)]
    <3>1. t.pool = [i \in 1 .. n |-> t.pool[i]]
      BY <1>2, <2>1
    <3>2. \A i \in 1 .. n : t.pool[i] \in ToSet(t.pool)
      BY <2>2
    <3> QED
      BY <3>1, <3>2
  <2>5. t.pool \in Bijection(1 .. n, ToSet(t.pool))
    BY <1>2, <2>2, <2>4 DEF Bijection, Injection, Surjection
  <2>6. ExistsBijection(1 .. n, ToSet(t.pool))
    BY <2>5 DEF ExistsBijection
  <2>7. Cardinality(ToSet(t.pool)) = n
    BY <2>2, <2>6, FS_CountingElements
  <2> QED
    BY <2>1, <2>7
<1>5. ASSUME NEW d \in Devices, NEW p \in ToSet(t.row[d])
      PROVE  p \in Places /\ p \in Live(t) /\ t.reg[p].handle.dev_addr = d
  <2>1. PICK i \in 1 .. Len(t.row[d]) : p = t.row[d][i]
    <3>1. t.row[d] \in Seq(Places)
      BY RowPlaces
    <3> QED
      BY <3>1, SetOfSeq
  <2>2. p \in Places /\ t.reg[p].handle # NoHandle /\ t.reg[p].handle.dev_addr = d
    BY <2>1, RowPlaces
  <2> QED
    BY <2>2 DEF Live
<1>6. ASSUME NEW p \in Live(t)
      PROVE  \E d \in Devices : p \in ToSet(t.row[d])
  <2>1. p \in Places /\ t.reg[p].handle # NoHandle
    BY DEF Live
  <2>2. t.reg[p].handle \in Handles
    BY <1>1, <2>1 DEF TableShape, Registers
  <2>3. t.reg[p].handle.dev_addr \in Devices
    BY <2>2, HandleFields
  <2> QED
    BY <1>1, <2>1, <2>3 DEF EachPlace
<1>7. Live(t) = UNION {ToSet(t.row[d]) : d \in Devices}
  BY <1>5, <1>6
<1> QED
  BY <1>1, <1>3, <1>4, <1>5, <1>7 DEF PlacesShared

-----------------------------------------------------------------------------
(* What clients are told.                                                   *)

\* The fields of a table that its values are in.
Fields == {"reg", "pool", "row", "req", "tag_changed", "valid", "advc", "req_ix"}
Kind(t) == DOMAIN t = Fields /\ t.reg \in [Places -> Registers]

\* What is known of each register is what was known of it, or nothing.
StillSaid(r, x) ==
  x.op_available = "unknown" \/ (x.op_available = r.op_available /\ x.op_value = r.op_value)
SaidStill(t, u) == \A p \in Places : StillSaid(t.reg[p], u.reg[p])

\* CountBy.
LEMMA CountSaid ==
  ASSUME NEW t, Kind(t), NEW h, NEW k \in Int, NEW u, u = CountBy(t, h, k)
  PROVE  Kind(u) /\ SaidStill(t, u)
<1> DEFINE q == PlaceOf(t, h)
           r == [t.reg[q] EXCEPT !.ref_cnt = @ + k]
<1>1. DOMAIN u = Fields /\ u.reg = [t.reg EXCEPT ![q] = r]
  BY DEF CountBy, Kind, Fields
<1>2. \A p \in Places : t.reg[p] \in Registers
  BY DEF Kind
<1>3. q \in Places => /\ r \in Registers /\ r.op_available = t.reg[q].op_available
                      /\ r.op_value = t.reg[q].op_value
  BY <1>2 DEF Registers
<1> HIDE DEF q, r
<1>4. DOMAIN u.reg = Places /\ \A p \in Places : u.reg[p] = IF p = q THEN r ELSE t.reg[p]
  BY <1>1 DEF Kind
<1>5. \A p \in Places : u.reg[p] \in Registers /\ StillSaid(t.reg[p], u.reg[p])
  BY <1>2, <1>3, <1>4 DEF StillSaid
<1>6. u.reg \in [Places -> Registers]
  BY <1>1, <1>3 DEF Kind
<1> QED
  BY <1>1, <1>5, <1>6 DEF Kind, SaidStill

\* add_register.
LEMMA AddSaid ==
  ASSUME NEW t, Kind(t), NEW h \in Handles, NEW u, u = AddOne(t, h)
  PROVE  Kind(u) /\ SaidStill(t, u)
<1>1. CASE Found(t, h)
  <2>1. u = CountBy(t, h, 1)
    BY <1>1 DEF AddOne
  <2> QED
    BY <2>1, CountSaid
<1>2. CASE ~Found(t, h)
  <2> DEFINE q == Head(t.pool)
             r == [t.reg[q] EXCEPT !.handle = h, !.ref_cnt = 1, !.op_available = "unknown"]
  <2>1. DOMAIN u = Fields /\ u.reg = [t.reg EXCEPT ![q] = r]
    BY <1>2 DEF AddOne, Kind, Fields
  <2>2. \A p \in Places : t.reg[p] \in Registers
    BY DEF Kind
  <2>3. q \in Places => r \in Registers /\ r.op_available = "unknown"
    <3>1. PICK a, b, c : /\ a = t.reg[q] /\ b = [a EXCEPT !.handle = h] /\ c = [b EXCEPT !.ref_cnt = 1]
      OBVIOUS
    <3>2. r = [c EXCEPT !.op_available = "unknown"]
      BY <3>1
    <3>3. q \in Places => b \in Registers
      BY <2>2, <3>1 DEF Registers
    <3> HIDE DEF q, r
    <3>5. c = [b EXCEPT !.ref_cnt = 1] /\ 1 \in Int
      BY <3>1
    <3>4. q \in Places => c \in Registers
      BY ONLY <3>3, <3>5 DEF Registers
    <3> QED
      BY <3>2, <3>4 DEF Registers
  <2> HIDE DEF q, r
  <2>4. \A p \in Places : u.reg[p] = IF p = q THEN r ELSE t.reg[p]
    BY <2>1 DEF Kind
  <2>5. \A p \in Places : StillSaid(t.reg[p], u.reg[p])
    BY <2>3, <2>4 DEF StillSaid
  <2>6. u.reg \in [Places -> Registers]
    BY <2>1, <2>3 DEF Kind
  <2> QED
    BY <2>1, <2>5, <2>6 DEF Kind, SaidStill
<1> QED
  BY <1>1, <1>2

\* release_register.
LEMMA ReleaseSaid ==
  ASSUME NEW t, Kind(t), NEW x \in Entries, NEW u, u = ReleaseOne(t, x)
  PROVE  Kind(u) /\ SaidStill(t, u)
<1> DEFINE v == [t EXCEPT !.tag_changed = @ \cup {x[1].dev_addr}]
<1>1. v.reg = t.reg /\ DOMAIN v = Fields
  BY DEF Kind, Fields
<1> HIDE DEF v
<1>2. Kind(v) /\ SaidStill(t, t) /\ SaidStill(t, v)
  BY <1>1 DEF Kind, SaidStill, StillSaid
<1>3. -x[2] \in Int
  BY DEF Entries
<1>4. u = t \/ u = v \/ u = CountBy(v, x[1], -x[2])
  BY DEF ReleaseOne, v
<1>5. CASE u = t
  BY <1>2, <1>5
<1>6. CASE u = v
  BY <1>2, <1>6
<1>7. CASE u = CountBy(v, x[1], -x[2])
  <2>1. Kind(u) /\ SaidStill(v, u)
    BY <1>2, <1>3, <1>7, CountSaid
  <2> QED
    BY <1>1, <2>1 DEF SaidStill
<1> QED
  BY <1>4, <1>5, <1>6, <1>7

\* `delete`.
LEMMA FreedSaid ==
  ASSUME NEW t, Kind(t), NEW s, NEW u, u = Freed(t, s)
  PROVE  Kind(u) /\ SaidStill(t, u)
<1>1. /\ DOMAIN u = Fields
      /\ u.reg = [p \in Places |-> IF p \in ToSet(s) THEN [t.reg[p] EXCEPT !.handle = NoHandle] ELSE t.reg[p]]
  BY DEF Freed, Kind, Fields
<1>2. ASSUME NEW p \in Places
      PROVE  u.reg[p] \in Registers /\ StillSaid(t.reg[p], u.reg[p])
  <2>1. t.reg[p] \in Registers
    BY DEF Kind
  <2>2. u.reg[p] = IF p \in ToSet(s) THEN [t.reg[p] EXCEPT !.handle = NoHandle] ELSE t.reg[p]
    BY ONLY <1>1, p \in Places
  <2>3. PICK r : r = [t.reg[p] EXCEPT !.handle = NoHandle]
    OBVIOUS
  <2>4. r \in Registers /\ r.op_available = t.reg[p].op_available /\ r.op_value = t.reg[p].op_value
    BY ONLY <2>1, <2>3 DEF Registers
  <2> QED
    BY ONLY <2>1, <2>2, <2>3, <2>4 DEF StillSaid
<1>3. u.reg \in [Places -> Registers]
  BY ONLY <1>1, <1>2
<1> QED
  BY <1>1, <1>2, <1>3 DEF Kind, SaidStill

\* build_req.
LEMMA BuildSaid ==
  ASSUME NEW t, Kind(t), NEW d, NEW u, u = BuildReq(t, d)
  PROVE  Kind(u) /\ SaidStill(t, u)
<1>1. PICK s : /\ DOMAIN u = DOMAIN Freed(t, s) /\ u.reg = Freed(t, s).reg
  <2> DEFINE used == {i \in DOMAIN t.row[d] : t.reg[t.row[d][i]].ref_cnt > 0}
             kept == Picked(t.row[d], used)
             dead == Picked(t.row[d], DOMAIN t.row[d] \ used)
             v == Freed(t, dead)
  <2>1. u = [v EXCEPT !.row[d] = kept,
                      !.req[d] = RequestsOf(t.reg, kept),
                      !.valid = IF kept = <<>> THEN @ \ {d} ELSE @ \cup {d}]
    BY DEF BuildReq
  <2>2. DOMAIN v = Fields
    BY FreedSaid DEF Kind
  <2> HIDE DEF v
  <2>3. DOMAIN u = DOMAIN v /\ u.reg = v.reg
    BY <2>1, <2>2 DEF Fields
  <2> QED
    BY <2>3 DEF v
<1>2. PICK v : v = Freed(t, s)
  OBVIOUS
<1>3. Kind(v) /\ SaidStill(t, v)
  BY <1>2, FreedSaid
<1> QED
  BY <1>1, <1>2, <1>3 DEF Kind, SaidStill

\* What is said after two operations.
LEMMA SaidTwice ==
  ASSUME NEW t, NEW v, NEW u, SaidStill(t, v), SaidStill(v, u)
  PROVE  SaidStill(t, u)
BY DEF SaidStill, StillSaid

\* The loops.
LEMMA EachSaid ==
  ASSUME NEW t, Kind(t), NEW op, NEW s, Len(s) \in Nat,
         \/ op = "add" /\ \A i \in 1 .. Len(s) : s[i] \in Handles
         \/ op = "release" /\ \A i \in 1 .. Len(s) : s[i] \in Entries
         \/ op = "build",
         NEW u, u = Each(op, t, s)
  PROVE  Kind(u) /\ SaidStill(t, u)
<1> DEFINE n == Len(s)
<1>1. PICK f : /\ f[0] = t
               /\ \A i \in 1 .. n : f[i] = One(op, f[i - 1], s[i])
               /\ f[n] = Each(op, t, s)
  BY EachRuns
<1> DEFINE T == {k \in 0 .. n : Kind(f[k]) /\ SaidStill(t, f[k])}
<1>2. 0 \in T
  BY <1>1 DEF SaidStill, StillSaid
<1>3. ASSUME NEW k \in 0 .. n, k \in T, k # n
      PROVE  k + 1 \in T
  <2>1. k + 1 \in 1 .. n /\ (k + 1) - 1 = k /\ k + 1 \in 0 .. n
    BY <1>3
  <2>2. PICK v, w, x : v = f[k] /\ w = f[k + 1] /\ x = s[k + 1]
    OBVIOUS
  <2>3. w = One(op, v, x)
    BY <1>1, <2>1, <2>2
  <2>4. Kind(v) /\ SaidStill(t, v)
    BY <1>3, <2>2
  <2>5. Kind(w) /\ SaidStill(v, w)
    <3>1. CASE op = "add"
      <4>1. x \in Handles /\ w = AddOne(v, x)
        BY <2>1, <2>2, <2>3, <3>1 DEF One
      <4> QED
        BY <2>4, <4>1, AddSaid
    <3>2. CASE op = "release"
      <4>1. x \in Entries /\ w = ReleaseOne(v, x)
        BY <2>1, <2>2, <2>3, <3>2 DEF One
      <4> QED
        BY <2>4, <4>1, ReleaseSaid
    <3>3. CASE op = "build"
      <4>1. w = BuildReq(v, x)
        BY <2>3, <3>3 DEF One
      <4> QED
        BY <2>4, <4>1, BuildSaid
    <3> QED
      BY <3>1, <3>2, <3>3
  <2>6. SaidStill(t, w)
    BY <2>4, <2>5, SaidTwice
  <2> QED
    BY <2>1, <2>2, <2>5, <2>6
<1> HIDE DEF T
<1>4. \A k \in 0 .. n : k \in T
  BY <1>2, <1>3, UpTo
<1>5. n \in T
  BY <1>4
<1> QED
  BY <1>1, <1>5 DEF T

\* A sound table is of that kind, and its changed devices can be counted.
LEMMA SoundKind ==
  ASSUME NEW t, Sound(t)
  PROVE  Kind(t) /\ Len(InOrder(t.tag_changed)) \in Nat
<1>1. t.tag_changed \in SUBSET Nat /\ IsFiniteSet(t.tag_changed)
  BY DevicesFinite, FS_Subset DEF Sound, TableShape
<1>2. PICK s, n : s = InOrder(t.tag_changed) /\ n = Cardinality(t.tag_changed)
  OBVIOUS
<1>3. s \in [1 .. n -> t.tag_changed] /\ n \in Nat
  BY <1>1, <1>2, InOrderIsOrder
<1>4. Len(s) = n
  BY <1>3
<1> QED
  BY <1>2, <1>3, <1>4 DEF Sound, TableShape, Kind, Fields

\* rebuild.
LEMMA RebuildSaid ==
  ASSUME NEW t, Sound(t), NEW u, u = Rebuild(t)
  PROVE  SaidStill(t, u)
<1> DEFINE v == Each("build", t, InOrder(t.tag_changed))
<1>1. Kind(v) /\ SaidStill(t, v)
  <2>1. PICK s : s = InOrder(t.tag_changed)
    OBVIOUS
  <2> QED
    BY <2>1, SoundKind, EachSaid
<1> HIDE DEF v
<1>2. u.reg = v.reg
  BY <1>1 DEF Rebuild, Restarted, v, Kind, Fields
<1> QED
  BY <1>1, <1>2 DEF SaidStill

\* t_add_registers.
LEMMA AddTaskSaid ==
  ASSUME NEW t, Sound(t), NEW hs \in Seq(Handles),
         Cardinality({h \in ToSet(hs) : ~Found(t, h)}) <= Len(t.pool),
         NEW u, u = AddRegisters(t, hs)
  PROVE  SaidStill(t, u)
<1>1. PICK v : v = Each("add", t, hs)
  OBVIOUS
<1>2. Kind(v) /\ SaidStill(t, v)
  <2>1. Len(hs) \in Nat /\ \A i \in 1 .. Len(hs) : hs[i] \in Handles
    OBVIOUS
  <2> QED
    BY <1>1, <2>1, SoundKind, EachSaid
<1>3. Sound(v)
  BY <1>1, AllAdded DEF AddedUpTo
<1>4. u = v \/ u = Rebuild(v)
  BY <1>1 DEF AddRegisters
<1>5. CASE u = v
  BY <1>2, <1>5
<1>6. CASE u = Rebuild(v)
  BY <1>2, <1>3, <1>6, RebuildSaid, SaidTwice
<1> QED
  BY <1>4, <1>5, <1>6

\* t_release_registers.
LEMMA ReleaseTaskSaid ==
  ASSUME NEW t, Sound(t), NEW xs \in Seq(Entries), NEW u, u = ReleaseRegisters(t, xs)
  PROVE  SaidStill(t, u)
<1>1. PICK v : v = Each("release", t, xs)
  OBVIOUS
<1>2. Kind(v) /\ SaidStill(t, v)
  <2>1. Len(xs) \in Nat /\ \A i \in 1 .. Len(xs) : xs[i] \in Entries
    OBVIOUS
  <2> QED
    BY <1>1, <2>1, SoundKind, EachSaid
<1>3. Sound(v)
  BY <1>1, AllReleased DEF ReleasedUpTo
<1>4. u = v \/ u = Rebuild(v)
  BY <1>1 DEF ReleaseRegisters
<1>5. CASE u = v
  BY <1>2, <1>5
<1>6. CASE u = Rebuild(v)
  BY <1>2, <1>3, <1>6, RebuildSaid, SaidTwice
<1> QED
  BY <1>4, <1>5, <1>6

\* A poll says nothing new of a register that is not in updated_registers.
LEMMA PollSaid ==
  ASSUME NEW t, Sound(t), NEW u \in Polls(t)
  PROVE  \A p \in Places : p \in Updated(t, u) \/ StillSaid(t.reg[p], u.reg[p])
<1> SUFFICES ASSUME NEW p \in Places, p \notin Updated(t, u)
             PROVE  StillSaid(t.reg[p], u.reg[p])
  OBVIOUS
<1>1. CASE p \in ToSet(Request(t))
  BY <1>1 DEF Updated, StillSaid
<1>2. CASE p \notin ToSet(Request(t))
  <2>1. DOMAIN t = Fields
    BY SoundKind DEF Kind
  <2>2. PICK v : /\ u = Advanced(v)
                 /\ \E F : /\ v = [t EXCEPT !.reg = [r \in Places |->
                                     IF r \in ToSet(Request(t)) THEN F[r] ELSE @[r]]]
    <3>1. CASE u = NotAnswered(t)
      <4> DEFINE F == [r \in Places |-> [t.reg[r] EXCEPT !.op_available = "not_responded"]]
      <4>1. \A r \in Places : F[r] = [t.reg[r] EXCEPT !.op_available = "not_responded"]
        OBVIOUS
      <4> HIDE DEF F
      <4>2. u = Advanced([t EXCEPT !.reg = [r \in Places |->
                            IF r \in ToSet(Request(t)) THEN F[r] ELSE @[r]]])
        BY <3>1, <4>1 DEF NotAnswered
      <4> QED
        BY <4>2
    <3>2. ASSUME NEW answer \in [ToSet(Request(t)) -> Values], u = Answered(t, answer)
          PROVE  \E v : /\ u = Advanced(v)
                        /\ \E F : v = [t EXCEPT !.reg = [r \in Places |->
                                         IF r \in ToSet(Request(t)) THEN F[r] ELSE @[r]]]
      <4> DEFINE F == [r \in Places |-> [t.reg[r] EXCEPT !.op_value = answer[r], !.op_available = "available"]]
      <4>1. \A r \in Places :
              F[r] = [t.reg[r] EXCEPT !.op_value = answer[r], !.op_available = "available"]
        OBVIOUS
      <4> HIDE DEF F
      <4>2. u = Advanced([t EXCEPT !.reg = [r \in Places |->
                            IF r \in ToSet(Request(t)) THEN F[r] ELSE @[r]]])
        BY <3>2, <4>1 DEF Answered
      <4> QED
        BY <4>2
    <3> QED
      BY <3>1, <3>2 DEF Polls
  <2>3. DOMAIN v = Fields /\ v.reg[p] = t.reg[p]
    BY <1>2, <2>1, <2>2 DEF Fields
  <2>4. u.reg = v.reg
    <3>1. CASE v.req_ix < Len(v.req[v.advc])
      BY <2>2, <2>3, <3>1 DEF Advanced, Fields
    <3>2. CASE ~(v.req_ix < Len(v.req[v.advc]))
      BY <2>2, <2>3, <3>2 DEF Advanced, Fields
    <3> QED
      BY <3>1, <3>2
  <2> QED
    BY <2>3, <2>4 DEF StillSaid
<1> QED
  BY <1>1, <1>2

-----------------------------------------------------------------------------
(* The requests of a row.                                                   *)

\* g follows h in a row and may be read with it, in a request from b on.
Joins(reg, row, i, b) ==
  /\ i > 1
  /\ Follows(reg[row[i]].handle, reg[row[i - 1]].handle)
  /\ i - b < MaxRegInReq
\* f says where the request of each of the first n registers begins.
Begins(reg, row, n, f) == f = [i \in 1 .. n |-> IF Joins(reg, row, i, f[i - 1]) THEN f[i - 1] ELSE i]

\* There is such a function.
LEMMA BeginsExists ==
  ASSUME NEW reg, NEW row, NEW n \in Nat
  PROVE  \E f : Begins(reg, row, n, f)
<1> DEFINE T == {k \in Nat : \E f : Begins(reg, row, k, f)}
<1>1. 0 \in T
  <2> DEFINE f == [i \in 1 .. 0 |-> 0]
  <2>1. Begins(reg, row, 0, f)
    BY DEF Begins
  <2> QED
    BY <2>1
<1>2. ASSUME NEW k \in Nat, k \in T
      PROVE  k + 1 \in T
  <2>1. PICK f : Begins(reg, row, k, f)
    BY <1>2
  <2>2. PICK x : x = IF Joins(reg, row, k + 1, f[k]) THEN f[k] ELSE k + 1
    OBVIOUS
  <2> DEFINE g == [i \in 1 .. k + 1 |-> IF i = k + 1 THEN x ELSE f[i]]
             G == [i \in 1 .. k + 1 |-> IF Joins(reg, row, i, g[i - 1]) THEN g[i - 1] ELSE i]
  <2>3. ASSUME NEW i \in 1 .. k + 1
        PROVE  g[i] = IF Joins(reg, row, i, g[i - 1]) THEN g[i - 1] ELSE i
    <3>1. CASE i = 1
      <4>1. \A b : ~Joins(reg, row, i, b)
        BY <3>1 DEF Joins
      <4>2. g[i] = i
        <5>1. CASE k = 0
          BY <2>2, <3>1, <4>1, <5>1
        <5>2. CASE k # 0
          <6>1. i \in 1 .. k /\ i # k + 1
            BY <3>1, <5>2
          <6>2. f[i] = i
            BY <2>1, <4>1, <6>1 DEF Begins
          <6> QED
            BY <6>1, <6>2
        <5> QED
          BY <5>1, <5>2
      <4> QED
        BY <4>1, <4>2
    <3>2. CASE i # 1
      <4>1. i - 1 \in 1 .. k + 1 /\ i - 1 # k + 1 /\ i - 1 \in 1 .. k
        BY <3>2
      <4>2. g[i - 1] = f[i - 1]
        BY <4>1
      <4>3. CASE i = k + 1
        BY <2>2, <4>2, <4>3
      <4>4. CASE i # k + 1
        <5>1. i \in 1 .. k
          BY <4>4
        <5>2. f[i] = IF Joins(reg, row, i, f[i - 1]) THEN f[i - 1] ELSE i
          BY <2>1, <5>1 DEF Begins
        <5> QED
          BY <4>2, <4>4, <5>2
      <4> QED
        BY <4>3, <4>4
    <3> QED
      BY <3>1, <3>2
  <2>4. g = [i \in 1 .. k + 1 |-> g[i]]
    OBVIOUS
  <2> HIDE DEF g
  <2>5. g = G
    BY <2>3, <2>4
  <2>6. Begins(reg, row, k + 1, g)
    BY <2>5 DEF Begins
  <2> QED
    BY <2>6
<1> HIDE DEF T
<1>3. \A k \in 0 .. n : k \in T
  BY <1>1, <1>2, UpTo
<1> QED
  BY <1>3 DEF T

\* The request of i begins at f[i], not too far before, and has a register
\* that follows for each one in between.
Runs(reg, row, f, i) ==
  /\ f[i] \in 1 .. i /\ i - f[i] < MaxRegInReq
  /\ \A j \in f[i] .. i : f[j] = f[i]
  /\ \A j \in f[i] + 1 .. i : Follows(reg[row[j]].handle, reg[row[j - 1]].handle)

\* So it is for each register of the row.
LEMMA BeginsRuns ==
  ASSUME NEW reg, NEW row, NEW n \in Nat, NEW f, Begins(reg, row, n, f)
  PROVE  \A i \in 1 .. n : Runs(reg, row, f, i)
<1> DEFINE T == {k \in 0 .. n : k # 0 => Runs(reg, row, f, k)}
<1>1. 0 \in T
  OBVIOUS
<1>2. ASSUME NEW k \in 0 .. n, k \in T, k # n
      PROVE  k + 1 \in T
  <2>1. PICK i \in 1 .. n : i = k + 1
    BY <1>2
  <2>2. f[i] = IF Joins(reg, row, i, f[i - 1]) THEN f[i - 1] ELSE i
    BY DEF Begins
  <2>3. MaxRegInReq \in Nat \ {0}
    BY RegisterAssumption
  <2>4. CASE Joins(reg, row, i, f[i - 1])
    <3>1. PICK b : b = f[k]
      OBVIOUS
    <3>2. i - 1 = k /\ k # 0 /\ f[i] = b
      BY <2>1, <2>2, <2>4, <3>1 DEF Joins
    <3>3. Runs(reg, row, f, k)
      BY <1>2, <3>2
    <3>4. /\ b \in 1 .. k
          /\ \A j \in b .. k : f[j] = b
          /\ \A j \in b + 1 .. k : Follows(reg[row[j]].handle, reg[row[j - 1]].handle)
      BY <3>1, <3>3 DEF Runs
    <3>5. i - b < MaxRegInReq /\ Follows(reg[row[i]].handle, reg[row[i - 1]].handle)
      BY <2>4, <3>1, <3>2 DEF Joins
    <3>6. \A j \in b .. i : j \in b .. k \/ j = i
      BY <2>1, <3>4
    <3>7. \A j \in b + 1 .. i : j \in b + 1 .. k \/ j = i
      BY <2>1, <3>4
    <3>8. b \in 1 .. i
      BY <2>1, <3>4
    <3>9. Runs(reg, row, f, i)
      BY <3>2, <3>4, <3>5, <3>6, <3>7, <3>8 DEF Runs
    <3> QED
      BY <2>1, <3>9
  <2>5. CASE ~Joins(reg, row, i, f[i - 1])
    <3>1. f[i] = i
      BY <2>2, <2>5
    <3>2. i - i < MaxRegInReq /\ i \in 1 .. i /\ (\A j \in i .. i : j = i) /\ \A j \in i + 1 .. i : FALSE
      BY <2>3
    <3>3. Runs(reg, row, f, i)
      BY <3>1, <3>2 DEF Runs
    <3> QED
      BY <2>1, <3>3
  <2> QED
    BY <2>4, <2>5
<1> HIDE DEF T
<1>3. \A k \in 0 .. n : k \in T
  BY <1>1, <1>2, UpTo
<1> QED
  BY <1>3 DEF T

\* Where the requests of n registers begin, o, and the register past each.
Past(o, m, n, k) == IF k = m THEN n + 1 ELSE o[k + 1]
Starts(f, n) == {f[i] : i \in 1 .. n}
Parts(f, n, o, m) ==
  /\ m \in Nat /\ o \in [1 .. m -> 1 .. n]
  /\ n > 0 => m > 0 /\ o[1] = 1
  /\ n = 0 => m = 0
  /\ \A k \in 1 .. m : Past(o, m, n, k) - 1 \in o[k] .. n /\ f[Past(o, m, n, k) - 1] = o[k]

\* They begin with the first register, and the last register before the next
\* one belongs to each.
LEMMA PartsOfRow ==
  ASSUME NEW reg, NEW row, NEW n \in Nat, NEW f, \A i \in 1 .. n : Runs(reg, row, f, i),
         NEW o, o = InOrder(Starts(f, n)), NEW m, m = Cardinality(Starts(f, n))
  PROVE  Parts(f, n, o, m)
<1> DEFINE D == Starts(f, n)
<1>1. \A i \in 1 .. n : /\ f[i] \in 1 .. n /\ f[i] <= i
                        /\ \A j \in f[i] .. i : f[j] = f[i]
  BY DEF Runs
<1>2. D \in SUBSET (1 .. n) /\ D \in SUBSET Nat /\ IsFiniteSet(D)
  <2>1. D \subseteq 1 .. n
    BY <1>1 DEF Starts
  <2>2. IsFiniteSet(1 .. n)
    BY FS_Interval
  <2> HIDE DEF D
  <2>3. IsFiniteSet(D)
    BY ONLY <2>1, <2>2, FS_Subset
  <2>4. D \subseteq Nat
    BY ONLY <2>1
  <2> QED
    BY <2>1, <2>3, <2>4
<1>3. \A d \in D : d \in 1 .. n /\ f[d] = d
  <2> SUFFICES ASSUME NEW i \in 1 .. n
               PROVE  f[i] \in 1 .. n /\ f[f[i]] = f[i]
    BY DEF Starts
  <2>1. f[i] \in f[i] .. i
    BY <1>1
  <2> QED
    BY <1>1, <2>1
<1>4. \A i \in 1 .. n : f[i] \in D /\ \A d \in D : d <= i => d <= f[i]
  <2> TAKE i \in 1 .. n
  <2>1. f[i] \in D
    BY DEF Starts
  <2>2. ASSUME NEW d \in D, d <= i, ~(d <= f[i])
        PROVE  FALSE
    <3>1. d \in 1 .. n /\ f[d] = d /\ f[i] \in 1 .. n
      BY <1>1, <1>3, <2>2
    <3>2. d \in f[i] .. i
      BY <2>2, <3>1
    <3>3. d = f[i]
      BY <1>1, <3>1, <3>2
    <3> QED
      BY <2>2, <3>1, <3>3
  <2> QED
    BY <2>1, <2>2
<1> HIDE DEF D
<1>5. /\ o \in [1 .. m -> D] /\ m \in Nat
      /\ \A i, j \in 1 .. m : i < j => o[i] < o[j]
      /\ \A d \in D : \E i \in 1 .. m : o[i] = d
  <2>1. o = InOrder(D) /\ m = Cardinality(D)
    BY DEF D
  <2> QED
    BY <1>2, <2>1, InOrderIsOrder
<1>6. o \in [1 .. m -> 1 .. n] /\ \A k \in 1 .. m : o[k] \in D /\ o[k] \in 1 .. n
  BY <1>2, <1>5
<1>7. ASSUME n > 0
      PROVE  m > 0 /\ o[1] = 1
  <2>1. 1 \in 1 .. n /\ f[1] = 1 /\ f[1] \in D
    BY <1>1, <1>4, <1>7
  <2>2. PICK j \in 1 .. m : o[j] = 1
    BY <1>5, <2>1
  <2>3. 1 \in 1 .. m /\ m > 0
    BY <1>5, <2>2
  <2>4. ~(1 < j)
    BY <1>5, <1>6, <2>2, <2>3
  <2> QED
    BY <2>2, <2>3, <2>4
<1>8. n = 0 => m = 0
  <2>1. m > 0 => 1 \in 1 .. m
    BY <1>5
  <2> QED
    BY <1>5, <1>6, <2>1
<1>9. ASSUME NEW k \in 1 .. m
      PROVE  Past(o, m, n, k) - 1 \in o[k] .. n /\ f[Past(o, m, n, k) - 1] = o[k]
  <2>1. PICK e : e = Past(o, m, n, k) - 1
    OBVIOUS
  <2>2. o[k] \in 1 .. n /\ o[k] \in D
    BY <1>6
  <2>3. k # m => k + 1 \in 1 .. m /\ o[k] < o[k + 1] /\ o[k + 1] \in 1 .. n
    BY <1>5, <1>6
  <2>4. e \in o[k] .. n
    BY <2>1, <2>2, <2>3 DEF Past
  <2>5. e \in 1 .. n
    BY <2>2, <2>4
  <2>6. f[e] \in D /\ o[k] <= f[e] /\ f[e] <= e
    BY <1>1, <1>4, <2>2, <2>4, <2>5
  <2>7. PICK j \in 1 .. m : o[j] = f[e]
    BY <1>5, <2>6
  <2>8. ~(j < k)
    <3>1. j < k => o[j] < o[k]
      BY <1>5
    <3>2. o[j] \in 1 .. n
      BY <1>6
    <3> QED
      BY <2>2, <2>6, <2>7, <3>1, <3>2
  <2>9. ~(k < j)
    <3> SUFFICES ASSUME k < j
                 PROVE  FALSE
      OBVIOUS
    <3>1. k # m /\ e = o[k + 1] - 1 /\ k + 1 \in 1 .. m
      BY <2>1, <2>3 DEF Past
    <3>2. k + 1 < j => o[k + 1] < o[j]
      BY <1>5, <3>1
    <3>3. k + 1 = j => o[k + 1] = o[j]
      OBVIOUS
    <3>4. o[k + 1] <= o[j] /\ o[k + 1] \in 1 .. n /\ o[j] \in 1 .. n
      BY <1>6, <3>1, <3>2, <3>3
    <3> QED
      BY <2>6, <2>7, <3>1, <3>4
  <2>10. j = k
    BY <2>8, <2>9
  <2> QED
    BY <2>1, <2>4, <2>7, <2>10
<1> QED
  BY <1>5, <1>6, <1>7, <1>8, <1>9 DEF Parts

\* w joins the first lists of q.
Joined(q, m, w) ==
  m \in Nat \ {0} /\ w[1] = q[1] /\ \A i \in 2 .. m : w[i] = w[i - 1] \o q[i]

\* The last of them is what FlattenSeq comes to.
LEMMA FlattenIs ==
  ASSUME NEW q, NEW m, Len(q) = m, NEW w, Joined(q, m, w)
  PROVE  FlattenSeq(q) = w[m]
<1> USE DEF Joined
<1> DEFINE F(g) == g = [i \in 1 .. Len(q) |-> IF i = 1 THEN q[i] ELSE g[i - 1] \o q[i]]
           g == CHOOSE g : F(g)
<1>1. FlattenSeq(q) = g[Len(q)]
  BY DEF FlattenSeq
<1>2. \E h : F(h)
  <2> DEFINE h == [i \in 1 .. m |-> w[i]]
             H == [i \in 1 .. m |-> IF i = 1 THEN q[i] ELSE h[i - 1] \o q[i]]
  <2>1. ASSUME NEW i \in 1 .. m
        PROVE  h[i] = IF i = 1 THEN q[i] ELSE h[i - 1] \o q[i]
    <3>1. CASE i = 1
      BY <3>1
    <3>2. CASE i # 1
      <4>1. i - 1 \in 1 .. m /\ i \in 2 .. m
        BY <3>2
      <4>2. h[i] = w[i] /\ h[i - 1] = w[i - 1] /\ w[i] = w[i - 1] \o q[i]
        BY <4>1
      <4> HIDE DEF h
      <4> QED
        BY <3>2, <4>2
    <3> QED
      BY <3>1, <3>2
  <2>2. h = [i \in 1 .. m |-> h[i]]
    OBVIOUS
  <2> HIDE DEF h
  <2>3. h = H
    BY <2>1, <2>2
  <2>4. F(h)
    BY <2>3
  <2> QED
    BY <2>4
<1>3. F(g)
  <2> HIDE DEF F
  <2> QED
    BY <1>2
<1>4. g = [i \in 1 .. m |-> IF i = 1 THEN q[i] ELSE g[i - 1] \o q[i]]
  BY <1>3
<1> HIDE DEF g
<1> DEFINE T == {k \in 0 .. m : k # 0 => g[k] = w[k]}
<1>5. 0 \in T
  OBVIOUS
<1>6. ASSUME NEW k \in 0 .. m, k \in T, k # m
      PROVE  k + 1 \in T
  <2>1. PICK i \in 1 .. m : i = k + 1 /\ i - 1 = k
    BY <1>6
  <2>2. g[i] = IF i = 1 THEN q[i] ELSE g[i - 1] \o q[i]
    BY <1>4
  <2>3. CASE i = 1
    BY <2>1, <2>2, <2>3
  <2>4. CASE i # 1
    <3>1. k # 0 /\ i \in 2 .. m
      BY <2>1, <2>4
    <3>2. g[k] = w[k]
      BY <1>6, <3>1
    <3>3. g[i] = w[i]
      BY <2>1, <2>2, <2>4, <3>1, <3>2
    <3> QED
      BY <2>1, <3>3
  <2> QED
    BY <2>3, <2>4
<1> HIDE DEF T
<1>7. \A k \in 0 .. m : k \in T
  BY <1>5, <1>6, UpTo
<1>8. g[m] = w[m]
  BY <1>7 DEF T
<1> QED
  BY <1>1, <1>8

\* A run of registers of a row that is read in one request.
Piece(reg, row, s) ==
  /\ Len(s) \in 1 .. MaxRegInReq
  /\ \A i \in 1 .. Len(s) : s[i] \in ToSet(row)
  /\ \A i \in 1 .. (Len(s) - 1) : Follows(reg[s[i + 1]].handle, reg[s[i]].handle)
\* q cuts the row into such runs.
Cuts(reg, row, q) ==
  /\ Len(q) \in Nat /\ DOMAIN q = 1 .. Len(q)
  /\ FlattenSeq(q) = row
  /\ row # <<>> => Len(q) > 0
  /\ \A k \in 1 .. Len(q) : Piece(reg, row, q[k])

\* The parts of a row are its pieces, and they are all of it.
LEMMA PartsCut ==
  ASSUME NEW reg, NEW row \in Seq(Places), NEW n \in Nat, n = Len(row),
         NEW f, \A i \in 1 .. n : Runs(reg, row, f, i),
         NEW o, NEW m, Parts(f, n, o, m), NEW q,
         q = [k \in 1 .. m |-> SubSeq(row, o[k], Past(o, m, n, k) - 1)]
  PROVE  Cuts(reg, row, q)
<1> DEFINE e(k) == Past(o, m, n, k) - 1
<1>1. /\ m \in Nat /\ o \in [1 .. m -> 1 .. n]
      /\ n > 0 => m > 0 /\ o[1] = 1
      /\ n = 0 => m = 0
      /\ \A k \in 1 .. m : e(k) \in o[k] .. n /\ f[e(k)] = o[k]
  BY DEF Parts
<1>2. /\ \A k \in 1 .. m : k # m => o[k + 1] = e(k) + 1
      /\ m > 0 => e(m) = n
  <2>1. ASSUME NEW k \in 1 .. m, k # m
        PROVE  o[k + 1] = e(k) + 1
    <3>1. k + 1 \in 1 .. m
      BY <1>1, <2>1
    <3>2. o[k + 1] \in 1 .. n
      BY <1>1, <3>1
    <3>3. e(k) = o[k + 1] - 1
      BY <2>1 DEF Past
    <3> QED
      BY <3>2, <3>3
  <2>2. m > 0 => e(m) = n
    BY DEF Past
  <2> QED
    BY <2>1, <2>2
<1>3. /\ Len(q) = m /\ DOMAIN q = 1 .. m /\ (m = 0 => q = <<>>)
      /\ \A k \in 1 .. m : q[k] = SubSeq(row, o[k], e(k))
  <2>1. PICK S : S = {q[k] : k \in 1 .. m}
    OBVIOUS
  <2>2. DOMAIN q = 1 .. m /\ \A k \in 1 .. m : q[k] = SubSeq(row, o[k], e(k))
    OBVIOUS
  <2>3. q = [k \in 1 .. m |-> q[k]]
    OBVIOUS
  <2>4. q \in [1 .. m -> S]
    BY ONLY <2>1, <2>3
  <2>5. q \in Seq(S) /\ Len(q) = m
    BY ONLY <1>1, <2>4
  <2> QED
    BY <2>2, <2>5, EmptySeq
<1> HIDE DEF e
<1>4. \A i \in 1 .. n : row[i] \in ToSet(row) /\ row[i] \in Places
  BY SetOfSeq
<1>5. ASSUME NEW k \in 1 .. m
      PROVE  Piece(reg, row, q[k])
  <2>1. PICK a, b : a = o[k] /\ b = e(k)
    OBVIOUS
  <2>2. a \in 1 .. n /\ b \in a .. n /\ f[b] = a
    BY <1>1, <2>1
  <2>3. b \in 1 .. n /\ Runs(reg, row, f, b)
    BY <2>2
  <2>4. b - a < MaxRegInReq /\ \A j \in a + 1 .. b : Follows(reg[row[j]].handle, reg[row[j - 1]].handle)
    BY <2>2, <2>3 DEF Runs
  <2>5. PICK s : s = q[k]
    OBVIOUS
  <2>6. /\ Len(s) = b - a + 1
        /\ \A i \in 1 .. b - a + 1 : s[i] = row[a + i - 1]
    <3>1. \A i \in a .. b : row[i] \in Places
      BY <1>4, <2>2
    <3>2. s = SubSeq(row, a, b)
      BY <1>3, <2>1, <2>5
    <3>3. a \in Int /\ b \in Int /\ a <= b
      BY <2>2
    <3> QED
      BY ONLY <3>1, <3>2, <3>3, SubSeqProperties
  <2>7. Len(s) \in 1 .. MaxRegInReq
    <3>1. MaxRegInReq \in Nat
      BY RegisterAssumption
    <3> QED
      BY ONLY <2>2, <2>4, <2>6, <3>1
  <2>8. \A i \in 1 .. Len(s) : s[i] \in ToSet(row)
    <3> TAKE i \in 1 .. Len(s)
    <3>1. s[i] = row[a + i - 1]
      BY <2>2, <2>6
    <3>2. a + i - 1 \in 1 .. n
      BY <2>2, <2>6
    <3> QED
      BY <1>4, <3>1, <3>2
  <2>9. ASSUME NEW i \in 1 .. (Len(s) - 1)
        PROVE  Follows(reg[s[i + 1]].handle, reg[s[i]].handle)
    <3>1. PICK j : j = a + i
      OBVIOUS
    <3>2. j \in a + 1 .. b /\ i \in 1 .. b - a + 1 /\ i + 1 \in 1 .. b - a + 1 /\ j - 1 = a + i - 1 /\ j = a + (i + 1) - 1
      BY <2>2, <2>6, <3>1
    <3>3. s[i] = row[j - 1] /\ s[i + 1] = row[j]
      BY <2>6, <3>2
    <3> QED
      BY <2>4, <3>2, <3>3
  <2> QED
    BY <2>5, <2>7, <2>8, <2>9 DEF Piece
<1>6. row # <<>> => m > 0
  BY <1>1
<1>7. FlattenSeq(q) = row
  <2>1. CASE n = 0
    <3>1. row = <<>> /\ q = <<>> /\ Len(q) = 0
      BY <1>1, <1>3, <2>1, EmptySeq
    <3> QED
      BY <3>1 DEF FlattenSeq
  <2>2. CASE n # 0
    <3> DEFINE w == [k \in 1 .. m |-> SubSeq(row, 1, e(k))]
    <3>1. m \in Nat \ {0} /\ o[1] = 1 /\ 1 \in 1 .. m /\ m \in 1 .. m
      BY <1>1, <2>2
    <3>2. w[1] = q[1]
      BY <1>3, <3>1
    <3>3. ASSUME NEW k \in 2 .. m
          PROVE  w[k] = w[k - 1] \o q[k]
      <4>1. k - 1 \in 1 .. m /\ k - 1 # m /\ (k - 1) + 1 = k /\ k \in 1 .. m
        BY <3>1
      <4>2. PICK a, b : a = e(k - 1) /\ b = e(k)
        OBVIOUS
      <4>3. o[k] = a + 1 /\ a \in 1 .. n /\ b \in a .. n
        <5>1. o[k] = a + 1
          BY <1>2, <4>1, <4>2
        <5>2. o[k - 1] \in 1 .. n /\ a \in o[k - 1] .. n
          BY <1>1, <4>1, <4>2
        <5>3. b \in o[k] .. n
          BY <1>1, <4>1, <4>2
        <5> QED
          BY <5>1, <5>2, <5>3
      <4>4. SubSeq(row, 1, a) \o SubSeq(row, a + 1, b) = SubSeq(row, 1, b)
        <5>1. 1 \in 1 .. Len(row) + 1 /\ a \in 1 - 1 .. Len(row) /\ b \in a .. Len(row)
          BY <4>3
        <5> QED
          BY <5>1, ConcatAdjacentSubSeq
      <4>5. w[k - 1] = SubSeq(row, 1, a) /\ w[k] = SubSeq(row, 1, b) /\ q[k] = SubSeq(row, a + 1, b)
        BY <1>3, <4>1, <4>2, <4>3
      <4> QED
        BY <4>4, <4>5
    <3>4. w[m] = row
      <4>1. w[m] = SubSeq(row, 1, Len(row))
        BY <1>2, <3>1
      <4> QED
        BY <4>1, SubSeqFull
    <3> HIDE DEF w
    <3>5. Joined(q, m, w)
      BY <3>1, <3>2, <3>3 DEF Joined
    <3>6. Len(q) = m
      BY <1>3
    <3> QED
      BY ONLY <3>4, <3>5, <3>6, FlattenIs
  <2> QED
    BY <2>1, <2>2
<1> QED
  BY <1>1, <1>3, <1>5, <1>6, <1>7 DEF Cuts

\* RequestsOf cuts a row into requests.
LEMMA RequestsCut ==
  ASSUME NEW reg, NEW row \in Seq(Places)
  PROVE  Cuts(reg, row, RequestsOf(reg, row))
<1> DEFINE F(f) == f = [i \in DOMAIN row |->
                          IF /\ i > 1
                             /\ Follows(reg[row[i]].handle, reg[row[i - 1]].handle)
                             /\ i - f[i - 1] < MaxRegInReq
                          THEN f[i - 1] ELSE i]
           f == CHOOSE f : F(f)
           D == {f[i] : i \in DOMAIN row}
           o == InOrder(D)
           past(k) == IF k = Len(o) THEN Len(row) + 1 ELSE o[k + 1]
<1>1. PICK n \in Nat : n = Len(row) /\ DOMAIN row = 1 .. n
  OBVIOUS
<1>2. RequestsOf(reg, row) = [k \in DOMAIN o |-> SubSeq(row, o[k], past(k) - 1)]
  BY DEF RequestsOf
<1>3. \A g : F(g) <=> Begins(reg, row, n, g)
  BY <1>1 DEF Begins, Joins
<1>4. Begins(reg, row, n, f)
  <2>1. \E g : F(g)
    BY <1>3, BeginsExists
  <2> HIDE DEF F
  <2>2. F(f)
    BY <2>1
  <2> QED
    BY <1>3, <2>2
<1>5. D = Starts(f, n)
  BY <1>1 DEF Starts
<1> HIDE DEF F, f, D
<1>6. \A i \in 1 .. n : Runs(reg, row, f, i)
  BY <1>4, BeginsRuns
<1>7. PICK m : m = Cardinality(D)
  OBVIOUS
<1>8. Parts(f, n, o, m)
  BY <1>5, <1>6, <1>7, PartsOfRow
<1> HIDE DEF o
<1>9. m \in Nat /\ o \in [1 .. m -> 1 .. n] /\ Len(o) = m /\ DOMAIN o = 1 .. m
  BY <1>8 DEF Parts
<1>10. RequestsOf(reg, row) = [k \in 1 .. m |-> SubSeq(row, o[k], Past(o, m, n, k) - 1)]
  BY <1>1, <1>2, <1>9 DEF Past
<1> QED
  BY <1>1, <1>6, <1>8, <1>10, PartsCut

\* Cuts are as good while the registers of the row are the same.
LEMMA CutsStay ==
  ASSUME NEW reg, NEW row, NEW q, Cuts(reg, row, q), NEW r,
         \A p \in ToSet(row) : r[p].handle = reg[p].handle
  PROVE  Cuts(r, row, q)
<1>1. ASSUME NEW k \in 1 .. Len(q)
      PROVE  Piece(r, row, q[k])
  <2>1. PICK s : s = q[k]
    OBVIOUS
  <2>2. Piece(reg, row, s)
    BY <2>1 DEF Cuts
  <2>3. Len(s) \in Nat
    BY <2>2, RegisterAssumption DEF Piece
  <2>4. ASSUME NEW i \in 1 .. (Len(s) - 1)
        PROVE  Follows(r[s[i + 1]].handle, r[s[i]].handle)
    <3>1. i \in 1 .. Len(s) /\ i + 1 \in 1 .. Len(s)
      BY <2>3
    <3>2. s[i] \in ToSet(row) /\ s[i + 1] \in ToSet(row)
      BY <2>2, <3>1 DEF Piece
    <3>3. Follows(reg[s[i + 1]].handle, reg[s[i]].handle)
      BY <2>2 DEF Piece
    <3> QED
      BY <3>2, <3>3
  <2> QED
    BY <2>1, <2>2, <2>4 DEF Piece
<1> QED
  BY <1>1 DEF Cuts

\* The requests of device d cut its row.
Cut(t, d) == Cuts(t.reg, t.row[d], t.req[d])

\* They still do if nothing of that row was changed.
LEMMA CutKept ==
  ASSUME NEW t, NEW d, Cut(t, d), NEW u, u.row[d] = t.row[d], u.req[d] = t.req[d],
         \A p \in ToSet(t.row[d]) : u.reg[p].handle = t.reg[p].handle
  PROVE  Cut(u, d)
BY CutsStay DEF Cut

\* A device without registers has no requests.
LEMMA NothingCut ==
  ASSUME NEW reg
  PROVE  Cuts(reg, <<>>, <<>>)
<1>1. Len(<<>>) = 0 /\ DOMAIN <<>> = 1 .. 0 /\ \A k \in 1 .. 0 : FALSE
  OBVIOUS
<1>2. FlattenSeq(<<>>) = <<>>
  BY <1>1 DEF FlattenSeq
<1> QED
  BY <1>1, <1>2 DEF Cuts

\* From t to u only counts, values and what is to be rebuilt were changed.
SameRequests(t, u) ==
  /\ Kind(u)
  /\ u.row = t.row /\ u.req = t.req /\ u.valid = t.valid /\ u.advc = t.advc /\ u.req_ix = t.req_ix
  /\ \A p \in Places : u.reg[p].handle = t.reg[p].handle

\* All rows are as well cut as before.
LEMMA SameCut ==
  ASSUME NEW t, Sound(t), NEW u, SameRequests(t, u), NEW d \in Devices, Cut(t, d)
  PROVE  Cut(u, d)
<1>1. \A p \in ToSet(t.row[d]) : p \in Places
  BY RowPlaces, SetOfSeq
<1>2. \A p \in ToSet(t.row[d]) : u.reg[p].handle = t.reg[p].handle
  BY <1>1 DEF SameRequests
<1>3. u.row[d] = t.row[d] /\ u.req[d] = t.req[d]
  BY DEF SameRequests
<1> QED
  BY <1>2, <1>3, CutKept

\* CountBy only counts.
LEMMA CountCut ==
  ASSUME NEW t, Kind(t), NEW h, NEW k \in Int, NEW u, u = CountBy(t, h, k)
  PROVE  SameRequests(t, u)
<1> DEFINE q == PlaceOf(t, h)
           r == [t.reg[q] EXCEPT !.ref_cnt = @ + k]
<1>1. /\ u.reg = [t.reg EXCEPT ![q] = r]
      /\ u.row = t.row /\ u.req = t.req /\ u.valid = t.valid /\ u.advc = t.advc /\ u.req_ix = t.req_ix
  BY DEF CountBy, Kind, Fields
<1>2. \A p \in Places : t.reg[p] \in Registers
  BY DEF Kind
<1>3. q \in Places => r.handle = t.reg[q].handle
  BY <1>2 DEF Registers
<1> HIDE DEF q, r
<1>4. \A p \in Places : u.reg[p].handle = t.reg[p].handle
  BY <1>1, <1>3 DEF Kind
<1> QED
  BY <1>1, <1>4, CountSaid DEF SameRequests

\* So does release_register.
LEMMA ReleaseCut ==
  ASSUME NEW t, Kind(t), NEW x \in Entries, NEW u, u = ReleaseOne(t, x)
  PROVE  SameRequests(t, u)
<1> DEFINE v == [t EXCEPT !.tag_changed = @ \cup {x[1].dev_addr}]
<1>1. /\ v.reg = t.reg /\ DOMAIN v = Fields
      /\ v.row = t.row /\ v.req = t.req /\ v.valid = t.valid /\ v.advc = t.advc /\ v.req_ix = t.req_ix
  BY DEF Kind, Fields
<1> HIDE DEF v
<1>2. Kind(v) /\ SameRequests(t, t) /\ SameRequests(t, v)
  BY <1>1 DEF Kind, SameRequests
<1>3. -x[2] \in Int
  BY DEF Entries
<1>4. u = t \/ u = v \/ u = CountBy(v, x[1], -x[2])
  BY DEF ReleaseOne, v
<1>5. CASE u = t
  BY <1>2, <1>5
<1>6. CASE u = v
  BY <1>2, <1>6
<1>7. CASE u = CountBy(v, x[1], -x[2])
  <2>1. SameRequests(v, u)
    BY <1>2, <1>3, <1>7, CountCut
  <2> QED
    BY <1>1, <2>1 DEF SameRequests
<1> QED
  BY <1>4, <1>5, <1>6, <1>7

\* The loop of t_release_registers.
LEMMA ReleasesCut ==
  ASSUME NEW t, Kind(t), NEW xs \in Seq(Entries), NEW u, u = Each("release", t, xs)
  PROVE  SameRequests(t, u)
<1> DEFINE n == Len(xs)
<1>1. n \in Nat /\ \A i \in 1 .. n : xs[i] \in Entries
  OBVIOUS
<1>2. PICK f : /\ f[0] = t
               /\ \A i \in 1 .. n : f[i] = One("release", f[i - 1], xs[i])
               /\ f[n] = Each("release", t, xs)
  BY <1>1, EachRuns
<1> DEFINE T == {k \in 0 .. n : SameRequests(t, f[k])}
<1>3. 0 \in T
  BY <1>1, <1>2 DEF SameRequests
<1>4. ASSUME NEW k \in 0 .. n, k \in T, k # n
      PROVE  k + 1 \in T
  <2>1. k + 1 \in 1 .. n /\ (k + 1) - 1 = k /\ k + 1 \in 0 .. n
    BY <1>1, <1>4
  <2>2. PICK v, w, x : v = f[k] /\ w = f[k + 1] /\ x = xs[k + 1]
    OBVIOUS
  <2>3. x \in Entries /\ w = ReleaseOne(v, x)
    <3>1. w = One("release", v, x)
      BY <1>2, <2>1, <2>2
    <3> QED
      BY <1>1, <2>1, <2>2, <3>1 DEF One
  <2>4. SameRequests(t, v)
    BY <1>4, <2>2
  <2>5. SameRequests(v, w)
    BY <2>3, <2>4, ReleaseCut DEF SameRequests
  <2>6. SameRequests(t, w)
    BY <2>4, <2>5 DEF SameRequests
  <2> QED
    BY <2>1, <2>2, <2>6
<1> HIDE DEF T
<1>5. \A k \in 0 .. n : k \in T
  BY <1>1, <1>3, <1>4, UpTo
<1>6. n \in T
  BY <1>1, <1>5
<1> QED
  BY <1>2, <1>6 DEF T

\* What add_register leaves: no request is new, and only the row that a
\* register was put into has to be cut again.
LEMMA AddCut ==
  ASSUME NEW t, Sound(t), NEW h \in Handles, Found(t, h) \/ t.pool # <<>>,
         NEW u, u = AddOne(t, h)
  PROVE  /\ u.req = t.req /\ u.valid = t.valid /\ u.advc = t.advc /\ u.req_ix = t.req_ix
         /\ t.tag_changed \subseteq u.tag_changed
         /\ \A d \in Devices : Cut(t, d) => Cut(u, d) \/ (d \in u.tag_changed /\ ~Found(t, h))
<1>1. CASE Found(t, h)
  <2>1. u = CountBy(t, h, 1)
    BY <1>1 DEF AddOne
  <2>2. SameRequests(t, u)
    BY <2>1, SoundKind, CountCut
  <2>3. u.tag_changed = t.tag_changed
    BY <1>1, OneAdded
  <2> QED
    BY <2>2, <2>3, SameCut DEF SameRequests
<1>2. CASE ~Found(t, h)
  <2> DEFINE q == Head(t.pool)
  <2>1. /\ u.tag_changed = t.tag_changed \cup {h.dev_addr} /\ u.valid = t.valid
        /\ q \in Places /\ t.reg[q].handle = NoHandle
        /\ \A p \in Places : p # q => u.reg[p] = t.reg[p]
        /\ \A d \in Devices : d # h.dev_addr => u.row[d] = t.row[d]
    BY <1>2, RegisterMade
  <2>2. u.req = t.req /\ u.advc = t.advc /\ u.req_ix = t.req_ix
    <3>1. DOMAIN t = Fields
      BY SoundKind DEF Kind
    <3> QED
      BY <1>2, <3>1 DEF AddOne, Fields
  <2> HIDE DEF q
  <2>3. ASSUME NEW d \in Devices, d # h.dev_addr, Cut(t, d)
        PROVE  Cut(u, d)
    <3>1. \A p \in ToSet(t.row[d]) : p \in Places /\ t.reg[p].handle # NoHandle
      BY RowPlaces, SetOfSeq
    <3>2. \A p \in ToSet(t.row[d]) : u.reg[p].handle = t.reg[p].handle
      BY <2>1, <3>1
    <3> QED
      BY <2>1, <2>2, <2>3, <3>2, CutKept
  <2> QED
    BY <1>2, <2>1, <2>2, <2>3
<1> QED
  BY <1>1, <1>2

\* A place is free for every register that is still to be made.
LEMMA PlaceLeft ==
  ASSUME NEW t, NEW hs \in Seq(Handles), NEW k, NEW u, AddedUpTo(t, hs, k, u),
         NEW h \in ToSet(hs)
  PROVE  Found(u, h) \/ u.pool # <<>>
<1> DEFINE M == {g \in ToSet(hs) : ~Found(u, g)}
<1>1. IsFiniteSet(ToSet(hs))
  <2>1. ToSet(hs) \subseteq Handles
    BY SetOfSeq
  <2> QED
    BY <2>1, RegisterAssumption, FS_Subset
<1>2. M \subseteq ToSet(hs) /\ (Found(u, h) \/ M # {})
  OBVIOUS
<1>3. Cardinality(M) <= Len(u.pool)
  BY DEF AddedUpTo
<1> HIDE DEF M
<1>4. Cardinality(M) \in Nat /\ (Cardinality(M) = 0 <=> M = {})
  <2>1. IsFiniteSet(M)
    BY <1>1, <1>2, FS_Subset
  <2> QED
    BY <2>1, FS_CardinalityType, FS_EmptySet
<1>5. u.pool = <<>> => Len(u.pool) = 0
  OBVIOUS
<1> QED
  BY <1>2, <1>3, <1>4, <1>5

\* The loop of t_add_registers: no request is new, and only the rows that
\* registers were put into have to be cut again.
AddedCut(t, hs, u) ==
  /\ u.req = t.req /\ u.valid = t.valid /\ u.advc = t.advc /\ u.req_ix = t.req_ix
  /\ \A d \in Devices : Cut(t, d) =>
       Cut(u, d) \/ (d \in u.tag_changed /\ \E h \in ToSet(hs) : ~Found(t, h))

\* One more register of the list.
LEMMA AddsCutNext ==
  ASSUME NEW t, Sound(t), NEW hs \in Seq(Handles), NEW k \in 0 .. Len(hs), k # Len(hs),
         NEW u, AddedUpTo(t, hs, k, u), AddedCut(t, hs, u), NEW w, w = AddOne(u, hs[k + 1])
  PROVE  AddedCut(t, hs, w)
<1>1. PICK h : h = hs[k + 1]
  OBVIOUS
<1>2. h \in Handles /\ h \in ToSet(hs)
  <2>1. k + 1 \in 1 .. Len(hs)
    OBVIOUS
  <2> QED
    BY <1>1, <2>1, SetOfSeq
<1>3. Sound(u) /\ (Found(t, h) => Found(u, h))
  BY <1>2 DEF AddedUpTo
<1>4. /\ w.req = u.req /\ w.valid = u.valid /\ w.advc = u.advc /\ w.req_ix = u.req_ix
      /\ u.tag_changed \subseteq w.tag_changed
      /\ \A d \in Devices : Cut(u, d) => Cut(w, d) \/ (d \in w.tag_changed /\ ~Found(u, h))
  <2>1. w = AddOne(u, h)
    BY <1>1
  <2>2. Found(u, h) \/ u.pool # <<>>
    BY <1>2, PlaceLeft
  <2> QED
    BY ONLY <1>2, <1>3, <2>1, <2>2, AddCut
<1> QED
  BY <1>2, <1>3, <1>4 DEF AddedCut

\* All of them.
LEMMA AddsCut ==
  ASSUME NEW t, Sound(t), NEW hs \in Seq(Handles),
         Cardinality({h \in ToSet(hs) : ~Found(t, h)}) <= Len(t.pool),
         NEW u, u = Each("add", t, hs)
  PROVE  AddedCut(t, hs, u)
<1> DEFINE n == Len(hs)
<1>1. n \in Nat
  OBVIOUS
<1>2. PICK f : /\ f[0] = t
               /\ \A i \in 1 .. n : f[i] = One("add", f[i - 1], hs[i])
               /\ f[n] = Each("add", t, hs)
  BY <1>1, EachRuns
<1> DEFINE T == {k \in 0 .. n : AddedUpTo(t, hs, k, f[k]) /\ AddedCut(t, hs, f[k])}
<1>3. 0 \in T
  <2>1. AddedUpTo(t, hs, 0, t)
    <3>1. \A g : Among(hs, 0, g) = 0
      BY FS_EmptySet DEF Among
    <3>2. \A g \in Handles : Total(t, g) = Total(t, g) + Among(hs, 0, g)
      BY <3>1, TotalType
    <3>3. \A i \in 1 .. 0 : FALSE
      OBVIOUS
    <3> QED
      BY <3>2, <3>3 DEF AddedUpTo
  <2>2. AddedCut(t, hs, t)
    BY DEF AddedCut
  <2> QED
    BY <1>1, <1>2, <2>1, <2>2
<1>4. ASSUME NEW k \in 0 .. n, k \in T, k # n
      PROVE  k + 1 \in T
  <2>1. k + 1 \in 1 .. n /\ (k + 1) - 1 = k /\ k + 1 \in 0 .. n
    BY <1>1, <1>4
  <2>2. PICK v, w : v = f[k] /\ w = f[k + 1]
    OBVIOUS
  <2>3. w = AddOne(v, hs[k + 1])
    <3>1. w = One("add", v, hs[k + 1])
      BY <1>2, <2>1, <2>2
    <3> QED
      BY <3>1 DEF One
  <2>4. AddedUpTo(t, hs, k, v) /\ AddedCut(t, hs, v)
    BY <1>4, <2>2
  <2>5. AddedUpTo(t, hs, k + 1, w)
    BY <1>4, <2>3, <2>4, AddedNext
  <2>6. AddedCut(t, hs, w)
    BY <1>4, <2>3, <2>4, AddsCutNext
  <2> QED
    BY <2>1, <2>2, <2>5, <2>6
<1> HIDE DEF T
<1>5. \A k \in 0 .. n : k \in T
  BY <1>1, <1>3, <1>4, UpTo
<1>6. n \in T
  BY <1>1, <1>5
<1> QED
  BY <1>2, <1>6 DEF T

\* From t to u the row of d is cut again, and the others are as well cut as
\* before.
CutAgain(t, d, u) ==
  /\ Cut(u, d)
  /\ \A e \in Devices : e # d /\ Cut(t, e) => Cut(u, e)

\* build_req does that.
LEMMA BuildCut ==
  ASSUME NEW t, Sound(t), NEW d \in Devices, NEW u, u = BuildReq(t, d)
  PROVE  CutAgain(t, d, u)
<1>1. PICK row : row = t.row[d]
  OBVIOUS
<1>2. TableShape(t)
  BY DEF Sound
<1>3. /\ row \in Seq(Places) /\ Len(row) \in Nat /\ DOMAIN row = 1 .. Len(row)
      /\ \A i \in 1 .. Len(row) : row[i] \in Places /\ t.reg[row[i]].handle.dev_addr = d
      /\ \A i, j \in 1 .. Len(row) : row[i] = row[j] => i = j
  BY <1>1, RowPlaces
<1> DEFINE J == {i \in DOMAIN row : t.reg[row[i]].ref_cnt > 0}
           K == DOMAIN row \ J
           s == Picked(row, K)
           r == Picked(row, J)
           q == RequestsOf(t.reg, r)
           v == Freed(t, s)
<1>4. J \in SUBSET (1 .. Len(row)) /\ K \in SUBSET (1 .. Len(row)) /\ K = (1 .. Len(row)) \ J
  BY <1>3
<1>5. u = [v EXCEPT !.row[d] = r, !.req[d] = q,
                    !.valid = IF r = <<>> THEN @ \ {d} ELSE @ \cup {d}]
  BY <1>1 DEF BuildReq
<1> HIDE DEF J, K
<1>6. /\ s \in Seq(Places) /\ ToSet(s) = {row[i] : i \in K}
      /\ r \in Seq(Places) /\ ToSet(r) = {row[i] : i \in J}
  <2>1. row \in Seq(Places) /\ J \in SUBSET (1 .. Len(row)) /\ K \in SUBSET (1 .. Len(row))
    BY <1>3, <1>4
  <2>2. s \in Seq(Places) /\ r \in Seq(Places)
    BY ONLY <2>1, PickedElements
  <2>3. ToSet(s) = {row[i] : i \in K} /\ ToSet(r) = {row[i] : i \in J}
    BY ONLY <2>1, PickedSet
  <2> QED
    BY ONLY <2>2, <2>3
<1>7. Cuts(t.reg, r, q)
  BY <1>6, RequestsCut
<1> HIDE DEF s, r, q
<1>8. /\ DOMAIN v = DOMAIN t /\ v.row = t.row /\ v.req = t.req
      /\ \A p \in Places : p \notin ToSet(s) => v.reg[p] = t.reg[p]
  BY <1>2, <1>6, FreedIs DEF Cleared
<1> HIDE DEF v
<1>9. u.reg = v.reg /\ u.row = [t.row EXCEPT ![d] = r] /\ u.req = [t.req EXCEPT ![d] = q]
  <2>1. DOMAIN v = Fields
    BY <1>2, <1>8 DEF TableShape, Fields
  <2> QED
    BY ONLY <1>5, <1>8, <2>1 DEF Fields
<1>10. DOMAIN t.row = Devices /\ DOMAIN t.req = Devices
  BY <1>2 DEF TableShape
<1>11. Cut(u, d)
  <2>1. u.row[d] = r /\ u.req[d] = q
    BY <1>9, <1>10
  <2>2. ASSUME NEW p \in ToSet(r)
        PROVE  u.reg[p].handle = t.reg[p].handle
    <3>1. PICK i \in J : p = row[i]
      BY <1>6
    <3>2. p \in Places /\ p \notin ToSet(s)
      BY <1>3, <1>4, <1>6, <3>1
    <3> QED
      BY <1>8, <1>9, <3>2
  <2> QED
    BY <1>7, <2>1, <2>2, CutsStay DEF Cut
<1>12. ASSUME NEW e \in Devices, e # d, Cut(t, e)
       PROVE  Cut(u, e)
  <2>1. u.row[e] = t.row[e] /\ u.req[e] = t.req[e]
    BY <1>9, <1>10, <1>12
  <2>2. ASSUME NEW p \in ToSet(t.row[e])
        PROVE  u.reg[p].handle = t.reg[p].handle
    <3>1. p \in Places /\ t.reg[p].handle.dev_addr = e
      BY <2>2, RowPlaces, SetOfSeq
    <3>2. p \notin ToSet(s)
      <4>1. \A i \in K : t.reg[row[i]].handle.dev_addr = d
        BY <1>3, <1>4
      <4> QED
        BY <1>6, <1>12, <3>1, <4>1
    <3> QED
      BY <1>8, <1>9, <3>1, <3>2
  <2> QED
    BY <1>12, <2>1, <2>2, CutKept
<1> QED
  BY <1>11, <1>12 DEF CutAgain

\* The loop of rebuild cuts the rows of its devices.
LEMMA BuildsCut ==
  ASSUME NEW t, Sound(t), NEW s \in Seq(Devices), NEW u, u = Each("build", t, s)
  PROVE  \A d \in Devices : Cut(t, d) \/ (\E i \in 1 .. Len(s) : s[i] = d) => Cut(u, d)
<1> DEFINE n == Len(s)
<1>1. n \in Nat /\ \A i \in 1 .. n : s[i] \in Devices
  OBVIOUS
<1>2. PICK f : /\ f[0] = t
               /\ \A i \in 1 .. n : f[i] = One("build", f[i - 1], s[i])
               /\ f[n] = Each("build", t, s)
  BY <1>1, EachRuns
<1> DEFINE C(k) == \A d \in Devices : Cut(t, d) \/ (\E i \in 1 .. k : s[i] = d) => Cut(f[k], d)
           T == {k \in 0 .. n : Sound(f[k]) /\ C(k)}
<1>3. 0 \in T
  BY <1>1, <1>2
<1>4. ASSUME NEW k \in 0 .. n, k \in T, k # n
      PROVE  k + 1 \in T
  <2>1. k + 1 \in 1 .. n /\ (k + 1) - 1 = k /\ k + 1 \in 0 .. n
    BY <1>1, <1>4
  <2>2. PICK v, w, d : v = f[k] /\ w = f[k + 1] /\ d = s[k + 1]
    OBVIOUS
  <2>3. d \in Devices /\ w = BuildReq(v, d)
    <3>1. w = One("build", v, d)
      BY <1>2, <2>1, <2>2
    <3> QED
      BY <1>1, <2>1, <2>2, <3>1 DEF One
  <2>4. Sound(v) /\ C(k)
    BY <1>4, <2>2
  <2>5. Sound(w) /\ CutAgain(v, d, w)
    BY <2>3, <2>4, Built, BuildCut DEF BuiltFrom
  <2>6. \A i \in 1 .. k + 1 : i \in 1 .. k \/ i = k + 1
    BY <2>1
  <2>7. C(k + 1)
    <3> SUFFICES ASSUME NEW e \in Devices, Cut(t, e) \/ \E i \in 1 .. k + 1 : s[i] = e
                 PROVE  Cut(w, e)
      BY <2>2
    <3>1. CASE e = d
      BY <2>5, <3>1 DEF CutAgain
    <3>2. CASE e # d
      <4>1. Cut(t, e) \/ \E i \in 1 .. k : s[i] = e
        BY <2>2, <2>6, <3>2
      <4>2. Cut(v, e)
        BY <2>2, <2>4, <4>1
      <4> QED
        BY <2>5, <3>2, <4>2 DEF CutAgain
    <3> QED
      BY <3>1, <3>2
  <2> QED
    BY <2>1, <2>2, <2>5, <2>7
<1> HIDE DEF T
<1>5. \A k \in 0 .. n : k \in T
  BY <1>1, <1>3, <1>4, UpTo
<1>6. n \in T
  BY <1>1, <1>5
<1> QED
  BY <1>2, <1>6 DEF T

\* The rows are cut, and the poll is at a request if there is one.
AllCut(t) == \A d \in Devices : Cut(t, d)
AtRequest(t) ==
  IF t.valid = {} THEN t.advc = NoDevice
  ELSE t.advc \in t.valid /\ t.req_ix \in 1 .. Len(t.req[t.advc])
Requested(t) == AllCut(t) /\ AtRequest(t)

\* rebuild cuts every row that was changed.
LEMMA RebuildCut ==
  ASSUME NEW t, Sound(t), \A d \in Devices : Cut(t, d) \/ d \in t.tag_changed,
         NEW u, u = Rebuild(t)
  PROVE  AllCut(u) /\ u.advc = FirstValid(u.valid) /\ u.req_ix = 1
<1>1. PICK s : s = InOrder(t.tag_changed)
  OBVIOUS
<1>2. PICK v : v = Each("build", t, s)
  OBVIOUS
<1>3. /\ s \in Seq(Devices)
      /\ \A d : (\E i \in 1 .. Len(s) : s[i] = d) <=> d \in t.tag_changed
  BY ONLY <1>1, Sound(t), ChangedInOrder
<1>4. AllCut(v)
  <2>1. \A d \in Devices : Cut(t, d) \/ (\E i \in 1 .. Len(s) : s[i] = d) => Cut(v, d)
    BY ONLY <1>2, <1>3, Sound(t), BuildsCut
  <2> QED
    BY <1>3, <2>1 DEF AllCut
<1>5. DOMAIN v = Fields
  <2>1. BuiltUpTo(t, s, Len(s), v)
    BY ONLY <1>2, <1>3, Sound(t), AllBuilt
  <2> QED
    BY <2>1, SoundKind DEF BuiltUpTo, Kind
<1>6. u = Restarted([v EXCEPT !.tag_changed = {}])
  BY <1>1, <1>2 DEF Rebuild
<1>7. /\ u.reg = v.reg /\ u.row = v.row /\ u.req = v.req /\ u.valid = v.valid
      /\ u.advc = FirstValid(u.valid) /\ u.req_ix = 1
  BY ONLY <1>5, <1>6 DEF Restarted, Fields
<1> QED
  BY <1>4, <1>7 DEF AllCut, Cut

\* The first of some devices is one of them.
LEMMA FirstIsOne ==
  ASSUME NEW V \in SUBSET Devices
  PROVE  IF V = {} THEN FirstValid(V) = NoDevice ELSE FirstValid(V) \in V
<1>1. V \subseteq Nat
  BY DevicesFinite
<1>2. V # {} => \E x \in V : \A y \in V : x <= y
  BY <1>1, LeastNatural
<1> QED
  BY <1>2 DEF FirstValid, Min

\* A valid device has a request.
LEMMA ValidHasRequest ==
  ASSUME NEW t, AtRest(t), AllCut(t), NEW d \in t.valid
  PROVE  d \in Devices /\ Len(t.req[d]) \in Nat /\ 1 \in 1 .. Len(t.req[d])
<1>1. d \in Devices
  BY DEF AtRest, Sound, TableShape
<1>2. t.row[d] # <<>> /\ Cut(t, d)
  BY <1>1 DEF AtRest, AllCut
<1> QED
  BY <1>1, <1>2 DEF Cut, Cuts

\* The poll begins again at a request.
LEMMA BeginsAgain ==
  ASSUME NEW t, AtRest(t), AllCut(t), t.advc = FirstValid(t.valid), t.req_ix = 1
  PROVE  Requested(t)
<1>1. t.valid \in SUBSET Devices
  BY DEF AtRest, Sound, TableShape
<1>2. IF t.valid = {} THEN t.advc = NoDevice ELSE t.advc \in t.valid
  BY <1>1, FirstIsOne
<1> QED
  BY <1>2, ValidHasRequest DEF Requested, AtRequest

\* t_add_registers.
LEMMA AddTaskRequested ==
  ASSUME NEW t, AtRest(t), Requested(t), NEW hs \in Seq(Handles),
         Cardinality({h \in ToSet(hs) : ~Found(t, h)}) <= Len(t.pool),
         NEW u, u = AddRegisters(t, hs)
  PROVE  Requested(u)
<1>1. PICK v : v = Each("add", t, hs)
  OBVIOUS
<1>2. Sound(t) /\ AllCut(t)
  BY DEF AtRest, Requested
<1>3. Sound(v) /\ AddedCut(t, hs, v)
  <2>1. AddedUpTo(t, hs, Len(hs), v)
    BY <1>1, <1>2, AllAdded
  <2> QED
    BY <1>1, <1>2, <2>1, AddsCut DEF AddedUpTo
<1>4. AtRest(u)
  BY AddTaskDone DEF Added
<1>5. CASE \A h \in ToSet(hs) : Found(t, h)
  <2>1. u = v
    BY <1>1, <1>5 DEF AddRegisters
  <2>2. AllCut(v)
    BY <1>2, <1>3, <1>5 DEF AddedCut, AllCut
  <2>3. AtRequest(v)
    BY <1>3 DEF AddedCut, Requested, AtRequest
  <2> QED
    BY <2>1, <2>2, <2>3 DEF Requested
<1>6. CASE ~(\A h \in ToSet(hs) : Found(t, h))
  <2>1. u = Rebuild(v)
    BY <1>1, <1>6 DEF AddRegisters
  <2>2. \A d \in Devices : Cut(v, d) \/ d \in v.tag_changed
    BY <1>2, <1>3 DEF AddedCut, AllCut
  <2>3. AllCut(u) /\ u.advc = FirstValid(u.valid) /\ u.req_ix = 1
    BY ONLY <1>3, <2>1, <2>2, RebuildCut
  <2> QED
    BY <1>4, <2>3, BeginsAgain
<1> QED
  BY <1>5, <1>6

\* t_release_registers.
LEMMA ReleaseTaskRequested ==
  ASSUME NEW t, AtRest(t), Requested(t), NEW xs \in Seq(Entries),
         NEW u, u = ReleaseRegisters(t, xs)
  PROVE  Requested(u)
<1>1. PICK v : v = Each("release", t, xs)
  OBVIOUS
<1>2. Sound(t) /\ AllCut(t) /\ Kind(t)
  BY SoundKind DEF AtRest, Requested
<1>3. Sound(v) /\ SameRequests(t, v)
  BY <1>1, <1>2, AllReleased, ReleasesCut DEF ReleasedUpTo
<1>4. AllCut(v)
  BY <1>2, <1>3, SameCut DEF AllCut
<1>5. AtRest(u)
  BY ReleaseTaskDone DEF ReleasedAll
<1>6. u = v \/ u = Rebuild(v)
  BY <1>1 DEF ReleaseRegisters
<1>7. CASE u = v
  BY <1>3, <1>4, <1>7 DEF Requested, AtRequest, SameRequests
<1>8. CASE u = Rebuild(v)
  <2>1. AllCut(u) /\ u.advc = FirstValid(u.valid) /\ u.req_ix = 1
    <3>1. \A d \in Devices : Cut(v, d) \/ d \in v.tag_changed
      BY <1>4 DEF AllCut
    <3> QED
      BY ONLY <1>3, <1>8, <3>1, RebuildCut
  <2> QED
    BY <1>5, <2>1, BeginsAgain
<1> QED
  BY <1>6, <1>7, <1>8

\* t_remove_device.
LEMMA RemoveTaskRequested ==
  ASSUME NEW t, AtRest(t), Requested(t), NEW d \in Devices, NEW u, u = RemoveDevice(t, d)
  PROVE  Requested(u)
<1>1. Sound(t) /\ TableShape(t) /\ AllCut(t)
  BY DEF AtRest, Sound, Requested
<1>2. PICK row : row = t.row[d]
  OBVIOUS
<1>3. row \in Seq(Places) /\ \A p \in ToSet(row) : t.reg[p].handle.dev_addr = d
  BY <1>1, <1>2, RowPlaces, SetOfSeq
<1> DEFINE r == Restarted([t EXCEPT !.valid = @ \ {d}])
           v == Freed(r, row)
<1>4. u = [v EXCEPT !.row[d] = <<>>, !.req[d] = <<>>]
  BY <1>2 DEF RemoveDevice
<1>5. /\ r.reg = t.reg /\ r.row = t.row /\ r.req = t.req /\ r.tag_changed = t.tag_changed
      /\ r.pool = t.pool /\ r.valid = t.valid \ {d} /\ DOMAIN r = DOMAIN t
      /\ r.advc = FirstValid(r.valid) /\ r.req_ix = 1
  BY ONLY <1>1 DEF Restarted, TableShape
<1>6. TableShape(r)
  BY ONLY <1>1, <1>5 DEF TableShape
<1> HIDE DEF r
<1>7. /\ DOMAIN v = DOMAIN r /\ v.row = r.row /\ v.req = r.req /\ v.valid = r.valid
      /\ Cleared(r, row, v)
  <2>1. v = Freed(r, row)
    OBVIOUS
  <2> HIDE DEF v
  <2> QED
    BY ONLY <1>3, <1>6, <2>1, FreedIs
<1>8. v.advc = r.advc /\ v.req_ix = r.req_ix
  BY ONLY <1>6 DEF Freed, TableShape
<1> HIDE DEF v
<1>9. /\ u.reg = v.reg /\ u.row = [t.row EXCEPT ![d] = <<>>] /\ u.req = [t.req EXCEPT ![d] = <<>>]
      /\ u.valid = r.valid /\ u.advc = r.advc /\ u.req_ix = r.req_ix
  <2>1. DOMAIN v = Fields
    BY <1>6, <1>7 DEF TableShape, Fields
  <2> QED
    BY ONLY <1>4, <1>5, <1>7, <1>8, <2>1 DEF Fields
<1>10. DOMAIN t.row = Devices /\ DOMAIN t.req = Devices
  BY <1>1 DEF TableShape
<1>11. ASSUME NEW e \in Devices
       PROVE  Cut(u, e)
  <2>1. CASE e = d
    <3>1. u.row[e] = <<>> /\ u.req[e] = <<>>
      BY <1>9, <1>10, <2>1
    <3> QED
      BY <3>1, NothingCut DEF Cut
  <2>2. CASE e # d
    <3>1. u.row[e] = t.row[e] /\ u.req[e] = t.req[e]
      BY <1>9, <1>10, <2>2
    <3>2. ASSUME NEW p \in ToSet(t.row[e])
          PROVE  u.reg[p].handle = t.reg[p].handle
      <4>1. p \in Places /\ t.reg[p].handle.dev_addr = e
        BY <1>1, <3>2, RowPlaces, SetOfSeq
      <4>2. p \notin ToSet(row)
        BY <1>3, <2>2, <4>1
      <4> QED
        BY <1>5, <1>7, <1>9, <4>1, <4>2 DEF Cleared
    <3>3. Cut(t, e)
      BY <1>1 DEF AllCut
    <3> QED
      BY <3>1, <3>2, <3>3, CutKept
  <2> QED
    BY <2>1, <2>2
<1>12. AllCut(u) /\ u.advc = FirstValid(u.valid) /\ u.req_ix = 1
  BY <1>5, <1>9, <1>11 DEF AllCut
<1>13. AtRest(u)
  BY RemoveTaskDone DEF DeviceRemoved
<1> QED
  BY <1>12, <1>13, BeginsAgain

\* The poll goes on to a request.
LEMMA AdvancedRequest ==
  ASSUME NEW t, AtRest(t), Requested(t), t.valid # {}, NEW u, u = Advanced(t)
  PROVE  /\ u.reg = t.reg /\ u.row = t.row /\ u.req = t.req /\ u.valid = t.valid
         /\ AtRequest(u)
<1>1. DOMAIN t = Fields /\ t.valid \in SUBSET Devices
  BY SoundKind DEF AtRest, Kind, Sound, TableShape
<1>2. t.advc \in t.valid /\ t.req_ix \in 1 .. Len(t.req[t.advc]) /\ AllCut(t)
  BY DEF Requested, AtRequest
<1>3. PICK n \in Nat : n = Len(t.req[t.advc])
  BY <1>2, ValidHasRequest
<1>4. CASE t.req_ix < Len(t.req[t.advc])
  <2>1. /\ u.reg = t.reg /\ u.row = t.row /\ u.req = t.req /\ u.valid = t.valid
        /\ u.advc = t.advc /\ u.req_ix = t.req_ix + 1
    BY <1>1, <1>4 DEF Advanced, Fields
  <2>2. t.req_ix + 1 \in 1 .. n
    BY <1>2, <1>3, <1>4
  <2> QED
    BY <1>2, <1>3, <2>1, <2>2 DEF AtRequest
<1>5. CASE ~(t.req_ix < Len(t.req[t.advc]))
  <2> DEFINE rest == {d \in t.valid : d > t.advc}
  <2>1. PICK V : V = IF rest = {} THEN t.valid ELSE rest
    OBVIOUS
  <2>2. /\ u.reg = t.reg /\ u.row = t.row /\ u.req = t.req /\ u.valid = t.valid
        /\ u.advc = FirstValid(V) /\ u.req_ix = 1
    BY <1>1, <1>5, <2>1 DEF Advanced, Fields
  <2>3. V \in SUBSET Devices /\ V \subseteq t.valid /\ V # {}
    BY <1>1, <2>1
  <2>4. FirstValid(V) \in t.valid
    BY <2>3, FirstIsOne
  <2>5. 1 \in 1 .. Len(t.req[FirstValid(V)])
    BY <1>2, <2>4, ValidHasRequest
  <2> QED
    BY <2>2, <2>4, <2>5 DEF AtRequest
<1> QED
  BY <1>4, <1>5

\* read_advised.
LEMMA PollRequested ==
  ASSUME NEW t, AtRest(t), Requested(t), t.valid # {}, NEW u \in Polls(t)
  PROVE  Requested(u)
<1>1. Sound(t) /\ TableShape(t)
  BY DEF AtRest, Sound
<1>2. PICK v : u = Advanced(v) /\ Read(t, v)
  BY <1>1, PollReads
<1>3. AtRest(v)
  BY ONLY <1>2, AtRest(t), ValuesChanged DEF Read, Polled
<1>4. SameRequests(t, v)
  BY <1>2 DEF Read, SameRequests, TableShape, Kind, Fields
<1>5. AllCut(v)
  BY <1>1, <1>4, SameCut DEF AllCut, Requested
<1>6. Requested(v) /\ v.valid # {}
  BY <1>4, <1>5 DEF Requested, AtRequest, SameRequests
<1>7. /\ u.reg = v.reg /\ u.row = v.row /\ u.req = v.req /\ u.valid = v.valid
      /\ AtRequest(u)
  BY ONLY <1>2, <1>3, <1>6, AdvancedRequest
<1> QED
  BY <1>5, <1>7 DEF Requested, AllCut, Cut

\* At first there is nothing to request.
LEMMA InitialRequested == Requested(InitialTable)
<1>1. PICK t : t = InitialTable
  OBVIOUS
<1>2. /\ t.row = [d \in Devices |-> <<>>] /\ t.req = [d \in Devices |-> <<>>]
      /\ t.valid = {} /\ t.advc = NoDevice
  BY <1>1 DEF InitialTable
<1>3. AllCut(t)
  BY <1>2, NothingCut DEF AllCut, Cut
<1> QED
  BY <1>1, <1>2, <1>3 DEF Requested, AtRequest

\* A table at rest whose rows are cut is covered by its requests.
LEMMA RequestedCovers ==
  ASSUME NEW t, AtRest(t), Requested(t)
  PROVE  RequestsCover(t)
<1>1. t.valid \subseteq Devices /\ \A d \in Devices : d \in t.valid <=> t.row[d] # <<>>
  BY DEF AtRest, Sound, TableShape
<1>2. t.valid = {d \in Devices : t.row[d] # <<>>}
  BY <1>1
<1>3. \A d \in Devices : Cuts(t.reg, t.row[d], t.req[d])
  BY DEF Requested, AllCut, Cut
<1>4. \A d \in Devices : FlattenSeq(t.req[d]) = t.row[d] /\ DOMAIN t.req[d] = 1 .. Len(t.req[d])
  BY <1>3 DEF Cuts
<1>5. ASSUME NEW d \in t.valid, NEW s \in ToSet(t.req[d])
      PROVE  /\ Len(s) \in 1 .. MaxRegInReq
             /\ \A i \in 1 .. (Len(s) - 1) : Follows(t.reg[s[i + 1]].handle, t.reg[s[i]].handle)
  <2>1. d \in Devices
    BY <1>1
  <2>2. PICK k \in DOMAIN t.req[d] : s = t.req[d][k]
    BY DEF ToSet
  <2>3. Piece(t.reg, t.row[d], s)
    BY <1>3, <1>4, <2>1, <2>2 DEF Cuts
  <2> QED
    BY <2>3 DEF Piece
<1>6. IF t.valid = {} THEN t.advc = NoDevice
      ELSE t.advc \in t.valid /\ t.req_ix \in DOMAIN t.req[t.advc]
  BY <1>1, <1>4 DEF Requested, AtRequest
<1> QED
  BY ONLY <1>2, <1>4, <1>5, <1>6 DEF RequestsCover

-----------------------------------------------------------------------------
(* The worker: what is true between two tasks.                              *)
WorkerInv ==
  /\ AtRest(table)
  /\ held \in [Handles -> Nat] /\ removals \in Nat
  /\ HeldAreCounted

\* A register that is held has that count, and one that is not held is gone.
LEMMA HeldIs ==
  ASSUME NEW t, NEW h, NEW n
  PROVE  (IF Found(t, h) THEN n = t.reg[PlaceOf(t, h)].ref_cnt /\ n > 0 ELSE n = 0)
           <=> IF Found(t, h) THEN n = Counted(t, h) /\ n > 0 ELSE n = 0
BY DEF Counted

\* At first nothing is there and nothing is held.
LEMMA WorkerStarts == WorkerInit => WorkerInv
<1> SUFFICES ASSUME WorkerInit
             PROVE  WorkerInv
  OBVIOUS
<1>1. table = InitialTable /\ held = [h \in Handles |-> 0] /\ removals = 0
  BY DEF WorkerInit
<1>2. HeldAreCounted
  BY <1>1, InitialAtRest DEF HeldAreCounted
<1> QED
  BY <1>1, <1>2, InitialAtRest DEF WorkerInv

\* Two handles at most are asked for in one task of the worker's clients.
LEMMA ListOfHandles ==
  ASSUME NEW hs \in SeqOf(Handles, 2)
  PROVE  hs \in Seq(Handles) /\ DOMAIN hs = 1 .. Len(hs) /\ Len(hs) \in Nat
<1>1. PICK m \in 0 .. 2 : hs \in [1 .. m -> Handles]
  BY DEF SeqOf
<1> QED
  BY <1>1

\* t_add_registers.
LEMMA AddTaskStep ==
  ASSUME WorkerInv, AddTask
  PROVE  WorkerInv'
<1>1. PICK hs \in SeqOf(Handles, 2) :
        /\ Cardinality({h \in ToSet(hs) : ~Found(table, h)}) <= Len(table.pool)
        /\ table' = AddRegisters(table, hs)
        /\ held' = [h \in Handles |-> held[h] + Cardinality({i \in DOMAIN hs : hs[i] = h})]
  BY DEF AddTask
<1>2. PICK n : n = Len(hs)
  OBVIOUS
<1>3. hs \in Seq(Handles) /\ DOMAIN hs = 1 .. n /\ n \in Nat
  BY <1>2, ListOfHandles
<1>4. AtRest(table)
  BY DEF WorkerInv
<1>5. PICK t : t = table
  OBVIOUS
<1>6. PICK u : u = AddRegisters(t, hs)
  OBVIOUS
<1>7. Added(t, hs, u)
  <2>1. Cardinality({h \in ToSet(hs) : ~Found(t, h)}) <= Len(t.pool) /\ AtRest(t)
    BY <1>1, <1>4, <1>5
  <2>2. hs \in Seq(Handles)
    BY <1>3
  <2> QED
    BY ONLY <1>6, <2>1, <2>2, AddTaskDone
<1>8. table' = u /\ removals' = removals
  BY <1>1, <1>5, <1>6 DEF AddTask
<1>9. held' = [h \in Handles |-> held[h] + Among(hs, n, h)]
  BY <1>1, <1>3 DEF Among
<1>10. \A h \in Handles : Among(hs, n, h) \in Nat /\ held[h] \in Nat
  <2>1. \A h : Among(hs, n, h) \in Nat
    BY <1>3, AmongIs
  <2> QED
    BY <2>1 DEF WorkerInv
<1>11. held' \in [Handles -> Nat]
  BY ONLY <1>9, <1>10
<1>12. ASSUME removals = 0, NEW h \in Handles
       PROVE  IF Found(u, h) THEN held'[h] = Counted(u, h) /\ held'[h] > 0 ELSE held'[h] = 0
  <2>1. IF Found(t, h) THEN held[h] = Counted(t, h) /\ held[h] > 0 ELSE held[h] = 0
    BY <1>5, <1>12, HeldIs DEF WorkerInv, HeldAreCounted
  <2>2. /\ Found(u, h) <=> Found(t, h) \/ \E i \in 1 .. n : hs[i] = h
        /\ Total(u, h) = Total(t, h) + Among(hs, n, h)
        /\ AtRest(u)
    BY ONLY <1>2, <1>7, h \in Handles DEF Added
  <2>3. /\ Among(hs, n, h) \in Nat
        /\ Among(hs, n, h) > 0 <=> \E i \in 1 .. n : hs[i] = h
    BY <1>3, AmongIs
  <2>4. held'[h] = held[h] + Among(hs, n, h)
    BY <1>9
  <2>5. held[h] = Total(t, h)
    BY <2>1 DEF Total
  <2>6. held'[h] = Total(u, h)
    BY <2>2, <2>4, <2>5
  <2>7. Found(u, h) => Counted(u, h) > 0
    BY <2>2 DEF AtRest
  <2> QED
    BY <2>6, <2>7 DEF Total
<1>13. HeldAreCounted'
  <2>1. removals = 0 => \A h \in Handles :
          IF Found(u, h) THEN held'[h] = u.reg[PlaceOf(u, h)].ref_cnt /\ held'[h] > 0 ELSE held'[h] = 0
    BY <1>12, HeldIs
  <2> QED
    BY <1>8, <2>1 DEF HeldAreCounted
<1>14. AtRest(u)
  BY <1>7 DEF Added
<1> QED
  BY <1>8, <1>11, <1>13, <1>14 DEF WorkerInv

\* What a client gives back of the registers H.
Gives(H, n) == [i \in 1 .. Cardinality(H) |-> <<SetToSeq(H)[i], n[SetToSeq(H)[i]]>>]

\* It is given back of each.
LEMMA GivenBackOnce ==
  ASSUME NEW H \in SUBSET Handles, NEW n \in [H -> 1 .. 2], NEW xs, xs = Gives(H, n)
  PROVE  /\ xs \in Seq(Entries)
         /\ \A h \in Handles : GivenBack(xs, Len(xs), h) = IF h \in H THEN n[h] ELSE 0
<1>1. IsFiniteSet(H)
  BY RegisterAssumption, FS_Subset
<1>2. PICK s : s = SetToSeq(H)
  OBVIOUS
<1>3. PICK m : m = Cardinality(H)
  OBVIOUS
<1>4. /\ s \in [1 .. m -> H] /\ m \in Nat
      /\ \A i, j \in 1 .. m : s[i] = s[j] => i = j
      /\ \A x \in H : \E i \in 1 .. m : s[i] = x
  BY <1>1, <1>2, <1>3, SetAsSeq
<1>5. xs = [i \in 1 .. m |-> <<s[i], n[s[i]]>>]
  BY <1>2, <1>3 DEF Gives
<1>6. \A i \in 1 .. m : s[i] \in H /\ s[i] \in Handles /\ n[s[i]] \in Nat \ {0}
  <2> TAKE i \in 1 .. m
  <2>1. s[i] \in H
    BY <1>4
  <2>2. n[s[i]] \in 1 .. 2
    BY <2>1
  <2> QED
    BY <2>1, <2>2
<1>7. xs \in Seq(Entries) /\ Len(xs) = m
  <2>1. \A i \in 1 .. m : <<s[i], n[s[i]]>> \in Entries
    BY <1>6 DEF Entries
  <2>2. xs \in [1 .. m -> Entries]
    BY ONLY <1>5, <2>1
  <2>3. m \in Nat
    BY <1>4
  <2> QED
    BY ONLY <2>2, <2>3
<1>8. \A i \in 1 .. m : xs[i][1] = s[i] /\ xs[i][2] = n[s[i]]
  BY ONLY <1>5
<1>9. ASSUME NEW h \in Handles, h \notin H
      PROVE  GivenBack(xs, m, h) = 0
  <2>1. \A i \in 1 .. m : xs[i][1] # h
    BY <1>6, <1>8, <1>9
  <2>2. Back(xs, m, h) = {}
    BY <2>1 DEF Back
  <2> QED
    BY <2>2, FS_EmptySet DEF GivenBack
<1>10. ASSUME NEW h \in H
       PROVE  GivenBack(xs, m, h) = n[h]
  <2>1. PICK k \in 1 .. m : s[k] = h
    BY <1>4
  <2>2. \A i \in 1 .. m : xs[i][1] = h <=> i = k
    BY ONLY <1>4, <1>8, <2>1
  <2>3. PICK c : c = n[h]
    OBVIOUS
  <2>4. c \in Nat /\ xs[k][2] = c
    BY <1>6, <1>8, <2>1, <2>3
  <2>5. Back(xs, m, h) = {k} \X (1 .. c)
    <3>1. {i \in 1 .. m : xs[i][1] = h} = {k}
      BY <2>2
    <3> QED
      BY <2>4, <3>1 DEF Back
  <2>6. Cardinality({k} \X (1 .. c)) = c
    BY <2>4, Times
  <2> QED
    BY <2>3, <2>5, <2>6 DEF GivenBack
<1>11. \A h \in Handles : GivenBack(xs, m, h) = IF h \in H THEN n[h] ELSE 0
  BY <1>9, <1>10
<1> QED
  BY <1>7, <1>11

\* t_release_registers.
LEMMA ReleaseTaskStep ==
  ASSUME WorkerInv, ReleaseTask
  PROVE  WorkerInv'
<1>14. PICK H \in SUBSET Handles : \E n \in [H -> 1 .. 2] :
        /\ \A h \in H : n[h] <= held[h]
        /\ table' = ReleaseRegisters(table,
                      [i \in 1 .. Cardinality(H) |-> <<SetToSeq(H)[i], n[SetToSeq(H)[i]]>>])
        /\ held' = [h \in Handles |-> IF h \in H THEN held[h] - n[h] ELSE held[h]]
  BY DEF ReleaseTask
<1>1. PICK n \in [H -> 1 .. 2] :
        /\ \A h \in H : n[h] <= held[h]
        /\ table' = ReleaseRegisters(table,
                      [i \in 1 .. Cardinality(H) |-> <<SetToSeq(H)[i], n[SetToSeq(H)[i]]>>])
        /\ held' = [h \in Handles |-> IF h \in H THEN held[h] - n[h] ELSE held[h]]
  BY <1>14
<1>2. PICK xs : xs = Gives(H, n)
  OBVIOUS
<1>3. /\ xs \in Seq(Entries)
      /\ \A h \in Handles : GivenBack(xs, Len(xs), h) = IF h \in H THEN n[h] ELSE 0
  BY <1>2, GivenBackOnce
<1>4. PICK t : t = table
  OBVIOUS
<1>5. PICK u : u = ReleaseRegisters(t, xs)
  OBVIOUS
<1>6. ReleasedAll(t, xs, u)
  <2>1. AtRest(t)
    BY <1>4 DEF WorkerInv
  <2>2. xs \in Seq(Entries)
    BY <1>3
  <2> QED
    BY ONLY <1>5, <2>1, <2>2, ReleaseTaskDone
<1>7. table' = u /\ removals' = removals
  BY <1>1, <1>2, <1>4, <1>5 DEF ReleaseTask, Gives
<1>8. \A h \in Handles : /\ held[h] \in Nat
                         /\ h \in H => n[h] \in Nat /\ n[h] > 0 /\ held[h] - n[h] \in Nat
  <2> TAKE h \in Handles
  <2>1. held[h] \in Nat
    BY DEF WorkerInv
  <2>2. ASSUME h \in H PROVE n[h] \in 1 .. 2 /\ n[h] <= held[h]
    BY <1>1, <2>2
  <2> QED
    BY ONLY <2>1, <2>2
<1>9. held' = [h \in Handles |-> IF h \in H THEN held[h] - n[h] ELSE held[h]]
  BY <1>1
<1>10. held' \in [Handles -> Nat]
  BY ONLY <1>8, <1>9
<1>11. ASSUME removals = 0, NEW h \in Handles
       PROVE  IF Found(u, h) THEN held'[h] = Counted(u, h) /\ held'[h] > 0 ELSE held'[h] = 0
  <2>1. IF Found(t, h) THEN held[h] = Counted(t, h) /\ held[h] > 0 ELSE held[h] = 0
    BY <1>4, <1>11, HeldIs DEF WorkerInv, HeldAreCounted
  <2>2. PICK g : g = GivenBack(xs, Len(xs), h)
    OBVIOUS
  <2>3. /\ Found(u, h) <=> Found(t, h) /\ Counted(t, h) - g > 0
        /\ Found(u, h) => Counted(u, h) = Counted(t, h) - g
    BY <1>6, <2>2 DEF ReleasedAll
  <2>4. PICK a, b : a = held[h] /\ b = held'[h]
    OBVIOUS
  <2>5. a \in Nat /\ b \in Nat /\ b = a - g /\ g \in Nat
    <3>1. CASE h \in H
      <4>1. g = n[h] /\ b = a - n[h]
        BY <1>3, <1>9, <2>2, <2>4, <3>1
      <4> QED
        BY <1>8, <2>4, <3>1, <4>1
    <3>2. CASE h \notin H
      <4>1. g = 0 /\ b = a
        BY <1>3, <1>9, <2>2, <2>4, <3>2
      <4> QED
        BY <1>8, <2>4, <3>2, <4>1
    <3> QED
      BY <3>1, <3>2
  <2>6. CASE Found(t, h)
    <3>1. Counted(t, h) = a
      BY <2>1, <2>4, <2>6
    <3>2. IF Found(u, h) THEN b = Counted(u, h) /\ b > 0 ELSE b = 0
      BY ONLY <2>3, <2>5, <2>6, <3>1
    <3> QED
      BY <2>4, <3>2
  <2>7. CASE ~Found(t, h)
    <3>1. a = 0 /\ ~Found(u, h)
      BY <2>1, <2>3, <2>4, <2>7
    <3>2. b = 0
      BY ONLY <2>5, <3>1
    <3> QED
      BY <2>4, <3>1, <3>2
  <2> QED
    BY <2>6, <2>7
<1>12. HeldAreCounted'
  <2>1. removals = 0 => \A h \in Handles :
          IF Found(u, h) THEN held'[h] = u.reg[PlaceOf(u, h)].ref_cnt /\ held'[h] > 0 ELSE held'[h] = 0
    BY <1>11, HeldIs
  <2> QED
    BY <1>7, <2>1 DEF HeldAreCounted
<1>13. AtRest(u)
  BY <1>6 DEF ReleasedAll
<1> QED
  BY <1>7, <1>10, <1>12, <1>13 DEF WorkerInv

\* t_remove_device: from now on clients may hold what is gone.
LEMMA RemoveTaskStep ==
  ASSUME WorkerInv, RemoveTask
  PROVE  WorkerInv'
<1>1. PICK d \in Devices : table' = RemoveDevice(table, d)
  BY DEF RemoveTask
<1>2. PICK t : t = table
  OBVIOUS
<1>3. PICK u : u = RemoveDevice(t, d)
  OBVIOUS
<1>4. AtRest(u)
  <2>1. AtRest(t)
    BY <1>2 DEF WorkerInv
  <2>2. DeviceRemoved(t, d, u)
    BY ONLY <1>3, <2>1, d \in Devices, RemoveTaskDone
  <2> QED
    BY <2>2 DEF DeviceRemoved
<1>5. table' = u /\ held' = held /\ removals' = removals + 1 /\ removals \in Nat
  BY <1>1, <1>2, <1>3 DEF RemoveTask, WorkerInv
<1>6. removals' \in Nat /\ removals' # 0
  BY <1>5
<1>7. HeldAreCounted'
  BY <1>6 DEF HeldAreCounted
<1> QED
  BY <1>4, <1>5, <1>6, <1>7 DEF WorkerInv

\* read_advised.
LEMMA PollOnceStep ==
  ASSUME WorkerInv, PollOnce
  PROVE  WorkerInv'
<1>1. PICK t : t = table
  OBVIOUS
<1>2. PICK u : u = table'
  OBVIOUS
<1>3. Polled(t, u)
  <2>1. AtRest(t) /\ u \in Polls(t)
    BY <1>1, <1>2 DEF WorkerInv, PollOnce
  <2> QED
    BY ONLY <2>1, PollDone
<1>4. held' = held /\ removals' = removals
  BY DEF PollOnce
<1>5. AtRest(u)
  BY <1>3 DEF Polled
<1>6. ASSUME removals = 0, NEW h \in Handles
      PROVE  IF Found(u, h) THEN held[h] = Counted(u, h) /\ held[h] > 0 ELSE held[h] = 0
  <2>1. IF Found(t, h) THEN held[h] = Counted(t, h) /\ held[h] > 0 ELSE held[h] = 0
    BY <1>1, <1>6, HeldIs DEF WorkerInv, HeldAreCounted
  <2>2. /\ Found(u, h) <=> Found(t, h)
        /\ Found(t, h) => Counted(u, h) = Counted(t, h)
    BY <1>3 DEF Polled
  <2> QED
    BY <2>1, <2>2
<1>7. HeldAreCounted'
  <2>1. removals = 0 => \A h \in Handles :
          IF Found(u, h) THEN held[h] = u.reg[PlaceOf(u, h)].ref_cnt /\ held[h] > 0 ELSE held[h] = 0
    BY <1>6, HeldIs
  <2> QED
    BY <1>2, <1>4, <2>1 DEF HeldAreCounted
<1> QED
  BY <1>2, <1>4, <1>5, <1>7 DEF WorkerInv

\* Every step keeps it.
LEMMA WorkerStep == WorkerInv /\ [WorkerNext]_worker_vars => WorkerInv'
<1> SUFFICES ASSUME WorkerInv, [WorkerNext]_worker_vars
             PROVE  WorkerInv'
  OBVIOUS
<1>1. CASE WorkerNext
  BY <1>1, AddTaskStep, ReleaseTaskStep, RemoveTaskStep, PollOnceStep DEF WorkerNext
<1>2. CASE UNCHANGED worker_vars
  BY <1>2 DEF worker_vars, WorkerInv, HeldAreCounted
<1> QED
  BY <1>1, <1>2

\* Between tasks the table is at rest, and counts what is held.
THEOREM WorkerAtRest == WorkerSpec => []WorkerInv
BY WorkerStarts, WorkerStep, PTL DEF WorkerSpec

\* However tasks add, release and remove, the rows stay sorted, each place is
\* free or in one row, once, and while no device is removed a register lives
\* as long as clients hold handles for it, with that count (add_register,
\* release_register, build_req, rebuild, remove_device).
THEOREM TableStaysSound == WorkerSpec => []TableSound
<1>1. WorkerInv => TableSound
  <2> SUFFICES ASSUME WorkerInv
               PROVE  TableSound
    OBVIOUS
  <2>1. PICK t : t = table
    OBVIOUS
  <2>2. Sound(t)
    BY <2>1 DEF WorkerInv, AtRest
  <2>3. RowsSorted(t) /\ PlacesShared(t)
    BY <2>2, SoundIsShared
  <2> QED
    BY <2>1, <2>3 DEF WorkerInv, TableSound
<1> QED
  BY <1>1, WorkerAtRest, PTL

\* However tasks add, release and remove, the requests of a device are its
\* registers, each once, in runs without gaps that are not too long, and the
\* poll is at one of them (build_req, rebuild, remove_device, read_advised).
THEOREM TableStaysRequested == WorkerSpec => []TableRequested
<1> DEFINE Inv == WorkerInv /\ Requested(table)
<1>1. WorkerInit => Inv
  BY WorkerStarts, InitialRequested DEF WorkerInit
<1>2. Inv /\ [WorkerNext]_worker_vars => Inv'
  <2> SUFFICES ASSUME Inv, [WorkerNext]_worker_vars
               PROVE  Requested(table)'
    BY WorkerStep
  <2>1. PICK t : t = table
    OBVIOUS
  <2>2. PICK u : u = table'
    OBVIOUS
  <2>3. AtRest(t) /\ Requested(t)
    BY <2>1 DEF WorkerInv
  <2>4. CASE AddTask
    <3>1. PICK hs \in SeqOf(Handles, 2) :
            /\ Cardinality({h \in ToSet(hs) : ~Found(t, h)}) <= Len(t.pool)
            /\ u = AddRegisters(t, hs)
      BY <2>1, <2>2, <2>4 DEF AddTask
    <3>2. hs \in Seq(Handles)
      BY ListOfHandles
    <3>3. Requested(u)
      BY ONLY <2>3, <3>1, <3>2, AddTaskRequested
    <3> QED
      BY <2>2, <3>3
  <2>5. CASE ReleaseTask
    <3>1. PICK H \in SUBSET Handles : \E n \in [H -> 1 .. 2] :
            table' = ReleaseRegisters(table,
                       [i \in 1 .. Cardinality(H) |-> <<SetToSeq(H)[i], n[SetToSeq(H)[i]]>>])
      BY <2>5 DEF ReleaseTask
    <3>2. PICK n \in [H -> 1 .. 2] :
            table' = ReleaseRegisters(table,
                       [i \in 1 .. Cardinality(H) |-> <<SetToSeq(H)[i], n[SetToSeq(H)[i]]>>])
      BY <3>1
    <3>3. PICK xs : xs = Gives(H, n)
      OBVIOUS
    <3>4. xs \in Seq(Entries)
      BY <3>3, GivenBackOnce
    <3>5. u = ReleaseRegisters(t, xs)
      BY <2>1, <2>2, <3>2, <3>3 DEF Gives
    <3>6. Requested(u)
      BY ONLY <2>3, <3>4, <3>5, ReleaseTaskRequested
    <3> QED
      BY <2>2, <3>6
  <2>6. CASE RemoveTask
    <3>1. PICK d \in Devices : u = RemoveDevice(t, d)
      BY <2>1, <2>2, <2>6 DEF RemoveTask
    <3>2. Requested(u)
      BY ONLY <2>3, <3>1, RemoveTaskRequested
    <3> QED
      BY <2>2, <3>2
  <2>7. CASE PollOnce
    <3>1. t.valid # {} /\ u \in Polls(t)
      BY <2>1, <2>2, <2>7 DEF PollOnce
    <3>2. Requested(u)
      BY ONLY <2>3, <3>1, PollRequested
    <3> QED
      BY <2>2, <3>2
  <2>8. CASE UNCHANGED worker_vars
    <3>1. u = t
      BY <2>1, <2>2, <2>8 DEF worker_vars
    <3> QED
      BY <2>2, <2>3, <3>1
  <2> QED
    BY <2>4, <2>5, <2>6, <2>7, <2>8 DEF WorkerNext
<1>3. Inv => TableRequested
  BY RequestedCovers DEF WorkerInv, TableRequested
<1> QED
  BY <1>1, <1>2, <1>3, PTL DEF WorkerSpec
=============================================================================
