--------------------------- MODULE ChannelProofs ---------------------------
(***************************************************************************)
(* nprpc over shared memory.  A ring with one writer never overwrites a    *)
(* record that is not consumed and hands the reader exactly what was       *)
(* written, for every buffer size, message set and number of writes.  On   *)
(* channels made of such rings, clients that connect one at a time are not *)
(* forgotten, get_session finds no closed session, and a call that returns *)
(* has the answer to its own request: for any number of callers, calls,    *)
(* sessions and other processes.                                           *)
(***************************************************************************)
EXTENDS RingBuffer, SharedMemorySession, Lemmas

(***************************************************************************)
(* The ring.                                                               *)
(***************************************************************************)
\* what "single producer" in the header's first comment asks for
OneWriter == \A v, w \in Writers : v = w

-----------------------------------------------------------------------------
(* The inductive invariant.  Positions are counts of bytes since the ring   *)
(* was created; a position p lives in cell Wrap(p).                         *)

\* records follow each other without gap or overlap
Layout ==
  /\ Len(delivered) <= Len(sent)
  /\ \A i \in 1 .. Len(sent) : i = 1 => sent[i].at = 0
  /\ \A i, j \in 1 .. Len(sent) : j = i + 1 => sent[j].at = End(sent[i])
  /\ \A i, j \in 1 .. Len(sent) : i < j => End(sent[i]) <= sent[j].at

\* the indices are the positions wrapped, and a lap is never completed
Window ==
  /\ write_idx = Wrap(WritePos)
  /\ read_idx = Wrap(ReadPos)
  /\ WritePos - ReadPos <= BufferSize - 2

\* a writer past the room check still has that room, and what it has stored
\* so far is still there
WriterInv ==
  \A w \in Writers :
    /\ wpc[w] \in Writing =>
         /\ wmsg[w] \in Messages
         /\ WritePos + Total(wmsg[w]) <= ReadPos + BufferSize - 2
    /\ wpc[w] \in {"payload", "publish"} =>
         /\ wlocal[w] = Wrap(WritePos + HeaderSize)
         /\ Holds(WritePos, Header(Size[wmsg[w]]))
    /\ wpc[w] = "publish" => Holds(WritePos + HeaderSize, Payload(wmsg[w]))

\* a reader past the empty check is working on the oldest record
ReaderInv ==
  LET next == sent[Len(delivered) + 1].msg
  IN  /\ rpc \in {"header", "payload", "advance"} => Len(delivered) < Len(sent)
      /\ rpc = "header" => rlocal = Wrap(ReadPos)
      /\ rpc \in {"payload", "advance"} =>
           /\ rlocal = Wrap(ReadPos + HeaderSize)
           /\ rsize = Size[next]
      /\ rpc = "advance" => rdata = next

IInv ==
  /\ TypeOK
  /\ Layout
  /\ Window
  /\ RecordsIntact
  /\ WriterInv
  /\ ReaderInv
  /\ DeliveredInOrder

-----------------------------------------------------------------------------
(* Facts about the definitions.                                             *)

\* every position lives in a cell of the ring
LEMMA WrapInIdx == ASSUME NEW p \in Int PROVE Wrap(p) \in Idx
  BY DivMod, SizesAssumption DEF Wrap, Idx

\* wrapping on the way does not change the cell
LEMMA WrapWrap == ASSUME NEW p \in Int, NEW k \in Int PROVE Wrap(Wrap(p) + k) = Wrap(p + k)
  BY ModAdd, SizesAssumption DEF Wrap

LEMMA HeaderBytes ==
  ASSUME NEW n \in Nat
  PROVE  /\ DOMAIN Header(n) = 0 .. HeaderSize - 1
         /\ Header(n) \in [0 .. HeaderSize - 1 -> Cell]
         /\ Header(n)[0] = HeaderByte(n, 0)
  BY SizesAssumption DEF Header, HeaderByte, Cell

LEMMA PayloadBytes ==
  ASSUME NEW m \in Messages
  PROVE  /\ Size[m] \in Nat \ {0}
         /\ DOMAIN Payload(m) = 0 .. Size[m] - 1
         /\ Payload(m) \in [0 .. Size[m] - 1 -> Cell]
         /\ Payload(m)[0] = PayloadByte(m, 0)
  BY SizesAssumption DEF Payload, PayloadByte, Cell

\* storing n bytes at position p puts them there and leaves every other
\* cell of the lap that ends at p + n alone
LEMMA StoredBytes ==
  ASSUME NEW p \in Int, NEW n \in 0 .. BufferSize, NEW bytes \in [0 .. n - 1 -> Cell],
         data_region \in [Idx -> Cell], data_region' = Stored(Wrap(p), bytes)
  PROVE  /\ data_region' \in [Idx -> Cell]
         /\ \A k \in 0 .. n - 1 : data_region'[Wrap(p + k)] = bytes[k]
         /\ \A q \in Int : q < p /\ p + n <= q + BufferSize =>
              data_region'[Wrap(q)] = data_region[Wrap(q)]
<1>1. ASSUME NEW k \in 0 .. n - 1
      PROVE  (Wrap(p + k) - Wrap(p)) % BufferSize = k /\ Wrap(Wrap(p) + k) = Wrap(p + k)
  <2>1. Wrap(Wrap(p) + k) = Wrap(p + k)
    BY WrapWrap
  <2>2. Wrap(p) \in Int /\ k \in 0 .. BufferSize - 1
    BY WrapInIdx, SizesAssumption DEF Idx
  <2>3. (Wrap(Wrap(p) + k) - Wrap(p)) % BufferSize = k
    <3> DEFINE i == Wrap(p)
    <3>1. i \in Int /\ k \in 0 .. BufferSize - 1
      BY <2>2
    <3> HIDE DEF i
    <3>2. (((i + k) % BufferSize) - i) % BufferSize = k
      BY ONLY <3>1, ModDistance, SizesAssumption
    <3> QED BY <3>2 DEF i, Wrap
  <2> QED BY <2>1, <2>3
<1>2. ASSUME NEW k \in 0 .. n - 1 PROVE data_region'[Wrap(p + k)] = bytes[k]
  <2>1. Wrap(p + k) \in Idx
    BY WrapInIdx, p + k \in Int
  <2> QED BY <1>1, <2>1 DEF Stored
<1>3. data_region' \in [Idx -> Cell]
  <2>1. ASSUME NEW c \in Idx, NEW k \in 0 .. n - 1, c = Wrap(Wrap(p) + k)
        PROVE  bytes[(c - Wrap(p)) % BufferSize] \in Cell
    BY <2>1, <1>1
  <2> QED BY <2>1 DEF Stored
<1>4. ASSUME NEW q \in Int, q < p, p + n <= q + BufferSize
      PROVE  data_region'[Wrap(q)] = data_region[Wrap(q)]
  <2>1. ASSUME NEW k \in 0 .. n - 1, Wrap(q) = Wrap(Wrap(p) + k) PROVE FALSE
    <3>1. Wrap(q) = Wrap(p + k)
      BY <2>1, <1>1
    <3>2. q <= p + k /\ p + k < q + BufferSize /\ p + k \in Int
      BY <1>4, SizesAssumption
    <3>3. q = p + k
      BY ONLY <3>1, <3>2, ModInj, SizesAssumption, q \in Int DEF Wrap
    <3> QED BY <3>3, <1>4
  <2>2. Wrap(q) \in Idx
    BY WrapInIdx
  <2> QED BY <2>1, <2>2 DEF Stored
<1> QED BY <1>2, <1>3, <1>4

\* a length is read back from the bytes that encode it
LEMMA DecodedHeader ==
  ASSUME NEW i \in Int, NEW m \in Messages, Holds(i, Header(Size[m]))
  PROVE  Decoded(i) = {Size[m]}
<1>1. ASSUME NEW n \in Lengths, Holds(i, Header(n)) PROVE n = Size[m]
  <2>1. n \in Nat /\ Size[m] \in Nat
    BY PayloadBytes DEF Lengths
  <2>2. 0 \in DOMAIN Header(n) /\ 0 \in DOMAIN Header(Size[m])
    BY <2>1, HeaderBytes, SizesAssumption
  <2>3. HeaderByte(n, 0) = HeaderByte(Size[m], 0)
    BY <1>1, <2>1, <2>2, HeaderBytes DEF Holds
  <2> QED BY <2>3 DEF HeaderByte
<1>2. Size[m] \in Lengths
  BY DEF Lengths
<1> QED BY <1>1, <1>2 DEF Decoded

\* and a message from its payload bytes
LEMMA CopiedPayload ==
  ASSUME NEW i \in Int, NEW m \in Messages, Holds(i, Payload(m))
  PROVE  Copied(i, Size[m]) = m
<1>1. ASSUME NEW n \in Messages, Size[n] = Size[m], Holds(i, Payload(n)) PROVE n = m
  <2>1. 0 \in DOMAIN Payload(n) /\ 0 \in DOMAIN Payload(m)
    BY PayloadBytes
  <2>2. PayloadByte(n, 0) = PayloadByte(m, 0)
    BY <1>1, <2>1, PayloadBytes DEF Holds
  <2> QED BY <2>2 DEF PayloadByte
<1> QED BY <1>1 DEF Copied

\* where the records and the indices stand
LEMMA Positions ==
  ASSUME TypeOK, Layout
  PROVE  /\ WritePos \in Nat /\ ReadPos \in Nat /\ ReadPos <= WritePos
         /\ \A i \in 1 .. Len(sent) :
              /\ sent[i].msg \in Messages /\ sent[i].at \in Nat
              /\ Total(sent[i].msg) \in Nat /\ End(sent[i]) \in Nat
              /\ End(sent[i]) <= WritePos
              /\ i > Len(delivered) => ReadPos <= sent[i].at
         /\ Len(delivered) < Len(sent) => sent[Len(delivered) + 1].at = ReadPos
         /\ Len(delivered) = Len(sent) <=> ReadPos = WritePos
<1> DEFINE n == Len(sent)
           d == Len(delivered)
<1>1. n \in Nat /\ d \in Nat /\ d <= n
  BY DEF TypeOK, Layout
<1>2. ASSUME NEW i \in 1 .. n
      PROVE  /\ sent[i].msg \in Messages /\ sent[i].at \in Nat
             /\ Total(sent[i].msg) \in Nat \ {0} /\ End(sent[i]) \in Nat
             /\ sent[i].at < End(sent[i])
  <2>1. sent[i] \in [msg : Messages, at : Nat]
    <3> DEFINE Record == [msg : Messages, at : Nat]
    <3>1. sent \in Seq(Record)
      BY DEF TypeOK
    <3> HIDE DEF Record
    <3>2. sent[i] \in Record
      BY <1>1, <3>1
    <3> QED BY <3>2 DEF Record
  <2> QED BY <2>1, SizesAssumption DEF Total, End
<1>3. WritePos \in Nat /\ (n > 0 => WritePos = End(sent[n])) /\ (n = 0 => WritePos = 0)
  BY <1>1, <1>2 DEF WritePos, TypeOK
<1>4. ReadPos \in Nat /\ (d > 0 => ReadPos = End(sent[d])) /\ (d = 0 => ReadPos = 0)
  BY <1>1, <1>2 DEF ReadPos, TypeOK
<1>5. ASSUME NEW i \in 1 .. n, NEW j \in 1 .. n, i <= j
      PROVE  End(sent[i]) <= End(sent[j])
  <2>1. CASE i = j
    BY <2>1, <1>2
  <2>2. CASE i < j
    <3>1. End(sent[i]) <= sent[j].at
      BY <2>2 DEF Layout
    <3>2. sent[j].at < End(sent[j]) /\ sent[j].at \in Nat /\ End(sent[j]) \in Nat /\ End(sent[i]) \in Nat
      BY <1>2
    <3> QED BY <3>1, <3>2
  <2>3. i \in Nat /\ j \in Nat
    BY <1>1
  <2> QED BY <1>5, <2>1, <2>2, <2>3
<1>6. ASSUME NEW i \in 1 .. n PROVE End(sent[i]) <= WritePos
  BY <1>1, <1>3, <1>5
<1>7. ASSUME NEW i \in 1 .. n, i > d PROVE ReadPos <= sent[i].at
  BY <1>1, <1>2, <1>4, <1>7 DEF Layout
<1>8. ASSUME d < n PROVE sent[d + 1].at = ReadPos
  <2>1. d + 1 \in 1 .. n
    BY <1>1, <1>8
  <2>2. CASE d = 0
    BY <2>1, <2>2, <1>4 DEF Layout
  <2>3. CASE d > 0
    BY <2>1, <2>3, <1>1, <1>4 DEF Layout
  <2> QED BY <2>2, <2>3, <1>1
<1>9. ReadPos <= WritePos
  BY <1>1, <1>2, <1>3, <1>4, <1>6
<1>10. d < n => ReadPos < WritePos
  <2>1. SUFFICES ASSUME d < n PROVE ReadPos < WritePos
    OBVIOUS
  <2>2. n \in 1 .. n
    BY <2>1, <1>1
  <2> QED BY <2>1, <2>2, <1>2, <1>3, <1>4, <1>7
<1>11. d = n => ReadPos = WritePos
  BY <1>1, <1>3, <1>4
<1> QED BY <1>1, <1>2, <1>3, <1>4, <1>6, <1>7, <1>8, <1>9, <1>10, <1>11

-----------------------------------------------------------------------------
(* The invariant holds initially and every step preserves it.               *)

LEMMA InitInv == RingInit => IInv
<1> SUFFICES ASSUME RingInit PROVE IInv
  OBVIOUS
<1> USE DEF RingInit
<1>1. WritePos = 0 /\ ReadPos = 0
  BY DEF WritePos, ReadPos
<1>2. TypeOK
  BY SizesAssumption DEF TypeOK, Idx, Cell, Torn
<1>3. Layout /\ RecordsIntact /\ DeliveredInOrder
  BY DEF Layout, RecordsIntact, DeliveredInOrder
<1>4. Window
  <2>1. Wrap(0) = 0
    <3>1. 0 = BufferSize * 0 + 0 /\ 0 \in 0 .. BufferSize - 1
      BY SizesAssumption
    <3> QED BY <3>1, ModUnique, SizesAssumption DEF Wrap
  <2> QED BY <1>1, <2>1, SizesAssumption DEF Window
<1>5. WriterInv /\ ReaderInv
  BY DEF WriterInv, ReaderInv, Writing
<1> QED BY <1>2, <1>3, <1>4, <1>5 DEF IInv

\* the part of the invariant that only reads the ring and the histories
Ring == <<data_region, write_idx, read_idx, sent, delivered>>

LEMMA SameRing ==
  ASSUME IInv, UNCHANGED Ring
  PROVE  Layout' /\ Window' /\ RecordsIntact' /\ DeliveredInOrder'
BY DEF IInv, Ring, Layout, Window, RecordsIntact, DeliveredInOrder, WritePos, ReadPos,
       End, Holds

\* the writer's part, when the writers stand still
LEMMA SameWriters ==
  ASSUME IInv, UNCHANGED <<Ring, wvars>>
  PROVE  WriterInv'
BY DEF IInv, Ring, wvars, WriterInv, WritePos, ReadPos, End, Holds

\* the reader's part, when the reader and the histories stand still
LEMMA SameReader ==
  ASSUME IInv, UNCHANGED <<rvars, sent, delivered>>
  PROVE  ReaderInv'
BY DEF IInv, rvars, ReaderInv, ReadPos, End

\* a step of the reader before it consumes a record
LEMMA ReaderLocal ==
  ASSUME IInv, UNCHANGED <<Ring, wvars>>, TypeOK', ReaderInv'
  PROVE  IInv'
<1>1. UNCHANGED Ring
  OBVIOUS
<1> QED BY <1>1, SameRing, SameWriters DEF IInv

LEMMA TryWriteInv ==
  ASSUME IInv, NEW w \in Writers, NEW m \in Messages, TryWrite(w, m)
  PROVE  IInv'
<1>1. TypeOK'
  BY DEF IInv, TypeOK, TryWrite, Writing, rvars
<1>2. UNCHANGED Ring /\ UNCHANGED <<rvars, sent, delivered>>
  BY DEF TryWrite, Ring
<1>3. WritePos + Total(m) <= ReadPos + BufferSize - 2
  <2> DEFINE W == WritePos
             R == ReadPos
             N == BufferSize
  <2>1. W \in Nat /\ R \in Nat /\ R <= W /\ W - R <= N - 2 /\ N \in Nat \ {0, 1}
    BY Positions, SizesAssumption DEF IInv, Window
  <2>2. write_idx = W % N /\ read_idx = R % N
    BY DEF IInv, Window, Wrap
  <2>3. Total(m) \in Nat
    BY SizesAssumption DEF Total
  <2>4. Total(m) + 1 <= N - UsedBytes - 1
    BY DEF TryWrite, HasRoom, AvailableBytes
  <2>5. UsedBytes = W - R
    <3> DEFINE used == W - R
    <3>1. used \in 0 .. N - 1
      BY <2>1
    <3>2. (((R + used) % N) - (R % N)) \in {used, used - N}
      <4> DEFINE r == R % N
      <4>1. r \in 0 .. N - 1
        BY <2>1, DivMod
      <4>2. (r + used) % N = (R + used) % N
        <5>1. N \in Nat \ {0} /\ R \in Int /\ used \in Int
          BY <2>1, <3>1
        <5> QED BY ONLY <5>1, ModAdd
      <4> HIDE DEF r, used, W, R, N
      <4>3. CASE r + used < N
        <5>1. (r + used) % N = r + used
          BY <4>1, <4>3, <3>1, <2>1, ModUnique, r + used = N * 0 + (r + used)
        <5> QED BY <5>1, <4>1, <4>2, <3>1, <2>1 DEF r
      <4>4. CASE r + used >= N
        <5>1. (r + used) % N = r + used - N
          BY <4>1, <4>4, <3>1, <2>1, ModUnique, r + used = N * 1 + (r + used - N)
        <5> QED BY <5>1, <4>1, <4>2, <3>1, <2>1 DEF r
      <4> QED BY <4>1, <4>3, <4>4, <3>1, <2>1
    <3>3. R + used = W
      BY <2>1
    <3>4. (W % N) - (R % N) \in {used, used - N}
      BY <3>2, <3>3
    <3>5. W % N \in Nat /\ R % N \in Nat
      BY <2>1, DivMod
    <3>6. write_idx - read_idx \in {used, used - N} /\ write_idx \in Nat /\ read_idx \in Nat
      BY <2>2, <3>4, <3>5
    <3> HIDE DEF used, W, R, N
    <3>7. IF write_idx >= read_idx THEN write_idx - read_idx = used
                                   ELSE N - read_idx + write_idx = used
      BY <3>1, <3>6, <2>1
    <3> QED BY <3>7 DEF UsedBytes, N, used
  <2> QED BY <2>1, <2>3, <2>4, <2>5
<1>4. WriterInv'
  <2>1. WritePos' = WritePos /\ ReadPos' = ReadPos
    BY <1>2 DEF Ring, WritePos, ReadPos, End
  <2>2. \A i \in Int : \A n : Holds(i, Header(n))' = Holds(i, Header(n))
    BY <1>2 DEF Ring, Holds
  <2>3. \A i \in Int : \A n : Holds(i, Payload(n))' = Holds(i, Payload(n))
    BY <1>2 DEF Ring, Holds
  <2>4. ASSUME NEW v \in Writers
        PROVE  /\ wpc'[v] = IF v = w THEN "header" ELSE wpc[v]
               /\ wmsg'[v] = IF v = w THEN m ELSE wmsg[v]
               /\ wlocal'[v] = wlocal[v]
    BY DEF TryWrite, IInv, TypeOK
  <2> QED BY <1>2, <1>3, <2>1, <2>4 DEF WriterInv, IInv, Ring, Holds
<1> QED BY <1>1, <1>2, <1>4, SameRing, SameReader DEF IInv

\* the unread records survive any store into the room behind them
LEMMA RecordsSurvive ==
  ASSUME IInv, NEW p \in Int, NEW n \in 0 .. BufferSize, NEW bytes \in [0 .. n - 1 -> Cell],
         WritePos <= p, p + n <= ReadPos + BufferSize,
         data_region' = Stored(Wrap(p), bytes), UNCHANGED <<sent, delivered>>
  PROVE  RecordsIntact'
<1>1. \A q \in Int : q < p /\ p + n <= q + BufferSize => data_region'[Wrap(q)] = data_region[Wrap(q)]
  BY StoredBytes DEF IInv, TypeOK
<1>2. WritePos \in Nat /\ ReadPos \in Nat
  BY Positions DEF IInv
<1>3. ASSUME NEW q \in Int, ReadPos <= q, q < WritePos PROVE data_region'[Wrap(q)] = data_region[Wrap(q)]
  BY <1>1, <1>2, <1>3, SizesAssumption
<1> SUFFICES ASSUME NEW i \in Len(delivered) + 1 .. Len(sent)
             PROVE  /\ Holds(sent[i].at, Header(Size[sent[i].msg]))'
                    /\ Holds(sent[i].at + HeaderSize, Payload(sent[i].msg))'
  BY DEF RecordsIntact
<1> DEFINE m == sent[i].msg
           a == sent[i].at
<1>4. m \in Messages /\ a \in Nat /\ ReadPos <= a /\ a + HeaderSize + Size[m] <= WritePos
  <2>1. i \in 1 .. Len(sent) /\ i > Len(delivered)
    BY DEF IInv, TypeOK
  <2>2. /\ sent[i].msg \in Messages /\ sent[i].at \in Nat
        /\ End(sent[i]) <= WritePos /\ ReadPos <= sent[i].at
    BY <2>1, Positions DEF IInv
  <2> QED BY <2>2, SizesAssumption DEF End, Total
<1>5. Holds(a, Header(Size[m])) /\ Holds(a + HeaderSize, Payload(m))
  BY DEF IInv, RecordsIntact
<1>6. sent'[i].msg = m /\ sent'[i].at = a
  OBVIOUS
<1> HIDE DEF m, a
<1>7. ASSUME NEW k \in 0 .. HeaderSize - 1 PROVE data_region'[Wrap(a + k)] = Header(Size[m])[k]
  <2>1. a + k \in Int /\ ReadPos <= a + k /\ a + k < WritePos
    BY <1>2, <1>4, SizesAssumption
  <2>2. data_region[Wrap(a + k)] = Header(Size[m])[k]
    BY <1>4, <1>5, HeaderBytes, PayloadBytes DEF Holds
  <2> QED BY <1>3, <2>1, <2>2
<1>8. ASSUME NEW k \in 0 .. Size[m] - 1 PROVE data_region'[Wrap(a + HeaderSize + k)] = Payload(m)[k]
  <2>1. /\ a + HeaderSize + k \in Int
        /\ ReadPos <= a + HeaderSize + k /\ a + HeaderSize + k < WritePos
    BY <1>2, <1>4, SizesAssumption
  <2>2. data_region[Wrap(a + HeaderSize + k)] = Payload(m)[k]
    BY <1>4, <1>5, PayloadBytes DEF Holds
  <2> QED BY <1>3, <2>1, <2>2
<1>9. Holds(a, Header(Size[m]))'
  BY <1>4, <1>6, <1>7, HeaderBytes, PayloadBytes DEF Holds, a, m
<1>10. Holds(a + HeaderSize, Payload(m))'
  BY <1>4, <1>6, <1>8, PayloadBytes DEF Holds, a, m
<1> QED BY <1>6, <1>9, <1>10 DEF a, m

\* what a writer in the middle of try_write may rely on
LEMMA WriterRoom ==
  ASSUME IInv, NEW w \in Writers, wpc[w] \in Writing
  PROVE  /\ wmsg[w] \in Messages
         /\ Size[wmsg[w]] \in Nat \ {0}
         /\ WritePos \in Nat /\ ReadPos \in Nat /\ ReadPos <= WritePos
         /\ WritePos + HeaderSize + Size[wmsg[w]] <= ReadPos + BufferSize - 2
         /\ HeaderSize \in 0 .. BufferSize
         /\ Size[wmsg[w]] \in 0 .. BufferSize
<1>1. wmsg[w] \in Messages /\ WritePos + Total(wmsg[w]) <= ReadPos + BufferSize - 2
  BY DEF IInv, WriterInv
<1>2. Size[wmsg[w]] \in Nat \ {0}
  BY <1>1, SizesAssumption
<1>3. WritePos \in Nat /\ ReadPos \in Nat /\ ReadPos <= WritePos
  BY Positions DEF IInv
<1> QED BY <1>1, <1>2, <1>3, SizesAssumption DEF Total

LEMMA WriteHeaderInv ==
  ASSUME OneWriter, IInv, NEW w \in Writers, WriteHeader(w)
  PROVE  IInv'
<1> DEFINE m == wmsg[w]
           bytes == Header(Size[m])
<1>1. wpc[w] = "header" /\ wpc[w] \in Writing
  BY DEF WriteHeader, Writing
<1>2. /\ m \in Messages /\ Size[m] \in Nat \ {0}
      /\ WritePos \in Nat /\ ReadPos \in Nat /\ ReadPos <= WritePos
      /\ WritePos + HeaderSize + Size[m] <= ReadPos + BufferSize - 2
      /\ HeaderSize \in 0 .. BufferSize
  BY <1>1, WriterRoom
<1>3. bytes \in [0 .. HeaderSize - 1 -> Cell]
  BY <1>2, HeaderBytes
<1>4. data_region' = Stored(Wrap(WritePos), bytes)
  BY DEF WriteHeader, IInv, Window
<1>5. data_region' \in [Idx -> Cell] /\ \A k \in 0 .. HeaderSize - 1 : data_region'[Wrap(WritePos + k)] = bytes[k]
  <2>1. data_region \in [Idx -> Cell] /\ WritePos \in Int
    BY <1>2 DEF IInv, TypeOK
  <2> HIDE DEF bytes
  <2> QED BY <1>2, <1>3, <1>4, <2>1, StoredBytes
<1>6. UNCHANGED <<sent, delivered, write_idx, read_idx, rvars, mutex, wmsg>>
  BY DEF WriteHeader
<1>7. WritePos' = WritePos /\ ReadPos' = ReadPos
  BY <1>6 DEF WritePos, ReadPos, End
<1>8. wlocal'[w] = Wrap(WritePos + HeaderSize) /\ wpc'[w] = "payload"
  <2>1. Wrap(write_idx + HeaderSize) = Wrap(WritePos + HeaderSize)
    BY <1>2, WrapWrap DEF IInv, Window
  <2> QED BY <2>1 DEF WriteHeader, IInv, TypeOK
<1>9. TypeOK'
  <2>1. wlocal' \in [Writers -> Idx]
    <3>1. Wrap(write_idx + HeaderSize) \in Idx
      <4>1. write_idx + HeaderSize \in Int
        BY SizesAssumption DEF IInv, TypeOK, Idx
      <4> QED BY <4>1, WrapInIdx
    <3> QED BY <3>1 DEF WriteHeader, IInv, TypeOK
  <2>2. wpc' \in [Writers -> {"idle", "notify"} \cup Writing]
    BY DEF WriteHeader, IInv, TypeOK, Writing
  <2> QED BY <1>5, <1>6, <2>1, <2>2 DEF IInv, TypeOK, rvars
<1>10. Layout' /\ Window' /\ DeliveredInOrder'
  BY <1>6, <1>7 DEF IInv, Layout, Window, DeliveredInOrder, End
<1>11. RecordsIntact'
  <2>1. WritePos + HeaderSize <= ReadPos + BufferSize /\ WritePos \in Int
    BY <1>2, SizesAssumption
  <2> QED BY <1>2, <1>3, <1>4, <1>6, <2>1, RecordsSurvive
<1>12. WriterInv'
  <2>1. Holds(WritePos, Header(Size[wmsg[w]]))'
    BY <1>2, <1>5, <1>6, <1>7, HeaderBytes DEF Holds
  <2>2. (WritePos + Total(wmsg[w]) <= ReadPos + BufferSize - 2)'
    BY <1>2, <1>6, <1>7, SizesAssumption DEF Total
  <2>3. \A v \in Writers : v = w
    BY DEF OneWriter
  <2> QED BY <1>2, <1>6, <1>7, <1>8, <2>1, <2>2, <2>3 DEF WriterInv
<1>13. ReaderInv'
  BY <1>6, SameReader
<1> QED BY <1>9, <1>10, <1>11, <1>12, <1>13 DEF IInv

LEMMA WritePayloadInv ==
  ASSUME OneWriter, IInv, NEW w \in Writers, WritePayload(w)
  PROVE  IInv'
<1> DEFINE m == wmsg[w]
           p == WritePos + HeaderSize
           bytes == Payload(m)
<1>1. wpc[w] = "payload" /\ wpc[w] \in Writing
  BY DEF WritePayload, Writing
<1>2. /\ m \in Messages /\ Size[m] \in Nat \ {0}
      /\ WritePos \in Nat /\ ReadPos \in Nat /\ ReadPos <= WritePos
      /\ WritePos + HeaderSize + Size[m] <= ReadPos + BufferSize - 2
      /\ HeaderSize \in 0 .. BufferSize /\ Size[m] \in 0 .. BufferSize
  BY <1>1, WriterRoom
<1>3. bytes \in [0 .. Size[m] - 1 -> Cell]
  BY <1>2, PayloadBytes
<1>4. p \in Int /\ data_region' = Stored(Wrap(p), bytes)
  BY <1>1, <1>2 DEF WritePayload, IInv, WriterInv
<1>5. /\ data_region' \in [Idx -> Cell]
      /\ \A k \in 0 .. Size[m] - 1 : data_region'[Wrap(p + k)] = bytes[k]
      /\ \A q \in Int : q < p /\ p + Size[m] <= q + BufferSize =>
           data_region'[Wrap(q)] = data_region[Wrap(q)]
  BY <1>2, <1>3, <1>4, StoredBytes DEF IInv, TypeOK
<1>6. UNCHANGED <<sent, delivered, write_idx, read_idx, rvars, mutex, wmsg, wlocal>>
  BY DEF WritePayload
<1>7. WritePos' = WritePos /\ ReadPos' = ReadPos
  BY <1>6 DEF WritePos, ReadPos, End
<1>8. wpc'[w] = "publish"
  BY DEF WritePayload, IInv, TypeOK
<1>9. TypeOK'
  <2>1. wpc' \in [Writers -> {"idle", "notify"} \cup Writing]
    BY DEF WritePayload, IInv, TypeOK, Writing
  <2> QED BY <1>5, <1>6, <2>1 DEF IInv, TypeOK, rvars
<1>10. Layout' /\ Window' /\ DeliveredInOrder'
  BY <1>6, <1>7 DEF IInv, Layout, Window, DeliveredInOrder, End
<1>11. RecordsIntact'
  <2>1. WritePos <= p /\ p + Size[m] <= ReadPos + BufferSize
    BY <1>2, SizesAssumption
  <2> QED BY <1>2, <1>3, <1>4, <1>6, <2>1, RecordsSurvive
<1>12. WriterInv'
  <2>1. Holds(WritePos + HeaderSize, Payload(wmsg[w]))'
    BY <1>2, <1>5, <1>6, <1>7, PayloadBytes DEF Holds
  <2>2. Holds(WritePos, Header(Size[wmsg[w]]))'
    <3>1. ASSUME NEW k \in 0 .. HeaderSize - 1
          PROVE  data_region'[Wrap(WritePos + k)] = Header(Size[m])[k]
      <4>1. data_region[Wrap(WritePos + k)] = Header(Size[m])[k]
        BY <1>1, <1>2, HeaderBytes DEF IInv, WriterInv, Holds
      <4>2. WritePos + k \in Int /\ WritePos + k < p /\ p + Size[m] <= WritePos + k + BufferSize
        BY <1>2, SizesAssumption
      <4> QED BY <1>5, <4>1, <4>2
    <3> QED BY <1>2, <1>6, <1>7, <3>1, HeaderBytes DEF Holds
  <2>3. (WritePos + Total(wmsg[w]) <= ReadPos + BufferSize - 2)'
    BY <1>2, <1>6, <1>7, SizesAssumption DEF Total
  <2>4. wlocal'[w] = Wrap(p)
    BY <1>1, <1>6 DEF IInv, WriterInv
  <2>5. \A v \in Writers : v = w
    BY DEF OneWriter
  <2> QED BY <1>2, <1>6, <1>7, <1>8, <2>1, <2>2, <2>3, <2>4, <2>5 DEF WriterInv
<1>13. ReaderInv'
  BY <1>6, SameReader
<1> QED BY <1>9, <1>10, <1>11, <1>12, <1>13 DEF IInv

LEMMA PublishInv ==
  ASSUME OneWriter, IInv, NEW w \in Writers, Publish(w)
  PROVE  IInv'
<1> DEFINE m == wmsg[w]
           n == Len(sent)
           d == Len(delivered)
           rec == [msg |-> m, at |-> WritePos]
<1>1. wpc[w] = "publish" /\ wpc[w] \in Writing
  BY DEF Publish, Writing
<1>2. /\ m \in Messages /\ Size[m] \in Nat \ {0}
      /\ WritePos \in Nat /\ ReadPos \in Nat /\ ReadPos <= WritePos
      /\ WritePos + HeaderSize + Size[m] <= ReadPos + BufferSize - 2
  BY <1>1, WriterRoom
<1>3. /\ Holds(WritePos, Header(Size[m])) /\ Holds(WritePos + HeaderSize, Payload(m))
      /\ wlocal[w] = Wrap(WritePos + HeaderSize)
  BY <1>1 DEF IInv, WriterInv
<1>4. UNCHANGED <<data_region, read_idx, mutex, wmsg, wlocal, rvars, delivered>>
  BY DEF Publish
<1>5. /\ n \in Nat /\ d \in Nat /\ d <= n
      /\ sent \in Seq([msg : Messages, at : Nat])
  BY DEF IInv, TypeOK, Layout
<1>6. /\ sent' \in Seq([msg : Messages, at : Nat])
      /\ Len(sent') = n + 1
      /\ sent'[n + 1] = rec
      /\ \A i \in 1 .. n : sent'[i] = sent[i]
  <2> DEFINE Record == [msg : Messages, at : Nat]
  <2>1. sent' = Append(sent, rec)
    BY DEF Publish
  <2>2. rec \in Record /\ sent \in Seq(Record)
    BY <1>2, <1>5
  <2> HIDE DEF rec, Record
  <2>3. /\ sent' \in Seq(Record) /\ Len(sent') = n + 1 /\ sent'[n + 1] = rec
        /\ \A i \in 1 .. n : sent'[i] = sent[i]
    BY <2>1, <2>2
  <2> QED BY <2>3 DEF Record
<1>7. /\ rec.msg = m /\ rec.at = WritePos
      /\ End(rec) = WritePos + HeaderSize + Size[m]
  BY <1>2, SizesAssumption DEF End, Total
<1> HIDE DEF rec
<1>8. WritePos' = WritePos + HeaderSize + Size[m]
  <2>1. sent' # <<>>
    BY <1>5, <1>6
  <2> QED BY <1>5, <1>6, <1>7, <2>1 DEF WritePos, End, Total
<1>9. ReadPos' = ReadPos
  <2>1. CASE delivered = <<>>
    BY <2>1, <1>4 DEF ReadPos
  <2>2. CASE delivered # <<>>
    <3>1. d \in 1 .. n
      BY <2>2, <1>5 DEF IInv, TypeOK
    <3> QED BY <2>2, <3>1, <1>4, <1>6 DEF ReadPos, End
  <2> QED BY <2>1, <2>2
<1>10. write_idx' = Wrap(WritePos + HeaderSize + Size[m])
  <2>1. WritePos + HeaderSize \in Int /\ Size[m] \in Int
    BY <1>2, SizesAssumption
  <2> QED BY <1>3, <2>1, WrapWrap DEF Publish
<1>11. TypeOK'
  <2>1. write_idx' \in Idx
    <3>1. WritePos + HeaderSize + Size[m] \in Int
      BY <1>2, SizesAssumption
    <3> QED BY <1>10, <3>1, WrapInIdx
  <2>2. wpc' \in [Writers -> {"idle", "notify"} \cup Writing]
    BY DEF Publish, IInv, TypeOK
  <2> QED BY <1>4, <1>6, <2>1, <2>2 DEF IInv, TypeOK, rvars
<1>12. Layout'
  <2>1. \A i \in 1 .. n : End(sent'[i]) = End(sent[i]) /\ sent'[i].at = sent[i].at
    BY <1>6
  <2>2. \A i \in 1 .. n : End(sent[i]) <= WritePos
    BY Positions DEF IInv
  <2>3. n > 0 => End(sent[n]) = WritePos
    BY <1>5 DEF WritePos
  <2>4. n = 0 => WritePos = 0
    BY <1>5 DEF WritePos
  <2>5. sent'[n + 1].at = WritePos
    BY <1>6, <1>7
  <2>6. Len(delivered') <= Len(sent')
    BY <1>4, <1>5, <1>6
  <2>7. \A i \in 1 .. n + 1 : i = 1 => sent'[i].at = 0
    BY <1>5, <2>1, <2>4, <2>5 DEF IInv, Layout
  <2>8. ASSUME NEW i \in 1 .. n + 1, NEW j \in 1 .. n + 1, j = i + 1
        PROVE  sent'[j].at = End(sent'[i])
    <3>1. i \in 1 .. n
      BY <2>8, <1>5
    <3>2. CASE j = n + 1
      BY <3>1, <3>2, <2>8, <1>5, <2>1, <2>3, <2>5
    <3>3. CASE j # n + 1
      <4>1. j \in 1 .. n
        BY <3>3, <2>8, <1>5
      <4> QED BY <4>1, <3>1, <2>1, <2>8 DEF IInv, Layout
    <3> QED BY <3>2, <3>3
  <2>9. ASSUME NEW i \in 1 .. n + 1, NEW j \in 1 .. n + 1, i < j
        PROVE  End(sent'[i]) <= sent'[j].at
    <3>1. i \in 1 .. n
      BY <2>9, <1>5
    <3>2. CASE j = n + 1
      BY <3>1, <3>2, <2>1, <2>2, <2>5
    <3>3. CASE j # n + 1
      <4>1. j \in 1 .. n
        BY <3>3, <2>9, <1>5
      <4> QED BY <4>1, <3>1, <2>1, <2>9 DEF IInv, Layout
    <3> QED BY <3>2, <3>3
  <2> QED BY <1>6, <2>6, <2>7, <2>8, <2>9 DEF Layout, End
<1>13. Window'
  <2>1. read_idx' = Wrap(ReadPos)
    BY <1>4 DEF IInv, Window
  <2> QED BY <1>2, <1>8, <1>9, <1>10, <2>1, SizesAssumption DEF Window
<1>14. RecordsIntact'
  <2> SUFFICES ASSUME NEW i \in d + 1 .. n + 1
               PROVE  /\ Holds(sent[i].at, Header(Size[sent[i].msg]))'
                      /\ Holds(sent[i].at + HeaderSize, Payload(sent[i].msg))'
    BY <1>4, <1>6 DEF RecordsIntact
  <2>1. CASE i = n + 1
    BY <2>1, <1>3, <1>4, <1>6, <1>7 DEF Holds
  <2>2. CASE i # n + 1
    <3>1. i \in 1 .. n /\ i \in d + 1 .. n
      BY <2>2, <1>5
    <3>2. sent'[i] = sent[i]
      BY <3>1, <1>6
    <3>3. Holds(sent[i].at, Header(Size[sent[i].msg])) /\ Holds(sent[i].at + HeaderSize, Payload(sent[i].msg))
      BY <3>1 DEF IInv, RecordsIntact
    <3> QED BY <1>4, <3>2, <3>3 DEF Holds
  <2> QED BY <2>1, <2>2
<1>15. WriterInv'
  <2>1. wpc'[w] = "notify"
    BY DEF Publish, IInv, TypeOK
  <2>2. \A v \in Writers : v = w
    BY DEF OneWriter
  <2> QED BY <2>1, <2>2 DEF WriterInv, Writing
<1>16. ReaderInv'
  <2>1. d < n => d + 1 \in 1 .. n /\ sent'[d + 1] = sent[d + 1]
    BY <1>5, <1>6
  <2> QED BY <1>4, <1>5, <1>6, <1>9, <2>1 DEF IInv, ReaderInv, rvars
<1>17. DeliveredInOrder'
  <2>1. ASSUME NEW i \in 1 .. d PROVE delivered[i] = sent'[i].msg
    <3>1. i \in 1 .. n
      BY <1>5
    <3> QED BY <3>1, <1>6 DEF IInv, DeliveredInOrder
  <2>2. delivered' = delivered /\ Len(delivered') <= Len(sent')
    BY <1>4, <1>5, <1>6
  <2> QED BY <2>1, <2>2 DEF DeliveredInOrder
<1> QED BY <1>11, <1>12, <1>13, <1>14, <1>15, <1>16, <1>17 DEF IInv

LEMMA NotifyInv ==
  ASSUME OneWriter, IInv, NEW w \in Writers, Notify(w)
  PROVE  IInv'
<1>1. TypeOK'
  BY DEF IInv, TypeOK, Notify, Writing
<1>2. UNCHANGED Ring
  BY DEF Notify, Ring
<1>3. WriterInv'
  <2>1. wpc'[w] = "idle"
    BY DEF Notify, IInv, TypeOK
  <2>2. \A v \in Writers : v = w
    BY DEF OneWriter
  <2> QED BY <2>1, <2>2 DEF WriterInv, Writing
<1>4. ReaderInv'
  BY DEF IInv, ReaderInv, Notify, ReadPos, End
<1> QED BY <1>1, <1>2, <1>3, <1>4, SameRing DEF IInv

\* calling, waiting and giving up touch neither the ring nor a record
LEMMA ReaderWaitsInv ==
  ASSUME IInv, CallRead \/ Lock \/ FoundData \/ Wait \/ Expire \/ GiveUp
  PROVE  IInv'
<1> USE DEF CallRead, Lock, FoundData, Wait, Expire, GiveUp
<1>1. TypeOK'
  BY DEF IInv, TypeOK, wvars, rvars
<1>2. UNCHANGED <<Ring, wvars>>
  BY DEF Ring
<1>3. ReaderInv'
  BY DEF IInv, ReaderInv, ReadPos, End
<1> QED BY <1>1, <1>2, <1>3, ReaderLocal

LEMMA LoadIndicesInv ==
  ASSUME IInv, LoadIndices
  PROVE  IInv'
<1>1. TypeOK'
  BY DEF IInv, TypeOK, LoadIndices, ReadsNothing, wvars, rvars
<1>2. UNCHANGED <<Ring, wvars>>
  BY DEF LoadIndices, ReadsNothing, Ring
<1>3. ReadPos' = ReadPos
  BY <1>2 DEF Ring, ReadPos, End
<1>4. rpc' = "header" => Len(delivered) < Len(sent) /\ rlocal' = Wrap(ReadPos)
  <2>1. SUFFICES ASSUME rpc' = "header" PROVE Len(delivered) < Len(sent) /\ rlocal' = Wrap(ReadPos)
    OBVIOUS
  <2>2. ~IsEmpty /\ rlocal' = read_idx
    BY <2>1 DEF LoadIndices, ReadsNothing
  <2>3. WritePos # ReadPos /\ read_idx = Wrap(ReadPos)
    BY <2>2 DEF IInv, Window, IsEmpty
  <2>4. Len(delivered) # Len(sent)
    BY <2>3, Positions DEF IInv
  <2> QED BY <2>2, <2>3, <2>4 DEF IInv, TypeOK, Layout
<1>5. rpc' \in {"lock", "idle", "header"}
  BY DEF LoadIndices, ReadsNothing
<1>6. ReaderInv'
  BY <1>2, <1>3, <1>4, <1>5 DEF ReaderInv, Ring
<1> QED BY <1>1, <1>2, <1>6, ReaderLocal

LEMMA ReadHeaderInv ==
  ASSUME IInv, ReadHeader
  PROVE  IInv'
<1> DEFINE r == sent[Len(delivered) + 1]
<1>1. Len(delivered) < Len(sent) /\ rlocal = Wrap(ReadPos)
  BY DEF ReadHeader, IInv, ReaderInv
<1>2. /\ r.msg \in Messages /\ Size[r.msg] \in Nat \ {0} /\ r.at = ReadPos /\ ReadPos \in Nat
      /\ Holds(ReadPos, Header(Size[r.msg]))
  <2>1. /\ Len(delivered) + 1 \in 1 .. Len(sent)
        /\ Len(delivered) + 1 \in Len(delivered) + 1 .. Len(sent)
    BY <1>1 DEF IInv, TypeOK
  <2>2. r.msg \in Messages /\ r.at = ReadPos /\ ReadPos \in Nat
    BY <1>1, <2>1, Positions DEF IInv
  <2>3. Holds(r.at, Header(Size[r.msg]))
    BY <2>1 DEF IInv, RecordsIntact
  <2> QED BY <2>2, <2>3, SizesAssumption
<1>3. Decoded(rlocal) = {Size[r.msg]}
  <2>1. Holds(rlocal, Header(Size[r.msg]))
    <3>1. ASSUME NEW k \in 0 .. HeaderSize - 1 PROVE Wrap(Wrap(ReadPos) + k) = Wrap(ReadPos + k)
      BY <1>2, WrapWrap
    <3> QED BY <1>1, <1>2, <3>1, HeaderBytes DEF Holds
  <2>2. rlocal \in Int
    BY SizesAssumption DEF IInv, TypeOK, Idx
  <2> QED BY <1>2, <2>1, <2>2, DecodedHeader
<1> HIDE DEF r
<1>4. TypeOK'
  <2>1. Wrap(rlocal + HeaderSize) \in Idx
    <3>1. rlocal + HeaderSize \in Int
      BY SizesAssumption DEF IInv, TypeOK, Idx
    <3> QED BY <3>1, WrapInIdx
  <2>2. Decoded(rlocal) \subseteq Nat
    BY <1>2, <1>3
  <2>3. rlocal' \in Idx /\ rsize' \in Nat
    BY <2>1, <2>2 DEF ReadHeader, ReadsNothing, IInv, TypeOK
  <2> QED BY <2>3 DEF ReadHeader, ReadsNothing, IInv, TypeOK, wvars
<1>5. UNCHANGED <<Ring, wvars>>
  BY DEF ReadHeader, ReadsNothing, Ring
<1>6. ReadPos' = ReadPos
  BY <1>5 DEF Ring, ReadPos, End
<1>7. /\ rpc' \in {"lock", "idle", "payload"}
      /\ rpc' = "payload" => rsize' = Size[r.msg] /\ rlocal' = Wrap(ReadPos + HeaderSize)
  <2>1. Wrap(rlocal + HeaderSize) = Wrap(ReadPos + HeaderSize)
    BY <1>1, <1>2, WrapWrap, SizesAssumption
  <2> QED BY <1>3, <2>1 DEF ReadHeader, ReadsNothing
<1>8. ReaderInv'
  BY <1>1, <1>5, <1>6, <1>7 DEF ReaderInv, Ring, r
<1> QED BY <1>4, <1>5, <1>8, ReaderLocal

LEMMA ReadPayloadInv ==
  ASSUME IInv, ReadPayload
  PROVE  IInv'
<1> DEFINE r == sent[Len(delivered) + 1]
<1>1. /\ Len(delivered) < Len(sent)
      /\ rlocal = Wrap(ReadPos + HeaderSize) /\ rsize = Size[r.msg]
  BY DEF ReadPayload, IInv, ReaderInv
<1>2. /\ r.msg \in Messages /\ ReadPos \in Nat
      /\ Holds(ReadPos + HeaderSize, Payload(r.msg))
  <2>1. /\ Len(delivered) + 1 \in 1 .. Len(sent)
        /\ Len(delivered) + 1 \in Len(delivered) + 1 .. Len(sent)
    BY <1>1 DEF IInv, TypeOK
  <2>2. r.msg \in Messages /\ r.at = ReadPos /\ ReadPos \in Nat
    BY <1>1, <2>1, Positions DEF IInv
  <2>3. Holds(r.at + HeaderSize, Payload(r.msg))
    BY <2>1 DEF IInv, RecordsIntact
  <2> QED BY <2>2, <2>3
<1>3. Copied(rlocal, rsize) = r.msg
  <2>1. Holds(rlocal, Payload(r.msg))
    <3>1. ASSUME NEW k \in 0 .. Size[r.msg] - 1
          PROVE  Wrap(Wrap(ReadPos + HeaderSize) + k) = Wrap(ReadPos + HeaderSize + k)
      <4>1. ReadPos + HeaderSize \in Int /\ k \in Int
        BY <1>2, SizesAssumption
      <4> QED BY <4>1, WrapWrap
    <3> QED BY <1>1, <1>2, <3>1, PayloadBytes DEF Holds
  <2>2. rlocal \in Int
    BY SizesAssumption DEF IInv, TypeOK, Idx
  <2> QED BY <1>1, <1>2, <2>1, <2>2, CopiedPayload
<1> HIDE DEF r
<1>4. TypeOK'
  BY <1>2, <1>3 DEF ReadPayload, IInv, TypeOK, wvars
<1>5. UNCHANGED <<Ring, wvars>>
  BY DEF ReadPayload, Ring
<1>6. ReadPos' = ReadPos
  BY <1>5 DEF Ring, ReadPos, End
<1>7. rpc' = "advance" /\ rdata' = r.msg /\ rlocal' = rlocal /\ rsize' = rsize
  BY <1>3 DEF ReadPayload
<1>8. ReaderInv'
  BY <1>1, <1>5, <1>6, <1>7 DEF ReaderInv, Ring, r
<1> QED BY <1>4, <1>5, <1>8, ReaderLocal

LEMMA AdvanceInv ==
  ASSUME IInv, Advance
  PROVE  IInv'
<1> DEFINE d == Len(delivered)
           n == Len(sent)
           r == sent[d + 1]
<1>1. /\ d < n /\ rlocal = Wrap(ReadPos + HeaderSize)
      /\ rsize = Size[r.msg] /\ rdata = r.msg
  BY DEF Advance, IInv, ReaderInv
<1>2. d \in Nat /\ n \in Nat /\ d + 1 \in 1 .. n
  BY <1>1 DEF IInv, TypeOK
<1>3. /\ r.msg \in Messages /\ Size[r.msg] \in Nat \ {0}
      /\ r.at = ReadPos /\ ReadPos \in Nat /\ WritePos \in Nat
      /\ End(r) = ReadPos + HeaderSize + Size[r.msg] /\ End(r) <= WritePos
  <2>1. /\ r.msg \in Messages /\ r.at = ReadPos /\ ReadPos \in Nat /\ WritePos \in Nat
        /\ End(r) <= WritePos
    BY <1>1, <1>2, Positions DEF IInv
  <2>2. Size[r.msg] \in Nat \ {0}
    BY <2>1, SizesAssumption
  <2> QED BY <2>1, <2>2, SizesAssumption DEF End, Total
<1>4. UNCHANGED <<data_region, write_idx, mutex, wvars, attempt, rlocal, rsize, rdata, sent>>
  BY DEF Advance
<1>5. /\ delivered' = Append(delivered, r.msg)
      /\ rpc' = "idle"
      /\ read_idx' = Wrap(rlocal + rsize)
  BY <1>1, <1>3 DEF Advance
<1> HIDE DEF r
<1>6. /\ Len(delivered') = d + 1
      /\ delivered' \in Seq(Messages \cup {Torn})
      /\ delivered'[d + 1] = r.msg
      /\ \A i \in 1 .. d : delivered'[i] = delivered[i]
  BY <1>2, <1>3, <1>5 DEF IInv, TypeOK
<1>7. WritePos' = WritePos
  BY <1>4 DEF WritePos, End
<1>8. ReadPos' = End(r)
  <2>1. delivered' # <<>>
    BY <1>2, <1>6
  <2> QED BY <1>4, <1>6, <2>1 DEF ReadPos, End, r
<1>9. read_idx' = Wrap(End(r))
  <2>1. ReadPos + HeaderSize \in Int /\ Size[r.msg] \in Int
    BY <1>3, SizesAssumption
  <2>2. rsize = Size[r.msg]
    BY <1>1 DEF r
  <2> QED BY <1>1, <1>3, <1>5, <2>1, <2>2, WrapWrap
<1>10. TypeOK'
  <2>1. read_idx' \in Idx
    <3>1. End(r) \in Int
      BY <1>3, SizesAssumption
    <3> QED BY <1>9, <3>1, WrapInIdx
  <2> QED BY <1>4, <1>5, <1>6, <2>1 DEF IInv, TypeOK, wvars
<1>11. Layout'
  BY <1>2, <1>4, <1>6 DEF IInv, Layout, End
<1>12. Window'
  <2>1. write_idx = Wrap(WritePos) /\ WritePos - ReadPos <= BufferSize - 2
    BY DEF IInv, Window
  <2>2. WritePos - End(r) <= BufferSize - 2
    BY <1>3, <2>1, SizesAssumption
  <2> QED BY <1>4, <1>7, <1>8, <1>9, <2>1, <2>2 DEF Window
<1>13. RecordsIntact'
  <2>1. \A i \in d + 2 .. n : i \in d + 1 .. n
    BY <1>2
  <2> QED BY <1>2, <1>4, <1>6, <2>1 DEF IInv, RecordsIntact, Holds
<1>14. WriterInv'
  <2> SUFFICES ASSUME NEW w \in Writers
               PROVE  /\ wpc[w] \in Writing =>
                           /\ wmsg[w] \in Messages
                           /\ WritePos + Total(wmsg[w]) <= End(r) + BufferSize - 2
                      /\ wpc[w] \in {"payload", "publish"} =>
                           /\ wlocal[w] = Wrap(WritePos + HeaderSize)
                           /\ Holds(WritePos, Header(Size[wmsg[w]]))
                      /\ wpc[w] = "publish" => Holds(WritePos + HeaderSize, Payload(wmsg[w]))
    BY <1>4, <1>7, <1>8 DEF WriterInv, Holds, wvars
  <2>1. wpc[w] \in Writing => WritePos + Total(wmsg[w]) <= End(r) + BufferSize - 2
    <3>1. SUFFICES ASSUME wpc[w] \in Writing
                   PROVE  WritePos + Total(wmsg[w]) <= End(r) + BufferSize - 2
      OBVIOUS
    <3>2. WritePos + Total(wmsg[w]) <= ReadPos + BufferSize - 2 /\ Total(wmsg[w]) \in Nat
      BY <3>1, SizesAssumption DEF IInv, WriterInv, Total
    <3> QED BY <3>2, <1>3, SizesAssumption
  <2> QED BY <2>1 DEF IInv, WriterInv
<1>15. ReaderInv'
  BY <1>5 DEF ReaderInv
<1>16. DeliveredInOrder'
  <2>1. \A i \in 1 .. d + 1 : i = d + 1 \/ i \in 1 .. d
    BY <1>2
  <2> QED BY <1>2, <1>4, <1>6, <2>1 DEF IInv, DeliveredInOrder, r
<1> QED BY <1>10, <1>11, <1>12, <1>13, <1>14, <1>15, <1>16 DEF IInv

LEMMA NextInv == OneWriter /\ IInv /\ [RingNext]_ring_vars => IInv'
<1> SUFFICES ASSUME OneWriter, IInv, [RingNext]_ring_vars PROVE IInv'
  OBVIOUS
<1>1. CASE UNCHANGED ring_vars
  <2>1. UNCHANGED <<Ring, wvars>> /\ UNCHANGED <<rvars, sent, delivered>>
    BY <1>1 DEF ring_vars, Ring
  <2>2. TypeOK'
    BY <1>1 DEF IInv, TypeOK, ring_vars, wvars, rvars
  <2> QED BY <2>1, <2>2, SameReader, ReaderLocal
<1>2. CASE \E w \in Writers : WriterStep(w)
  BY <1>2, TryWriteInv, WriteHeaderInv, WritePayloadInv, PublishInv, NotifyInv DEF WriterStep
<1>3. CASE ReaderStep
  BY <1>3, ReaderWaitsInv, LoadIndicesInv, ReadHeaderInv, ReadPayloadInv, AdvanceInv DEF ReaderStep
<1> QED BY <1>1, <1>2, <1>3 DEF RingNext

-----------------------------------------------------------------------------
(* The invariant of the ring with one writer: the strengthening above holds *)
(* in every state, for every buffer, message set and number of writes.      *)
THEOREM RingInvariant == ASSUME OneWriter PROVE RingSpec => []IInv
BY InitInv, NextInv, PTL DEF RingSpec

(* With one writer every variable keeps its type: no index leaves the ring  *)
(* and no cell holds anything but a byte of a length or of a message.       *)
THEOREM RingTypeOK == ASSUME OneWriter PROVE RingSpec => []TypeOK
<1>1. IInv => TypeOK
  BY DEF IInv
<1> QED BY <1>1, RingInvariant, PTL

(* try_write never touches a record that try_read has not consumed.         *)
THEOREM UnreadRecordsIntact == ASSUME OneWriter PROVE RingSpec => []RecordsIntact
<1>1. IInv => RecordsIntact
  BY DEF IInv
<1> QED BY <1>1, RingInvariant, PTL

(* What the reads return is what the writes published, in order and whole.  *)
THEOREM ReadsAreWrites == ASSUME OneWriter PROVE RingSpec => []DeliveredInOrder
<1>1. IInv => DeliveredInOrder
  BY DEF IInv
<1> QED BY <1>1, RingInvariant, PTL

(* One byte kept free is enough to tell an empty ring from a full one.      *)
THEOREM IndicesMeetWhenDrained == ASSUME OneWriter PROVE RingSpec => []EmptyMeansDrained
<1>1. ASSUME IInv PROVE EmptyMeansDrained
  <2>1. /\ WritePos \in Nat /\ ReadPos \in Nat /\ ReadPos <= WritePos
        /\ Len(delivered) = Len(sent) <=> ReadPos = WritePos
    BY <1>1, Positions DEF IInv
  <2>2. /\ write_idx = Wrap(WritePos) /\ read_idx = Wrap(ReadPos)
        /\ WritePos - ReadPos <= BufferSize - 2
    BY <1>1 DEF IInv, Window
  <2>3. Wrap(ReadPos) = Wrap(WritePos) => ReadPos = WritePos
    <3>1. /\ WritePos \in Int /\ ReadPos \in Int /\ WritePos < ReadPos + BufferSize
          /\ BufferSize \in Nat \ {0}
      BY <2>1, <2>2, SizesAssumption
    <3> QED BY ONLY <2>1, <3>1, ModInj DEF Wrap
  <2> QED BY <2>1, <2>2, <2>3 DEF EmptyMeansDrained, IsEmpty
<1> QED BY <1>1, RingInvariant, PTL

-----------------------------------------------------------------------------
(* The wakeup is never lost whoever writes: the test of the indices under   *)
(* the mutex and the sleep are one step, a later store of write_idx leaves  *)
(* its writer with a notification to give, and that notification finds the  *)
(* reader asleep.  This needs no bound on the number of writers.            *)
WakeupInv == wpc \in [Writers -> {"idle", "notify"} \cup Writing] /\ NoLostWakeup

LEMMA InitWakeup == RingInit => WakeupInv
BY DEF RingInit, WakeupInv, NoLostWakeup, Writing

LEMMA WriterWakeup ==
  ASSUME WakeupInv, NEW w \in Writers, WriterStep(w)
  PROVE  WakeupInv'
<1>1. CASE Publish(w)
  \* the writer has a notification to give now
  <2>1. wpc'[w] = "notify"
    BY <1>1 DEF Publish, WakeupInv
  <2> QED BY <1>1, <2>1 DEF Publish, WakeupInv, NoLostWakeup
<1>2. CASE Notify(w)
  \* nobody sleeps after a notification
  <2>1. rpc' # "waiting"
    BY <1>2 DEF Notify
  <2> QED BY <1>2, <2>1 DEF Notify, WakeupInv, NoLostWakeup
<1>3. CASE (\E m \in Messages : TryWrite(w, m)) \/ WriteHeader(w) \/ WritePayload(w)
  \* the writer had none to give, and the ring and the others stay as they are
  <2>1. PICK s \in Writing : wpc[w] # "notify" /\ wpc' = [wpc EXCEPT ![w] = s]
    BY <1>3 DEF TryWrite, WriteHeader, WritePayload, Writing
  <2>2. UNCHANGED <<write_idx, read_idx, rpc>>
    BY <1>3 DEF TryWrite, WriteHeader, WritePayload, rvars
  <2> QED BY <2>1, <2>2 DEF WakeupInv, NoLostWakeup, IsEmpty
<1> QED BY <1>1, <1>2, <1>3 DEF WriterStep

LEMMA ReaderWakeup ==
  ASSUME WakeupInv, ReaderStep
  PROVE  WakeupInv'
<1>1. wpc' = wpc
  BY DEF ReaderStep, CallRead, LoadIndices, ReadHeader, ReadsNothing, ReadPayload, Advance,
         Lock, FoundData, Wait, Expire, GiveUp, wvars
<1>2. CASE Wait
  \* the reader falls asleep on an empty ring
  <2>1. IsEmpty'
    BY <1>2 DEF Wait, IsEmpty
  <2> QED BY <1>1, <2>1 DEF WakeupInv, NoLostWakeup
<1>3. CASE ~Wait
  <2>1. rpc' # "waiting"
    BY <1>3 DEF ReaderStep, CallRead, LoadIndices, ReadHeader, ReadsNothing, ReadPayload,
                Advance, Lock, FoundData, Expire, GiveUp
  <2> QED BY <1>1, <2>1 DEF WakeupInv, NoLostWakeup
<1> QED BY <1>2, <1>3

(* read_with_timeout sleeps on a ring with a record in it only as long as   *)
(* some try_write has still to call notify_one, for any number of writers,  *)
(* the connecting clients of an accept ring included.                       *)
THEOREM NoWakeupIsLost == RingSpec => []NoLostWakeup
<1>1. WakeupInv /\ [RingNext]_ring_vars => WakeupInv'
  <2>1. CASE UNCHANGED ring_vars
    BY <2>1 DEF ring_vars, wvars, rvars, WakeupInv, NoLostWakeup, IsEmpty
  <2> QED BY <2>1, WriterWakeup, ReaderWakeup DEF RingNext
<1>2. WakeupInv => NoLostWakeup
  BY DEF WakeupInv
<1> QED BY <1>1, <1>2, InitWakeup, PTL DEF RingSpec

-----------------------------------------------------------------------------
(* Refinement: the store of write_idx is the channel's Send, the store of   *)
(* read_idx its Receive, and every other step leaves the channel alone.     *)

Queue == [i \in 1 .. Len(sent) - Len(delivered) |-> sent[Len(delivered) + i].msg]

LEMMA QueueIsSeq ==
  ASSUME IInv
  PROVE  Queue \in Seq(Messages) /\ Len(Queue) = Len(sent) - Len(delivered)
<1>1. Len(sent) \in Nat /\ Len(delivered) \in Nat /\ Len(delivered) <= Len(sent)
  BY DEF IInv, TypeOK, Layout
<1>2. ASSUME NEW i \in 1 .. Len(sent) - Len(delivered)
      PROVE  sent[Len(delivered) + i].msg \in Messages
  <2>1. Len(delivered) + i \in 1 .. Len(sent)
    BY <1>1
  <2> QED BY <2>1, Positions DEF IInv
<1>3. Len(sent) - Len(delivered) \in Nat
  BY <1>1
<1> QED BY <1>2, <1>3 DEF Queue

LEMMA PublishSends ==
  ASSUME OneWriter, IInv, NEW w \in Writers, Publish(w)
  PROVE  Fifo!Send(wmsg[w])
<1> DEFINE n == Len(sent)
           d == Len(delivered)
           rec == [msg |-> wmsg[w], at |-> WritePos]
<1>1. wmsg[w] \in Messages /\ WritePos \in Nat
  <2>1. wpc[w] \in Writing
    BY DEF Publish, Writing
  <2> QED BY <2>1, WriterRoom
<1>2. n \in Nat /\ d \in Nat /\ d <= n
  BY DEF IInv, TypeOK, Layout
<1>3. sent' = Append(sent, rec) /\ delivered' = delivered
  BY DEF Publish
<1>4. Len(sent') = n + 1 /\ sent'[n + 1] = rec /\ \A i \in 1 .. n : sent'[i] = sent[i]
  <2> DEFINE Record == [msg : Messages, at : Nat]
  <2>1. rec \in Record /\ sent \in Seq(Record)
    BY <1>1 DEF IInv, TypeOK
  <2> HIDE DEF rec, Record
  <2> QED BY <1>3, <2>1
<1>5. rec.msg = wmsg[w]
  OBVIOUS
<1> HIDE DEF rec
<1>6. Queue' = Append(Queue, wmsg[w])
  <2>1. Queue' = [i \in 1 .. n + 1 - d |-> sent'[d + i].msg]
    BY <1>3, <1>4 DEF Queue
  <2>2. Append(Queue, wmsg[w]) = [i \in 1 .. Len(Queue) + 1 |-> IF i <= Len(Queue) THEN Queue[i] ELSE wmsg[w]]
    BY QueueIsSeq, <1>1
  <2>3. Len(Queue) = n - d
    BY QueueIsSeq
  <2>4. ASSUME NEW i \in 1 .. n + 1 - d
        PROVE  sent'[d + i].msg = IF i <= n - d THEN Queue[i] ELSE wmsg[w]
    <3>1. CASE i <= n - d
      <4>1. d + i \in 1 .. n /\ i \in 1 .. n - d
        BY <3>1, <1>2
      <4> QED BY <4>1, <3>1, <1>4 DEF Queue
    <3>2. CASE ~(i <= n - d)
      <4>1. d + i = n + 1
        BY <3>2, <1>2
      <4> QED BY <4>1, <3>2, <1>4, <1>5
    <3> QED BY <3>1, <3>2
  <2>5. n + 1 - d = (n - d) + 1
    BY <1>2
  <2> QED BY <2>1, <2>2, <2>3, <2>4, <2>5
<1> QED BY <1>3, <1>6 DEF Fifo!Send, Queue

LEMMA AdvanceReceives ==
  ASSUME IInv, Advance
  PROVE  Fifo!Receive
<1> DEFINE n == Len(sent)
           d == Len(delivered)
           m == sent[d + 1].msg
<1>1. d < n /\ rsize = Size[m] /\ rdata = m
  BY DEF Advance, IInv, ReaderInv
<1>2. n \in Nat /\ d \in Nat /\ d + 1 \in 1 .. n
  BY <1>1 DEF IInv, TypeOK
<1>3. m \in Messages /\ Size[m] # 0
  BY <1>2, Positions, SizesAssumption DEF IInv
<1>4. sent' = sent /\ delivered' = Append(delivered, m)
  BY <1>1, <1>3 DEF Advance
<1>5. Len(delivered') = d + 1
  BY <1>2, <1>3, <1>4 DEF IInv, TypeOK
<1>6. Queue \in Seq(Messages) /\ Len(Queue) = n - d /\ Queue # <<>>
  BY <1>1, <1>2, QueueIsSeq
<1>7. Head(Queue) = m
  <2>1. 1 \in 1 .. n - d
    BY <1>1, <1>2
  <2> QED BY <1>6, <2>1 DEF Queue
<1>8. Queue' = Tail(Queue)
  <2>1. Queue' = [i \in 1 .. n - (d + 1) |-> sent[(d + 1) + i].msg]
    BY <1>4, <1>5 DEF Queue
  <2>2. /\ Tail(Queue) \in Seq(Messages) /\ Len(Tail(Queue)) = Len(Queue) - 1
        /\ \A i \in 1 .. Len(Tail(Queue)) : Tail(Queue)[i] = Queue[i + 1]
    BY <1>6, HeadTailProperties
  <2> DEFINE rest == [i \in 1 .. Len(Queue) - 1 |-> Queue[i + 1]]
  <2>5. rest \in Seq(Messages) /\ Len(rest) = Len(Queue) - 1
    <3>1. Len(Queue) - 1 \in Nat
      BY <1>1, <1>2, <1>6
    <3>2. ASSUME NEW i \in 1 .. Len(Queue) - 1 PROVE Queue[i + 1] \in Messages
      <4>1. i + 1 \in 1 .. Len(Queue)
        BY <3>1
      <4> QED BY <4>1, <1>6
    <3> QED BY <3>1, <3>2
  <2>6. Tail(Queue) = rest
    <3>1. \A i \in 1 .. Len(rest) : rest[i] = Tail(Queue)[i]
      BY <2>2, <2>5
    <3> HIDE DEF rest
    <3> QED BY <2>2, <2>5, <3>1, SeqEqual
  <2>3. ASSUME NEW i \in 1 .. n - (d + 1) PROVE Queue[i + 1] = sent[(d + 1) + i].msg
    <3>1. i + 1 \in 1 .. n - d /\ d + (i + 1) = (d + 1) + i
      BY <1>2
    <3> QED BY <3>1 DEF Queue
  <2>4. Len(Queue) - 1 = n - (d + 1)
    BY <1>2, <1>6
  <2> QED BY <2>1, <2>3, <2>4, <2>6
<1> QED BY <1>4, <1>6, <1>7, <1>8 DEF Fifo!Receive, Queue

\* a step that appends to neither history does nothing in the channel
LEMMA ChannelStutters ==
  ASSUME UNCHANGED <<sent, delivered>>
  PROVE  UNCHANGED Fifo!vars
BY DEF Fifo!vars

LEMMA StepImplements == OneWriter /\ IInv /\ [RingNext]_ring_vars => [Fifo!Next]_(Fifo!vars)
<1> SUFFICES ASSUME OneWriter, IInv, [RingNext]_ring_vars PROVE [Fifo!Next]_(Fifo!vars)
  OBVIOUS
<1>1. ASSUME NEW w \in Writers, Publish(w) PROVE Fifo!Next
  <2>1. wmsg[w] \in Messages
    <3>1. wpc[w] \in Writing
      BY <1>1 DEF Publish, Writing
    <3> QED BY <3>1, WriterRoom
  <2>2. Fifo!Send(wmsg[w])
    BY <1>1, PublishSends
  <2> QED BY <2>1, <2>2 DEF Fifo!Next, Fifo!Send
<1>2. ASSUME NEW w \in Writers,
             (\E m \in Messages : TryWrite(w, m)) \/ WriteHeader(w) \/ WritePayload(w) \/ Notify(w)
      PROVE  UNCHANGED Fifo!vars
  <2>1. UNCHANGED <<sent, delivered>>
    BY <1>2 DEF TryWrite, WriteHeader, WritePayload, Notify
  <2> QED BY <2>1, ChannelStutters
<1>3. CASE Advance
  BY <1>3, AdvanceReceives DEF Fifo!Next
<1>4. CASE \/ CallRead \/ LoadIndices \/ ReadHeader \/ ReadPayload
           \/ Lock \/ FoundData \/ Wait \/ Expire \/ GiveUp
  <2>1. UNCHANGED <<sent, delivered>>
    BY <1>4 DEF CallRead, LoadIndices, ReadHeader, ReadsNothing, ReadPayload, Lock, FoundData,
                Wait, Expire, GiveUp
  <2> QED BY <2>1, ChannelStutters
<1>5. CASE UNCHANGED ring_vars
  <2>1. UNCHANGED <<sent, delivered>>
    BY <1>5 DEF ring_vars
  <2> QED BY <2>1, ChannelStutters
<1> QED BY <1>1, <1>2, <1>3, <1>4, <1>5 DEF RingNext, WriterStep, ReaderStep

LEMMA InitImplements == RingInit => Fifo!Init
<1> SUFFICES ASSUME RingInit PROVE Fifo!Init
  OBVIOUS
<1>1. sent = <<>> /\ delivered = <<>>
  BY DEF RingInit
<1>2. [i \in 1 .. Len(sent) - Len(delivered) |-> sent[Len(delivered) + i].msg] = <<>>
  BY <1>1
<1> QED BY <1>1, <1>2 DEF Fifo!Init

(* The ring with one writer implements the channel: nothing written is      *)
(* lost, duplicated, torn or reordered on its way to the reader.            *)
THEOREM RingImplementsChannel == ASSUME OneWriter PROVE RingSpec => ImplementsFifoSafely
BY InitImplements, StepImplements, RingInvariant, PTL DEF RingSpec, ImplementsFifoSafely

(***************************************************************************)
(* The sessions, whose rings are FIFO channels.                            *)
(***************************************************************************)
Requests == Threads \X Nat
Capacity == Cardinality(Clients)

ConnStates == {"none", "begun", "claimed", "copied", "waiting", "open", "failed"}
CallStates == {"idle", "connecting", "waiting", "async", "replied", "failing", "closing", "throwing",
               "destroying"}

\* the connecting clients
ConnTypes ==
  /\ slots \in [0 .. Capacity -> Clients \cup {None, Mixed}]
  /\ next_slot \in Nat /\ first_slot \in Nat
  /\ at \in [Clients -> Nat] /\ overlapped \in BOOLEAN
  /\ conn \in [Clients -> ConnStates] /\ chan \in [Clients -> {"none", "rings", "set"}]

\* the sessions and the threads
SessionTypes ==
  /\ works \in [Sessions -> SUBSET Threads] /\ wq \in [Sessions -> Seq(Threads)]
  /\ armed \in [Sessions -> BOOLEAN] /\ closed \in [Sessions -> BOOLEAN]
  /\ stuck \in [Sessions -> BOOLEAN] /\ expired \in [Sessions -> BOOLEAN]
  /\ pool \in Seq(Sessions) /\ lock \in Threads \cup {None, Dead}
  /\ call \in [Threads -> CallStates] /\ sess \in [Threads -> Sessions \cup {0}]
  /\ made \in [Threads -> Nat] /\ reply \in [Threads -> Requests \cup {<<>>}]

\* what is on the way
FlightTypes ==
  /\ c2s \in [Sessions -> Seq(Requests)] /\ s2c \in [Sessions -> Seq(Requests)]
  /\ arrived \in [Sessions -> SUBSET Requests] /\ handling \in [Sessions -> SUBSET Requests]
  /\ rx \in [Sessions -> Requests \cup {<<>>}] /\ answers \in [Sessions -> SUBSET Requests]

Published == {w \in Clients : conn[w] \in {"waiting", "open", "failed"}}

\* while clients have connected one at a time
HandshakeInv ==
  ~ overlapped =>
    /\ first_slot <= next_slot /\ next_slot = Cardinality(Published)
    /\ \A v, w \in Clients : InTryWrite(v) /\ InTryWrite(w) => v = w
    /\ \A w \in Clients : InTryWrite(w) => at[w] = next_slot
    /\ \A w \in Clients : conn[w] = "copied" => slots[next_slot] = w
    /\ HandshakeKept

\* a session that is connecting is made by the thread that holds connections_mut_
ConnectInv ==
  /\ \A s \in Sessions : conn[s] \in {"begun", "claimed", "copied", "waiting"} =>
       lock \in Threads /\ call[lock] = "connecting" /\ sess[lock] = s
  /\ \A k \in Threads : call[k] = "connecting" => lock = k
  /\ lock \in Threads => pool = <<>>

\* only sessions that are connected are used
OpenInv ==
  /\ \A s \in Sessions :
       works[s] # {} \/ wq[s] # <<>> \/ armed[s] \/ closed[s] \/ Contains(pool, s) => conn[s] = "open"
  /\ \A k \in Threads : call[k] \in {"waiting", "replied", "failing", "closing", "throwing"} =>
       k \in Callers /\ sess[k] \in Sessions /\ conn[sess[k]] = "open"
  /\ pool = <<>> \/ \E s \in Sessions : pool = <<s>>
  /\ PoolUsable

\* a work is in one place, and its caller waits for it
QueueInv ==
  /\ \A s \in Sessions : IsInjective(wq[s]) /\ works[s] \cap ToSet(wq[s]) = {}
  /\ \A s \in Sessions : \A k \in works[s] \cup ToSet(wq[s]) :
       \/ k \in AsyncCallers /\ call[k] = "async"
       \/ k \in Callers /\ call[k] = "waiting" /\ sess[k] = s

\* what is on the way between a session's client and its server
Flight(s, a1, a2, a3, a4, a5) ==
  c2s[s] = a1 /\ arrived[s] = a2 /\ handling[s] = a3 /\ s2c[s] = a4 /\ answers[s] = a5

Nothing(s) == Flight(s, <<>>, {}, {}, <<>>, {})
OneRequest(s, m) ==
  \/ Flight(s, <<m>>, {}, {}, <<>>, {})
  \/ Flight(s, <<>>, {m}, {}, <<>>, {})
  \/ Flight(s, <<>>, {}, {m}, <<>>, {}) /\ rx[s] = m
  \/ Flight(s, <<>>, {}, {}, <<m>>, {})
  \/ Flight(s, <<>>, {}, {}, <<>>, {m})
FlightInv == \A s \in Sessions :
  Nothing(s) \/ (wq[s] # <<>> /\ OneRequest(s, Message(Head(wq[s]))))


-----------------------------------------------------------------------------
(* The accept ring.                                                         *)

\* There are finitely many clients, and as many places and one more.
LEMMA ClientsFinite ==
  /\ IsFiniteSet(Clients) /\ Capacity \in Nat
  /\ \A S \in SUBSET Clients : IsFiniteSet(S) /\ Cardinality(S) \in Nat /\ Cardinality(S) <= Capacity
<1>1. IsFiniteSet(1 .. MaxSessions) /\ IsFiniteSet(Others)
  BY SharedMemoryAssumption, FS_Interval
<1>2. IsFiniteSet(Clients)
  BY <1>1, FS_Union DEF Clients, Sessions
<1> QED
  BY <1>2, FS_Subset, FS_CardinalityType DEF Capacity

\* A step that neither connects nor accepts.
LEMMA RingSame ==
  ASSUME ConnTypes, HandshakeInv, UNCHANGED <<ring, conn, chan>>
  PROVE  ConnTypes' /\ HandshakeInv'
BY DEF ring, ConnTypes, HandshakeInv, HandshakeKept, InTryWrite, Published

\* A client goes from one state to another outside try_write.
LEMMA ConnMoved ==
  ASSUME ConnTypes, HandshakeInv, UNCHANGED <<ring, chan>>, NEW w \in Clients,
         NEW x \in ConnStates, conn' = [conn EXCEPT ![w] = x],
         \/ conn[w] = "none" /\ x = "begun"
         \/ conn[w] = "waiting" /\ x \in {"open", "failed"}
  PROVE  ConnTypes' /\ HandshakeInv'
<1>1. /\ UNCHANGED <<slots, next_slot, first_slot, at, overlapped, chan>>
      /\ conn'[w] = x /\ \A v \in Clients : v # w => conn'[v] = conn[v]
      /\ conn' \in [Clients -> ConnStates]
  BY DEF ring, ConnTypes
<1>2. Published' = Published
  BY <1>1 DEF Published
<1>3. \A v \in Clients : InTryWrite(v)' <=> InTryWrite(v)
  BY <1>1 DEF InTryWrite
<1>4. \A v \in Clients : /\ conn'[v] = "waiting" => conn[v] = "waiting"
                         /\ conn'[v] = "copied" => conn[v] = "copied"
  BY <1>1
<1>5. ConnTypes'
  BY <1>1 DEF ConnTypes
<1>6. HandshakeInv'
  BY <1>1, <1>2, <1>3, <1>4 DEF HandshakeInv, HandshakeKept
<1> QED
  BY <1>5, <1>6

\* A client reads write_idx: it is alone, or the history has it.
LEMMA ClaimRing ==
  ASSUME ConnTypes, HandshakeInv, NEW w \in Clients, Claim(w)
  PROVE  ConnTypes' /\ HandshakeInv'
<1>1. /\ UNCHANGED <<slots, next_slot, first_slot, chan>>
      /\ conn[w] \in {"none", "begun"} /\ conn' = [conn EXCEPT ![w] = "claimed"]
      /\ at' = [at EXCEPT ![w] = next_slot]
      /\ overlapped' = (overlapped \/ \E v \in Clients : InTryWrite(v))
  BY DEF Claim, server
<1>2. /\ conn'[w] = "claimed" /\ \A v \in Clients : v # w => conn'[v] = conn[v]
      /\ conn' \in [Clients -> ConnStates]
      /\ at'[w] = next_slot /\ at' \in [Clients -> Nat]
  BY <1>1 DEF ConnTypes, ConnStates
<1>3. ConnTypes'
  BY <1>1, <1>2 DEF ConnTypes
<1>4. ASSUME ~ overlapped' PROVE HandshakeInv'
  <2>1. ~ overlapped /\ \A v \in Clients : ~ InTryWrite(v)
    BY <1>1, <1>4
  <2>2. \A v \in Clients : InTryWrite(v)' <=> v = w
    BY <1>2, <2>1 DEF InTryWrite
  <2>3. Published' = Published
    BY <1>1, <1>2 DEF Published
  <2>4. HandshakeKept'
    BY <1>1, <1>2, <2>1 DEF HandshakeInv, HandshakeKept
  <2>5. \A v \in Clients : conn'[v] # "copied"
    BY <1>2, <2>1 DEF InTryWrite
  <2> QED
    BY <1>1, <1>2, <2>1, <2>2, <2>3, <2>4, <2>5 DEF HandshakeInv
<1> QED
  BY <1>3, <1>4 DEF HandshakeInv

\* The handshake is copied to a place that no handshake is in.
LEMMA CopyRing ==
  ASSUME ConnTypes, HandshakeInv, NEW w \in Clients, CopyHandshake(w)
  PROVE  ConnTypes' /\ HandshakeInv'
<1>1. /\ UNCHANGED <<next_slot, first_slot, at, overlapped, chan>>
      /\ conn[w] = "claimed" /\ conn' = [conn EXCEPT ![w] = "copied"]
  BY DEF CopyHandshake, server
<1>2. PICK h \in {w} \cup {Mixed : v \in {v \in Clients \ {w} : InTryWrite(v) /\ at[v] = at[w]}} :
        slots' = [slots EXCEPT ![at[w]] = h]
  BY DEF CopyHandshake
<1>3. /\ conn'[w] = "copied" /\ \A v \in Clients : v # w => conn'[v] = conn[v]
      /\ conn' \in [Clients -> ConnStates]
  BY <1>1 DEF ConnTypes, ConnStates
<1>4. h \in {w, Mixed} /\ slots' \in [0 .. Capacity -> Clients \cup {None, Mixed}]
  BY <1>2 DEF ConnTypes
<1>5. ConnTypes'
  BY <1>1, <1>3, <1>4 DEF ConnTypes
<1>6. ASSUME ~ overlapped' PROVE HandshakeInv'
  <2>1. /\ ~ overlapped /\ InTryWrite(w)
        /\ first_slot <= next_slot /\ next_slot = Cardinality(Published) /\ at[w] = next_slot
        /\ \A v \in Clients : InTryWrite(v) => v = w
    BY <1>1, <1>6 DEF HandshakeInv, InTryWrite
  <2>2. h = w
    BY <2>1
  <2>3. next_slot \in 0 .. Capacity
    BY <2>1, ClientsFinite DEF Published
  <2>4. /\ slots'[next_slot] = w
        /\ \A i \in 0 .. Capacity : i # next_slot => slots'[i] = slots[i]
    BY <1>2, <2>1, <2>2, <2>3 DEF ConnTypes
  <2>5. \A v \in Clients : InTryWrite(v)' <=> v = w
    BY <1>3, <2>1 DEF InTryWrite
  <2>6. Published' = Published
    BY <1>1, <1>3 DEF Published
  <2>7. HandshakeKept'
    <3> SUFFICES ASSUME NEW v \in Clients, conn'[v] = "waiting", chan'[v] = "none"
                 PROVE  \E i \in first_slot' .. next_slot' - 1 : slots'[i] = v
      BY DEF HandshakeKept
    <3>1. conn[v] = "waiting" /\ chan[v] = "none"
      BY <1>1, <1>3
    <3>2. PICK i \in first_slot .. next_slot - 1 : slots[i] = v
      BY <1>1, <1>6, <3>1 DEF HandshakeInv, HandshakeKept
    <3>3. i \in 0 .. Capacity /\ i # next_slot
      BY <2>3, ClientsFinite DEF ConnTypes
    <3> QED
      BY <1>1, <2>4, <3>2, <3>3
  <2> QED
    BY <1>1, <1>3, <2>1, <2>4, <2>5, <2>6, <2>7 DEF HandshakeInv, InTryWrite
<1> QED
  BY <1>5, <1>6 DEF HandshakeInv

\* write_idx takes the handshake in.
LEMMA PublishRing ==
  ASSUME ConnTypes, HandshakeInv, NEW w \in Clients, PublishHandshake(w)
  PROVE  ConnTypes' /\ HandshakeInv'
<1>1. /\ UNCHANGED <<slots, first_slot, at, overlapped, chan>>
      /\ conn[w] = "copied" /\ conn' = [conn EXCEPT ![w] = "waiting"]
      /\ next_slot' = at[w] + 1 /\ at[w] \in Nat /\ first_slot \in Nat
  BY DEF PublishHandshake, server, ConnTypes
<1>2. /\ conn'[w] = "waiting" /\ \A v \in Clients : v # w => conn'[v] = conn[v]
      /\ conn' \in [Clients -> ConnStates]
  BY <1>1 DEF ConnTypes, ConnStates
<1>3. ConnTypes'
  BY <1>1, <1>2 DEF ConnTypes
<1>4. ASSUME ~ overlapped' PROVE HandshakeInv'
  <2>1. /\ ~ overlapped /\ InTryWrite(w)
        /\ first_slot <= next_slot /\ next_slot = Cardinality(Published) /\ at[w] = next_slot
        /\ \A v \in Clients : InTryWrite(v) => v = w
        /\ slots[next_slot] = w
    BY <1>1, <1>4 DEF HandshakeInv, InTryWrite
  <2>2. next_slot' = next_slot + 1 /\ next_slot \in Nat
    BY <1>1, <2>1
  <2>3. next_slot' = Cardinality(Published)'
    <3>1. Published' = Published \cup {w} /\ w \notin Published /\ IsFiniteSet(Published)
      BY <1>1, <1>2, ClientsFinite DEF Published
    <3>2. Cardinality(Published') = Cardinality(Published) + 1
      BY <3>1, FS_AddElement
    <3> QED
      BY <2>1, <2>2, <3>2
  <2>4. \A v \in Clients : ~ InTryWrite(v)'
    BY <1>2, <2>1 DEF InTryWrite
  <2>5. HandshakeKept'
    <3> SUFFICES ASSUME NEW v \in Clients, conn'[v] = "waiting", chan'[v] = "none"
                 PROVE  \E i \in first_slot' .. next_slot' - 1 : slots'[i] = v
      BY DEF HandshakeKept
    <3>1. CASE v = w
      <4>1. next_slot \in first_slot' .. next_slot' - 1
        BY <1>1, <2>1, <2>2
      <4> QED
        BY <1>1, <2>1, <3>1, <4>1
    <3>2. CASE v # w
      <4>1. PICK i \in first_slot .. next_slot - 1 : slots[i] = v
        BY <1>1, <1>2, <1>4, <3>2 DEF HandshakeInv, HandshakeKept
      <4>2. i \in first_slot' .. next_slot' - 1
        BY <1>1, <2>2
      <4> QED
        BY <1>1, <4>1, <4>2
    <3> QED
      BY <3>1, <3>2
  <2>6. \A v \in Clients : conn'[v] # "copied"
    BY <1>2, <2>1 DEF InTryWrite
  <2>7. first_slot' <= next_slot'
    BY <1>1, <2>1, <2>2
  <2> QED
    BY <2>3, <2>4, <2>5, <2>6, <2>7 DEF HandshakeInv
<1> QED
  BY <1>3, <1>4 DEF HandshakeInv

\* The listener takes a handshake out, and its client has a channel.
LEMMA AcceptRing ==
  ASSUME ConnTypes, HandshakeInv, Accept \/ AcceptHandler
  PROVE  ConnTypes' /\ HandshakeInv'
<1>1. CASE AcceptHandler
  <2>1. UNCHANGED <<slots, next_slot, first_slot, at, overlapped, conn>> /\ chan' = [chan EXCEPT ![accepting] = "set"]
    BY <1>1 DEF AcceptHandler, ring
  <2>2. /\ chan' \in [Clients -> {"none", "rings", "set"}]
        /\ \A w \in Clients : chan[w] # "none" => chan'[w] # "none"
    BY <2>1 DEF ConnTypes
  <2> QED
    BY <2>1, <2>2 DEF ConnTypes, HandshakeInv, HandshakeKept, InTryWrite, Published
<1>2. CASE Accept
  <2>1. /\ UNCHANGED <<slots, next_slot, at, overlapped, conn>>
        /\ first_slot # next_slot /\ first_slot' = first_slot + 1 /\ first_slot \in Nat /\ next_slot \in Nat
        /\ chan' = chan \/ chan' = [chan EXCEPT ![slots[first_slot]] = "rings"]
    BY <1>2 DEF Accept, ConnTypes
  <2>2. /\ chan' \in [Clients -> {"none", "rings", "set"}]
        /\ \A w \in Clients : chan[w] # "none" => chan'[w] # "none"
    BY <2>1 DEF ConnTypes
  <2>3. \A w \in Clients : slots[first_slot] = w => chan'[w] # "none"
    <3> SUFFICES ASSUME NEW w \in Clients, slots[first_slot] = w PROVE chan'[w] # "none"
      OBVIOUS
    <3>1. w # Mixed
      BY SharedMemoryAssumption
    <3>2. chan' = [chan EXCEPT ![w] = "rings"]
      BY <1>2, <3>1 DEF Accept
    <3> QED
      BY <3>2 DEF ConnTypes
  <2>4. ConnTypes'
    BY <2>1, <2>2 DEF ConnTypes
  <2>5. ASSUME ~ overlapped' PROVE HandshakeInv'
    <3>1. first_slot <= next_slot /\ HandshakeKept /\ ~ overlapped
      BY <2>1, <2>5 DEF HandshakeInv
    <3>2. first_slot' <= next_slot'
      BY <2>1, <3>1
    <3>3. HandshakeKept'
      <4> SUFFICES ASSUME NEW v \in Clients, conn'[v] = "waiting", chan'[v] = "none"
                   PROVE  \E i \in first_slot' .. next_slot' - 1 : slots'[i] = v
        BY DEF HandshakeKept
      <4>1. conn[v] = "waiting" /\ chan[v] = "none"
        BY <2>1, <2>2 DEF ConnTypes
      <4>2. PICK i \in first_slot .. next_slot - 1 : slots[i] = v
        BY <3>1, <4>1 DEF HandshakeKept
      <4>3. i # first_slot
        BY <2>3, <4>2
      <4>4. i \in first_slot' .. next_slot' - 1
        BY <2>1, <4>3
      <4> QED
        BY <2>1, <4>2, <4>4
    <3> QED
      BY <2>1, <2>5, <3>2, <3>3 DEF HandshakeInv, InTryWrite, Published
  <2> QED
    BY <2>4, <2>5 DEF HandshakeInv
<1> QED
  BY <1>1, <1>2

-----------------------------------------------------------------------------
(* The sessions, their queues and the list of them.                         *)

SessionInv == SessionTypes /\ ConnectInv /\ OpenInv /\ QueueInv
sessionVars == <<conn, queue, orb, callers>>

\* A step that does not touch the sessions.
LEMMA SessionSame == ASSUME SessionInv, UNCHANGED sessionVars PROVE SessionInv'
<1>1. UNCHANGED <<conn, works, wq, stuck, armed, pool, lock, closed, expired, call, sess, made, reply>>
  BY DEF sessionVars, queue, orb, callers
<1>2. SessionTypes'
  BY <1>1 DEF SessionInv, SessionTypes
<1>3. ConnectInv'
  BY <1>1 DEF SessionInv, ConnectInv
<1>4. OpenInv'
  BY <1>1 DEF SessionInv, OpenInv, PoolUsable, InClose
<1>5. QueueInv'
  BY <1>1 DEF SessionInv, QueueInv
<1> QED
  BY <1>2, <1>3, <1>4, <1>5 DEF SessionInv

\* Those that are in close() still are.
LEMMA PoolKept ==
  ASSUME SessionInv, UNCHANGED <<pool, closed, expired>>,
         \A d \in Threads : call[d] = "closing" => call'[d] = "closing" /\ sess'[d] = sess[d]
  PROVE  PoolUsable'
<1>1. ASSUME NEW s \in Sessions, InClose(s) PROVE InClose(s)'
  BY <1>1 DEF InClose, Threads
<1> QED
  BY <1>1 DEF SessionInv, OpenInv, PoolUsable

\* A session's handshake goes from one state to another in try_write.
LEMMA ConnectingSession ==
  ASSUME SessionInv, ConnTypes, NEW w \in Clients, Claim(w) \/ CopyHandshake(w) \/ PublishHandshake(w)
  PROVE  SessionInv'
<1>1. UNCHANGED <<works, wq, stuck, armed, pool, lock, closed, expired, call, sess, made, reply>>
  BY DEF Claim, CopyHandshake, PublishHandshake, queue, orb, callers
<1>2. PICK x \in {"claimed", "copied", "waiting"} : conn' = [conn EXCEPT ![w] = x]
  BY DEF Claim, CopyHandshake, PublishHandshake
<1>3. w \in Sessions => conn[w] \in {"begun", "claimed", "copied"}
  BY SharedMemoryAssumption DEF Claim, CopyHandshake, PublishHandshake
<1>4. Sessions \subseteq Clients
  BY DEF Clients
<1>5. \A s \in Sessions : /\ conn'[s] = "open" <=> conn[s] = "open"
                          /\ conn'[s] \in {"begun", "claimed", "copied", "waiting"} =>
                               conn[s] \in {"begun", "claimed", "copied", "waiting"}
  BY <1>2, <1>3, <1>4 DEF ConnTypes
<1>6. SessionTypes'
  BY <1>1 DEF SessionInv, SessionTypes
<1>7. ConnectInv'
  BY <1>1, <1>5 DEF SessionInv, ConnectInv
<1>8. OpenInv'
  BY <1>1, <1>5, PoolKept DEF SessionInv, OpenInv
<1>9. QueueInv'
  BY <1>1 DEF SessionInv, QueueInv
<1> QED
  BY <1>6, <1>7, <1>8, <1>9 DEF SessionInv

\* A thread that has no work in a queue changes its own state.
LEMMA QueueOthers ==
  ASSUME SessionInv, UNCHANGED <<works, wq>>, NEW k \in Threads, call[k] \notin {"waiting", "async"},
         \A d \in Threads : d # k => call'[d] = call[d] /\ sess'[d] = sess[d]
  PROVE  QueueInv'
<1>1. \A s \in Sessions : \A d \in works[s] \cup ToSet(wq[s]) : d \in Threads /\ d # k
  BY DEF SessionInv, QueueInv, Threads
<1> QED
  BY <1>1 DEF SessionInv, QueueInv

\* A work is posted for a caller that had none.
LEMMA PostQueue ==
  ASSUME SessionInv, NEW k \in Threads, NEW s \in Sessions, Post(k, s), UNCHANGED wq,
         call[k] \in {"idle", "connecting"}
  PROVE  /\ QueueInv' /\ works' \in [Sessions -> SUBSET Threads]
         /\ call' \in [Threads -> CallStates] /\ sess' \in [Threads -> Sessions \cup {0}]
         /\ \A t \in Sessions : t # s => works'[t] = works[t]
         /\ \A d \in Threads : d # k => call'[d] = call[d] /\ sess'[d] = sess[d]
         /\ call'[k] = "async" \/ (k \in Callers /\ call'[k] = "waiting" /\ sess'[k] = s)
<1>1. /\ works \in [Sessions -> SUBSET Threads] /\ wq \in [Sessions -> Seq(Threads)]
      /\ call \in [Threads -> CallStates] /\ sess \in [Threads -> Sessions \cup {0}]
  BY DEF SessionInv, SessionTypes
<1>2. /\ call' = [call EXCEPT ![k] = IF k \in AsyncCallers THEN "async" ELSE "waiting"]
      /\ sess' = [sess EXCEPT ![k] = IF k \in AsyncCallers THEN 0 ELSE s]
      /\ works' = [works EXCEPT ![s] = @ \cup {k}]
  BY DEF Post
<1>3. /\ works' \in [Sessions -> SUBSET Threads] /\ works'[s] = works[s] \cup {k}
      /\ \A t \in Sessions : t # s => works'[t] = works[t]
  BY <1>1, <1>2
<1>4. /\ call' \in [Threads -> CallStates] /\ sess' \in [Threads -> Sessions \cup {0}]
      /\ \A d \in Threads : d # k => call'[d] = call[d] /\ sess'[d] = sess[d]
  BY <1>1, <1>2 DEF CallStates
<1>5. \/ k \in AsyncCallers /\ call'[k] = "async"
      \/ k \in Callers /\ call'[k] = "waiting" /\ sess'[k] = s
  BY <1>1, <1>2 DEF Threads
<1>6. \A t \in Sessions : \A d \in works[t] \cup ToSet(wq[t]) : d \in Threads /\ d # k
  BY DEF SessionInv, QueueInv, Threads
<1>7. QueueInv'
  <2>1. \A t \in Sessions : IsInjective(wq'[t]) /\ works'[t] \cap ToSet(wq'[t]) = {}
    BY <1>3, <1>6 DEF SessionInv, QueueInv
  <2>2. ASSUME NEW t \in Sessions, NEW d \in works'[t] \cup ToSet(wq'[t])
        PROVE  \/ d \in AsyncCallers /\ call'[d] = "async"
               \/ d \in Callers /\ call'[d] = "waiting" /\ sess'[d] = t
    <3>1. CASE d \in works[t] \cup ToSet(wq[t])
      BY <1>4, <1>6, <3>1 DEF SessionInv, QueueInv
    <3>2. CASE d \notin works[t] \cup ToSet(wq[t])
      <4>1. d = k /\ t = s
        BY <1>3, <2>2, <3>2
      <4> QED
        BY <1>5, <4>1
    <3> QED
      BY <3>1, <3>2
  <2> QED
    BY <2>1, <2>2 DEF QueueInv
<1> QED
  BY <1>3, <1>4, <1>5, <1>7

\* get_session finds a session.
LEMMA GetSessionInv ==
  ASSUME SessionInv, NEW k \in Threads, GetSession(k)
  PROVE  SessionInv'
<1>1. /\ call[k] = "idle" /\ lock = None /\ pool # <<>>
      /\ made' = [made EXCEPT ![k] = @ + 1] /\ Post(k, Head(pool))
      /\ UNCHANGED <<conn, wq, stuck, armed, pool, lock, closed, expired, reply>>
  BY DEF GetSession, orb
<1>2. PICK s \in Sessions : pool = <<s>>
  BY <1>1 DEF SessionInv, OpenInv
<1>3. Head(pool) = s /\ conn[s] = "open"
  <2>1. Head(<<s>>) = s /\ Len(<<s>>) = 1 /\ <<s>>[1] = s
    OBVIOUS
  <2>2. Contains(pool, s)
    BY <1>2, <2>1 DEF Contains
  <2> QED
    BY <1>2, <2>1, <2>2 DEF SessionInv, OpenInv
<1>4. Post(k, s)
  BY <1>1, <1>3
<1>5. /\ QueueInv' /\ works' \in [Sessions -> SUBSET Threads]
      /\ call' \in [Threads -> CallStates] /\ sess' \in [Threads -> Sessions \cup {0}]
      /\ \A t \in Sessions : t # s => works'[t] = works[t]
      /\ \A d \in Threads : d # k => call'[d] = call[d] /\ sess'[d] = sess[d]
      /\ call'[k] = "async" \/ (k \in Callers /\ call'[k] = "waiting" /\ sess'[k] = s)
  BY <1>1, <1>4, PostQueue
<1>6. SessionTypes'
  <2>1. made' \in [Threads -> Nat]
    BY <1>1 DEF SessionInv, SessionTypes
  <2> QED
    BY <1>1, <1>5, <2>1 DEF SessionInv, SessionTypes
<1>7. ConnectInv'
  <2>1. k # None /\ lock \notin Threads
    BY <1>1, SharedMemoryAssumption
  <2> QED
    BY <1>1, <1>5, <2>1 DEF SessionInv, ConnectInv
<1>8. OpenInv'
  <2>1. PoolUsable'
    BY <1>1, <1>5, PoolKept
  <2>2. \A t \in Sessions :
          works'[t] # {} \/ wq'[t] # <<>> \/ armed'[t] \/ closed'[t] \/ Contains(pool', t) => conn'[t] = "open"
    BY <1>1, <1>3, <1>5 DEF SessionInv, OpenInv
  <2>3. \A d \in Threads : call'[d] \in {"waiting", "replied", "failing", "closing", "throwing"} =>
          d \in Callers /\ sess'[d] \in Sessions /\ conn'[sess'[d]] = "open"
    BY <1>1, <1>3, <1>5 DEF SessionInv, OpenInv
  <2> QED
    BY <1>1, <2>1, <2>2, <2>3 DEF SessionInv, OpenInv
<1> QED
  BY <1>5, <1>6, <1>7, <1>8 DEF SessionInv

\* get_session begins a new session, with connections_mut_ held.
LEMMA NewSessionInv ==
  ASSUME SessionInv, ConnTypes, NEW k \in Threads, NewSession(k)
  PROVE  /\ SessionInv' /\ UNCHANGED <<ring, chan>>
         /\ \E s \in Sessions : conn[s] = "none" /\ conn' = [conn EXCEPT ![s] = "begun"]
<1>1. /\ call[k] = "idle" /\ lock = None /\ pool = <<>> /\ lock' = k
      /\ made' = [made EXCEPT ![k] = @ + 1] /\ call' = [call EXCEPT ![k] = "connecting"]
      /\ UNCHANGED <<works, wq, stuck, armed, pool, closed, expired, reply, ring, chan>>
  BY DEF NewSession, queue, server
<1>2. PICK s \in Sessions : /\ conn[s] = "none" /\ conn' = [conn EXCEPT ![s] = "begun"]
                            /\ sess' = [sess EXCEPT ![k] = s]
  BY DEF NewSession
<1>3. /\ conn'[s] = "begun" /\ \A t \in Sessions : t # s => conn'[t] = conn[t]
  BY <1>2 DEF ConnTypes, Clients
<1>4. /\ call' \in [Threads -> CallStates] /\ sess' \in [Threads -> Sessions \cup {0}]
      /\ call'[k] = "connecting" /\ sess'[k] = s
      /\ \A d \in Threads : d # k => call'[d] = call[d] /\ sess'[d] = sess[d]
  BY <1>1, <1>2 DEF SessionInv, SessionTypes, CallStates
<1>5. QueueInv'
  BY <1>1, <1>4, QueueOthers
<1>6. SessionTypes'
  <2>1. made' \in [Threads -> Nat]
    BY <1>1 DEF SessionInv, SessionTypes
  <2> QED
    BY <1>1, <1>4, <2>1 DEF SessionInv, SessionTypes
<1>7. ConnectInv'
  <2>1. lock \notin Threads
    BY <1>1, SharedMemoryAssumption
  <2>2. \A t \in Sessions : conn'[t] \in {"begun", "claimed", "copied", "waiting"} => t = s
    BY <1>3, <2>1 DEF SessionInv, ConnectInv
  <2>3. \A d \in Threads : call'[d] = "connecting" => d = k
    BY <1>4, <2>1 DEF SessionInv, ConnectInv
  <2> QED
    BY <1>1, <1>4, <2>2, <2>3 DEF ConnectInv
<1>8. OpenInv'
  <2>1. \A t \in Sessions : conn[t] = "open" => conn'[t] = "open"
    BY <1>2, <1>3
  <2>2. PoolUsable'
    BY <1>1, <1>4, PoolKept
  <2>3. \A d \in Threads : call'[d] \in {"waiting", "replied", "failing", "closing", "throwing"} =>
          d \in Callers /\ sess'[d] \in Sessions /\ conn'[sess'[d]] = "open"
    BY <1>4, <2>1 DEF SessionInv, OpenInv
  <2>4. \A t \in Sessions :
          works'[t] # {} \/ wq'[t] # <<>> \/ armed'[t] \/ closed'[t] \/ Contains(pool', t) => conn'[t] = "open"
    BY <1>1, <2>1 DEF SessionInv, OpenInv
  <2> QED
    BY <1>1, <2>2, <2>3, <2>4 DEF OpenInv
<1> QED
  BY <1>1, <1>2, <1>5, <1>6, <1>7, <1>8 DEF SessionInv

\* The new session is opened, and the list has it and no other.
LEMMA ConnectedInv ==
  ASSUME SessionInv, ConnTypes, NEW w \in Clients, Connected(w)
  PROVE  SessionInv' /\ UNCHANGED <<ring, chan>> /\ conn[w] = "waiting" /\ conn' = [conn EXCEPT ![w] = "open"]
<1>1. /\ conn[w] = "waiting" /\ conn' = [conn EXCEPT ![w] = "open"]
      /\ UNCHANGED <<wq, stuck, armed, closed, expired, ring, chan, made, reply>>
  BY DEF Connected, server, callers
<1>2. /\ conn'[w] = "open" /\ \A t \in Clients : t # w => conn'[t] = conn[t]
  BY <1>1 DEF ConnTypes
<1>3. Sessions \subseteq Clients /\ Sessions \cap Others = {} /\ Clients = Sessions \cup Others
  BY SharedMemoryAssumption DEF Clients
<1>4. \A t \in Sessions : /\ conn[t] = "open" => conn'[t] = "open"
                          /\ conn'[t] \in {"begun", "claimed", "copied", "waiting"} => conn'[t] = conn[t] /\ t # w
  BY <1>2, <1>3
<1>5. CASE w \in Others
  <2>1. UNCHANGED <<call, sess, works, pool, lock>>
    BY <1>5 DEF Connected, callers
  <2>2. SessionTypes'
    BY <1>1, <2>1 DEF SessionInv, SessionTypes
  <2>3. ConnectInv'
    BY <1>4, <2>1 DEF SessionInv, ConnectInv
  <2>4. OpenInv'
    BY <1>1, <1>4, <2>1, PoolKept DEF SessionInv, OpenInv
  <2>5. QueueInv'
    BY <1>1, <2>1 DEF SessionInv, QueueInv
  <2> QED
    BY <1>1, <2>2, <2>3, <2>4, <2>5 DEF SessionInv
<1>6. CASE w \in Sessions
  <2>1. w \notin Others
    BY <1>3, <1>6
  <2>2. /\ lock' = None /\ pool' = Append(pool, w)
        /\ \E k \in Threads : sess[k] = w /\ call[k] = "connecting" /\ Post(k, w)
    BY <2>1 DEF Connected
  <2>3. PICK k \in Threads : sess[k] = w /\ call[k] = "connecting" /\ Post(k, w)
    BY <2>2
  <2>4. lock = k /\ pool = <<>> /\ \A d \in Threads : d # k => call[d] # "connecting"
    BY <2>3 DEF SessionInv, ConnectInv
  <2>5. /\ QueueInv' /\ works' \in [Sessions -> SUBSET Threads]
        /\ call' \in [Threads -> CallStates] /\ sess' \in [Threads -> Sessions \cup {0}]
        /\ \A t \in Sessions : t # w => works'[t] = works[t]
        /\ \A d \in Threads : d # k => call'[d] = call[d] /\ sess'[d] = sess[d]
        /\ call'[k] = "async" \/ (k \in Callers /\ call'[k] = "waiting" /\ sess'[k] = w)
    BY <1>1, <1>6, <2>3, PostQueue
  <2>6. pool' = <<w>>
    BY <2>2, <2>4
  <2>7. \A t \in Sessions : Contains(pool', t) => t = w
    BY <2>6 DEF Contains
  <2>8. SessionTypes'
    <3>1. pool' \in Seq(Sessions)
      BY <1>6, <2>6
    <3> QED
      BY <1>1, <2>2, <2>5, <3>1 DEF SessionInv, SessionTypes
  <2>9. ConnectInv'
    <3>1. None \notin Threads
      BY SharedMemoryAssumption
    <3>2. \A t \in Sessions : conn[t] \in {"begun", "claimed", "copied", "waiting"} => t = w
      BY <2>3, <2>4 DEF SessionInv, ConnectInv
    <3>3. \A d \in Threads : call'[d] # "connecting"
      BY <2>4, <2>5
    <3> QED
      BY <1>4, <2>2, <3>1, <3>2, <3>3 DEF ConnectInv
  <2>10. OpenInv'
    <3>1. ~ closed[w]
      BY <1>1, <1>6 DEF SessionInv, OpenInv
    <3>2. PoolUsable'
      BY <1>1, <2>7, <3>1 DEF PoolUsable
    <3>3. \A t \in Sessions :
          works'[t] # {} \/ wq'[t] # <<>> \/ armed'[t] \/ closed'[t] \/ Contains(pool', t) => conn'[t] = "open"
      BY <1>1, <1>2, <1>4, <2>5, <2>7 DEF SessionInv, OpenInv
    <3>4. \A d \in Threads : call'[d] \in {"waiting", "replied", "failing", "closing", "throwing"} =>
          d \in Callers /\ sess'[d] \in Sessions /\ conn'[sess'[d]] = "open"
      BY <1>2, <1>4, <1>6, <2>5 DEF SessionInv, OpenInv
    <3> QED
      BY <1>6, <2>6, <3>2, <3>3, <3>4 DEF OpenInv
  <2> QED
    BY <1>1, <2>5, <2>8, <2>9, <2>10 DEF SessionInv
<1> QED
  BY <1>3, <1>5, <1>6

\* The constructor throws, and the thread is where it was.
LEMMA NotConnectedInv ==
  ASSUME SessionInv, ConnTypes, NEW w \in Clients, NotConnected(w)
  PROVE  SessionInv' /\ UNCHANGED <<ring, chan>> /\ conn[w] = "waiting" /\ conn' = [conn EXCEPT ![w] = "failed"]
<1>1. /\ conn[w] = "waiting" /\ conn' = [conn EXCEPT ![w] = "failed"]
      /\ UNCHANGED <<works, wq, stuck, armed, closed, expired, pool, ring, chan, made, reply>>
  BY DEF NotConnected, server, queue
<1>2. /\ conn'[w] = "failed" /\ \A t \in Clients : t # w => conn'[t] = conn[t]
  BY <1>1 DEF ConnTypes
<1>3. Sessions \subseteq Clients /\ Sessions \cap Others = {} /\ Clients = Sessions \cup Others
  BY SharedMemoryAssumption DEF Clients
<1>4. \A t \in Sessions : /\ conn[t] = "open" => conn'[t] = "open"
                          /\ conn'[t] \in {"begun", "claimed", "copied", "waiting"} => conn'[t] = conn[t] /\ t # w
  BY <1>1, <1>2, <1>3
<1>5. \A t \in Sessions :
        works'[t] # {} \/ wq'[t] # <<>> \/ armed'[t] \/ closed'[t] \/ Contains(pool', t) => conn'[t] = "open"
  BY <1>1, <1>4 DEF SessionInv, OpenInv
<1>6. CASE w \in Others
  <2>1. UNCHANGED <<call, sess, lock>>
    BY <1>6 DEF NotConnected
  <2>2. SessionTypes'
    BY <1>1, <2>1 DEF SessionInv, SessionTypes
  <2>3. ConnectInv'
    BY <1>1, <1>4, <2>1 DEF SessionInv, ConnectInv
  <2>4. OpenInv'
    BY <1>1, <1>4, <1>5, <2>1, PoolKept DEF SessionInv, OpenInv
  <2>5. QueueInv'
    BY <1>1, <2>1 DEF SessionInv, QueueInv
  <2> QED
    BY <1>1, <2>2, <2>3, <2>4, <2>5 DEF SessionInv
<1>7. CASE w \in Sessions
  <2>1. w \notin Others
    BY <1>3, <1>7
  <2>2. PICK k \in Threads : /\ sess[k] = w /\ call[k] = "connecting"
                             /\ call' = [call EXCEPT ![k] = "idle"]
                             /\ sess' = [sess EXCEPT ![k] = 0]
    BY <2>1 DEF NotConnected
  <2>3. lock' = None
    BY <2>1 DEF NotConnected
  <2>4. lock = k /\ pool = <<>> /\ \A d \in Threads : d # k => call[d] # "connecting"
    BY <2>2 DEF SessionInv, ConnectInv
  <2>5. /\ call' \in [Threads -> CallStates] /\ sess' \in [Threads -> Sessions \cup {0}]
        /\ call'[k] = "idle"
        /\ \A d \in Threads : d # k => call'[d] = call[d] /\ sess'[d] = sess[d]
    BY <2>2 DEF SessionInv, SessionTypes, CallStates
  <2>6. QueueInv'
    BY <1>1, <2>2, <2>5, QueueOthers
  <2>7. SessionTypes'
    BY <1>1, <2>3, <2>5 DEF SessionInv, SessionTypes
  <2>8. ConnectInv'
    <3>1. None \notin Threads
      BY SharedMemoryAssumption
    <3>2. \A t \in Sessions : conn[t] \in {"begun", "claimed", "copied", "waiting"} => t = w
      BY <2>2, <2>4 DEF SessionInv, ConnectInv
    <3>3. \A d \in Threads : call'[d] # "connecting"
      BY <2>4, <2>5
    <3> QED
      BY <1>4, <2>3, <3>1, <3>2, <3>3 DEF ConnectInv
  <2>9. OpenInv'
    <3>1. \A d \in Threads : call'[d] \in {"waiting", "replied", "failing", "closing", "throwing"} =>
          d \in Callers /\ sess'[d] \in Sessions /\ conn'[sess'[d]] = "open"
      BY <1>4, <2>5 DEF SessionInv, OpenInv
    <3>2. PoolUsable'
      BY <1>1, <2>2, <2>5, PoolKept
    <3> QED
      BY <1>1, <1>5, <2>4, <3>1, <3>2 DEF OpenInv
  <2> QED
    BY <1>1, <2>6, <2>7, <2>8, <2>9 DEF SessionInv
<1> QED
  BY <1>3, <1>6, <1>7

\* The works that send refuses are the first of the queue.
LEMMA TooBigFirst ==
  ASSUME NEW q \in Seq(Threads)
  PROVE  /\ Cardinality(TooBig(q)) \in 0 .. Len(q)
         /\ TooBig(q) = 1 .. Cardinality(TooBig(q))
<1> DEFINE T == TooBig(q)
           L == Len(q)
<1>1. L \in Nat /\ T \in SUBSET (0 .. L) /\ \A i \in T : i \in 1 .. L
  BY DEF TooBig
<1>2. \A i \in T : \A j \in 1 .. i : j \in T
  <2> TAKE i \in T
  <2> TAKE j \in 1 .. i
  <2>1. i \in 1 .. L /\ j \in 1 .. L /\ \A x \in 1 .. i : q[x] \in Callers /\ Message(q[x]) \in Big
    BY DEF TooBig
  <2>2. \A x \in 1 .. j : x \in 1 .. i
    BY <2>1
  <2> QED
    BY <2>1, <2>2 DEF TooBig
<1> HIDE DEF T, L
<1>3. CASE T = {}
  <2>1. Cardinality(T) = 0
    BY <1>3, FS_EmptySet
  <2> QED
    BY <1>1, <1>3, <2>1 DEF T, L
<1>4. CASE T # {}
  <2> DEFINE m == Max(T)
  <2>1. m \in T /\ \A i \in T : i <= m
    BY <1>1, <1>4, BoundedMax
  <2> HIDE DEF m
  <2>2. m \in 1 .. L /\ m \in Nat
    BY <1>1, <2>1
  <2>3. T = 1 .. m
    <3>1. \A i \in T : i \in 1 .. m
      BY <1>1, <2>1, <2>2
    <3>2. \A i \in 1 .. m : i \in T
      BY <1>2, <2>1
    <3> QED
      BY <3>1, <3>2
  <2>4. Cardinality(T) = m
    BY <2>2, <2>3, FS_Interval
  <2> QED
    BY <1>1, <2>2, <2>3, <2>4 DEF T, L
<1> QED
  BY <1>3, <1>4

\* Those that go are gone from the queue, and are works of blocking calls.
LEMMA ExecuteQueue ==
  ASSUME NEW q \in Seq(Threads), IsInjective(q), NEW n \in Nat, n = Cardinality(TooBig(q)),
         NEW r, r = SubSeq(q, n + 1, Len(q))
  PROVE  /\ r \in Seq(Threads) /\ IsInjective(r) /\ ToSet(r) = ToSet(q) \ Failed(q)
         /\ Failed(q) \subseteq ToSet(q) \cap Callers
<1> DEFINE L == Len(q)
<1>1. L \in Nat /\ n \in 0 .. L /\ TooBig(q) = 1 .. n
  BY TooBigFirst
<1>2. /\ r \in Seq(Threads) /\ Len(r) \in Nat /\ L = n + Len(r)
      /\ \A i \in 1 .. Len(r) : r[i] = q[n + i]
  <2>1. n + 1 \in 1 .. Len(q) + 1 /\ Len(q) \in (n + 1) - 1 .. Len(q)
    BY <1>1
  <2>2. /\ r \in Seq(Threads)
        /\ Len(r) = Len(q) - (n + 1) + 1
        /\ \A i \in 1 .. Len(q) - (n + 1) + 1 : r[i] = q[(n + 1) + i - 1]
    <3>1. n + 1 \in Int /\ Len(q) \in Int
      BY <2>1
    <3>2. \A i \in n + 1 .. Len(q) : q[i] \in Threads
      BY <2>1
    <3>3. r \in Seq(Threads) /\ Len(r) = (IF n + 1 <= Len(q) THEN Len(q) - (n + 1) + 1 ELSE 0)
          /\ \A i \in 1 .. Len(q) - (n + 1) + 1 : r[i] = q[(n + 1) + i - 1]
      BY ONLY <3>1, <3>2, r = SubSeq(q, n + 1, Len(q)), SubSeqProperties
    <3>4. Len(q) - (n + 1) + 1 = (IF n + 1 <= Len(q) THEN Len(q) - (n + 1) + 1 ELSE 0)
      BY <2>1, <3>1
    <3> QED
      BY <3>3, <3>4
  <2>3. ASSUME NEW i \in 1 .. Len(r)
        PROVE  r[i] = q[n + i]
    <3>1. r[i] = q[(n + 1) + i - 1]
      BY <2>2
    <3>2. i \in Int
      OBVIOUS
    <3>3. (n + 1) + i - 1 = n + i
      BY ONLY <3>2, n \in Nat
    <3> QED
      BY ONLY <3>1, <3>3
  <2>4. Len(r) \in Nat
    BY <2>2
  <2>5. Len(q) \in Nat /\ L = n + Len(r)
    BY <1>1, <2>2
  <2> QED
    BY <2>2, <2>3, <2>4, <2>5
<1> DEFINE K == Len(r)
<1>3. ToSet(q) = {q[i] : i \in 1 .. L}
  BY SetOfSeq
<1>4. ToSet(r) = {r[i] : i \in 1 .. K} /\ (ToSet(r) = {} <=> r = <<>>)
  <2>1. r \in Seq(Threads)
    BY <1>2
  <2> QED
    BY ONLY <2>1, SetOfSeq
<1>5. Failed(q) = {q[i] : i \in 1 .. n}
  BY <1>1 DEF Failed
<1>6. \A i, j \in 1 .. L : q[i] = q[j] => i = j
  BY InjectiveSeq
<1> HIDE DEF L, K
<1>12. K \in Nat /\ L = n + K
  BY <1>2 DEF K
<1>13. \A i \in 1 .. K : n + i \in 1 .. L /\ r[i] = q[n + i] /\ n + i \notin 1 .. n
  <2> TAKE i \in 1 .. K
  <2>1. r[i] = q[n + i]
    BY <1>2 DEF K
  <2>2. n + i \in 1 .. L /\ n + i \notin 1 .. n
    BY ONLY <1>12, n \in Nat, i \in 1 .. K
  <2> QED
    BY <2>1, <2>2
<1>14. \A i \in 1 .. n : i \in 1 .. L
  BY <1>12
<1>7. IsInjective(r)
  <2>2. ASSUME NEW i \in 1 .. K, NEW j \in 1 .. K, r[i] = r[j] PROVE i = j
    <3>1. n + i \in 1 .. L /\ n + j \in 1 .. L /\ q[n + i] = q[n + j]
      BY <1>13, <2>2
    <3>2. n + i = n + j
      BY <1>6, <3>1
    <3> QED
      BY <3>2
  <2> QED
    BY <1>2, <2>2, InjectiveSeq DEF K
<1>8. ToSet(r) = ToSet(q) \ Failed(q)
  <2>1. ASSUME NEW i \in 1 .. K PROVE r[i] \in ToSet(q) /\ r[i] \notin Failed(q)
    <3>1. n + i \in 1 .. L /\ r[i] = q[n + i] /\ n + i \notin 1 .. n
      BY <1>13
    <3>2. \A j \in 1 .. n : q[j] # q[n + i]
      BY <1>6, <1>14, <3>1
    <3> QED
      BY <1>3, <1>5, <3>1, <3>2
  <2>2. ASSUME NEW i \in 1 .. L, q[i] \notin Failed(q) PROVE q[i] \in ToSet(r)
    <3>1. i \notin 1 .. n
      BY <1>5, <2>2
    <3>2. i - n \in 1 .. K /\ n + (i - n) = i
      BY ONLY <1>12, <3>1, n \in Nat, i \in 1 .. L
    <3>3. r[i - n] = q[i]
      BY <1>13, <3>2
    <3> QED
      BY <1>4, <3>2, <3>3
  <2>3. \A x \in ToSet(r) : x \in ToSet(q) /\ x \notin Failed(q)
    BY <1>4, <2>1
  <2>4. \A x \in ToSet(q) : x \notin Failed(q) => x \in ToSet(r)
    BY <1>3, <2>2
  <2> QED
    BY <2>3, <2>4
<1>9. Failed(q) \subseteq ToSet(q) \cap Callers
  <2> SUFFICES ASSUME NEW i \in 1 .. n PROVE q[i] \in ToSet(q) /\ q[i] \in Callers
    BY <1>5
  <2>1. i \in 1 .. L /\ i \in 1 .. i
    BY <1>14
  <2>2. i \in TooBig(q)
    BY <1>1
  <2>3. q[i] \in Callers
    BY <2>1, <2>2 DEF TooBig
  <2> QED
    BY <1>3, <2>1, <2>3
<1> QED
  BY <1>2, <1>7, <1>8, <1>9 DEF L

\* Works leave their places, of one session, and their callers do not wait.
LEMMA QueueLeft ==
  ASSUME SessionInv, NEW s \in Sessions, NEW F \in SUBSET (works[s] \cup ToSet(wq[s])),
         \A d \in F : d \in Callers,
         \A t \in Sessions : t # s => works'[t] = works[t] /\ wq'[t] = wq[t],
         works'[s] \cup ToSet(wq'[s]) \subseteq (works[s] \cup ToSet(wq[s])) \ F,
         IsInjective(wq'[s]), works'[s] \cap ToSet(wq'[s]) = {},
         sess' = sess, \A d \in Threads \ F : call'[d] = call[d]
  PROVE  QueueInv'
<1>1. \A t \in Sessions : \A d \in works[t] \cup ToSet(wq[t]) :
        /\ d \in Threads
        /\ \/ d \in AsyncCallers /\ call[d] = "async"
           \/ d \in Callers /\ call[d] = "waiting" /\ sess[d] = t
  BY DEF SessionInv, QueueInv, Threads
<1>2. \A d \in F : sess[d] = s /\ d \notin AsyncCallers
  BY <1>1, SharedMemoryAssumption
<1>3. \A t \in Sessions : t # s => \A d \in works[t] \cup ToSet(wq[t]) : d \notin F
  BY <1>1, <1>2
<1>4. ASSUME NEW t \in Sessions, NEW d \in works'[t] \cup ToSet(wq'[t])
      PROVE  \/ d \in AsyncCallers /\ call'[d] = "async"
             \/ d \in Callers /\ call'[d] = "waiting" /\ sess'[d] = t
  <2>1. d \in works[t] \cup ToSet(wq[t]) /\ d \notin F
    <3>1. CASE t = s
      BY <1>4, <3>1
    <3>2. CASE t # s
      BY <1>3, <1>4, <3>2
    <3> QED
      BY <3>1, <3>2
  <2>2. d \in Threads /\ call'[d] = call[d]
    BY <1>1, <2>1
  <2> QED
    BY <1>1, <2>1, <2>2
<1>5. \A t \in Sessions : IsInjective(wq'[t]) /\ works'[t] \cap ToSet(wq'[t]) = {}
  BY DEF SessionInv, QueueInv
<1> QED
  BY <1>4, <1>5 DEF QueueInv

\* With such a step the other parts of SessionInv are kept.
LEMMA SessionLeft ==
  ASSUME SessionInv, NEW s \in Sessions, conn[s] = "open", QueueInv',
         UNCHANGED <<conn, orb, sess, made>>, stuck' \in [Sessions -> BOOLEAN],
         works' \in [Sessions -> SUBSET Threads], wq' \in [Sessions -> Seq(Threads)],
         armed' \in [Sessions -> BOOLEAN],
         \A t \in Sessions : t # s =>
           works'[t] = works[t] /\ wq'[t] = wq[t] /\ armed'[t] = armed[t],
         reply' \in [Threads -> Requests \cup {<<>>}], call' \in [Threads -> CallStates],
         \A d \in Threads : \/ call'[d] = call[d]
                            \/ /\ call[d] = "waiting" /\ call'[d] \in {"replied", "failing"}
  PROVE  SessionInv'
<1>1. UNCHANGED <<pool, lock, closed, expired>>
  BY DEF orb
<1>2. SessionTypes'
  BY <1>1 DEF SessionInv, SessionTypes
<1>3. \A d \in Threads : call'[d] = "connecting" <=> call[d] = "connecting"
  OBVIOUS
<1>4. ConnectInv'
  BY <1>1, <1>3 DEF SessionInv, ConnectInv
<1>5. OpenInv'
  <2>1. PoolUsable'
    BY <1>1, PoolKept
  <2>2. \A t \in Sessions :
        works'[t] # {} \/ wq'[t] # <<>> \/ armed'[t] \/ closed'[t] \/ Contains(pool', t) => conn'[t] = "open"
    <3> TAKE t \in Sessions
    <3>1. CASE t = s
      BY <3>1
    <3>2. CASE t # s
      BY <1>1, <3>2 DEF SessionInv, OpenInv
    <3> QED
      BY <3>1, <3>2
  <2>3. \A d \in Threads : call'[d] \in {"waiting", "replied", "failing", "closing", "throwing"} =>
          d \in Callers /\ sess'[d] \in Sessions /\ conn'[sess'[d]] = "open"
    BY DEF SessionInv, OpenInv
  <2> QED
    BY <1>1, <2>1, <2>2, <2>3 DEF SessionInv, OpenInv
<1> QED
  BY <1>2, <1>4, <1>5 DEF SessionInv

\* operator() of the works of a queue, until one has sent its request, or waits
\* for mutex_.
LEMMA Executed ==
  ASSUME SessionInv, NEW s \in Sessions, NEW q \in Seq(Threads), IsInjective(q), Execute(s, q)
  PROVE  /\ wq' \in [Sessions -> Seq(Threads)] /\ armed' \in [Sessions -> BOOLEAN]
         /\ stuck' \in [Sessions -> BOOLEAN]
         /\ \A t \in Sessions : t # s => wq'[t] = wq[t] /\ armed'[t] = armed[t]
         /\ IsInjective(wq'[s]) /\ ToSet(wq'[s]) = ToSet(q) \ Failed(q)
         /\ Failed(q) \subseteq ToSet(q) \cap Callers
         /\ \/ c2s' = c2s
            \/ wq'[s] # <<>> /\ c2s' = [c2s EXCEPT ![s] = Append(@, Message(Head(wq'[s])))]
<1> DEFINE n == Cardinality(TooBig(q))
           r == SubSeq(q, n + 1, Len(q))
           refused == r # <<>> /\ Message(Head(r)) \in Big
<1>1. n \in Nat
  BY TooBigFirst
<1>2. /\ wq' = [wq EXCEPT ![s] = r] /\ stuck' = [stuck EXCEPT ![s] = refused]
      /\ armed' = [armed EXCEPT ![s] = @ \/ (q # <<>> /\ ~ closed[s])]
      /\ c2s' = IF r = <<>> \/ refused THEN c2s ELSE [c2s EXCEPT ![s] = Append(@, Message(Head(r)))]
  BY DEF Execute
<1>3. /\ r \in Seq(Threads) /\ IsInjective(r) /\ ToSet(r) = ToSet(q) \ Failed(q)
      /\ Failed(q) \subseteq ToSet(q) \cap Callers
  <2>1. n = Cardinality(TooBig(q)) /\ r = SubSeq(q, n + 1, Len(q))
    OBVIOUS
  <2> HIDE DEF n, r
  <2> QED
    BY ONLY <1>1, <2>1, q \in Seq(Threads), IsInjective(q), ExecuteQueue
<1>4. refused \in BOOLEAN
  OBVIOUS
<1> HIDE DEF n, r, refused
<1>5. /\ wq' \in [Sessions -> Seq(Threads)] /\ wq'[s] = r
      /\ \A t \in Sessions : t # s => wq'[t] = wq[t]
  <2>1. wq \in [Sessions -> Seq(Threads)]
    BY DEF SessionInv, SessionTypes
  <2>2. r \in Seq(Threads) /\ wq' = [wq EXCEPT ![s] = r]
    BY <1>2, <1>3
  <2> QED
    BY ONLY <2>1, <2>2, s \in Sessions
<1>6. armed' \in [Sessions -> BOOLEAN] /\ \A t \in Sessions : t # s => armed'[t] = armed[t]
  BY <1>2 DEF SessionInv, SessionTypes
<1>7. stuck' \in [Sessions -> BOOLEAN]
  BY <1>2, <1>4 DEF SessionInv, SessionTypes
<1>8. \/ c2s' = c2s
      \/ wq'[s] # <<>> /\ c2s' = [c2s EXCEPT ![s] = Append(@, Message(Head(wq'[s])))]
  BY <1>2, <1>5
<1> QED
  BY <1>3, <1>5, <1>6, <1>7, <1>8

\* The posted work is put behind the others, or executed.
LEMMA AddWorkInv ==
  ASSUME SessionInv, NEW s \in Sessions, AddWork(s)
  PROVE  SessionInv'
<1>1. PICK k \in works[s] :
        /\ works' = [works EXCEPT ![s] = @ \ {k}]
        /\ IF wq[s] = <<>>
           THEN Execute(s, <<k>>) /\ call' = Fail(call, <<k>>)
           ELSE wq' = [wq EXCEPT ![s] = Append(@, k)] /\ UNCHANGED <<armed, stuck, c2s, call>>
  BY DEF AddWork
<1>2. UNCHANGED <<conn, orb, sess, made, reply>>
  BY DEF AddWork
<1>3. /\ works \in [Sessions -> SUBSET Threads] /\ wq[s] \in Seq(Threads) /\ k \in Threads
      /\ call \in [Threads -> CallStates] /\ IsInjective(wq[s]) /\ k \notin ToSet(wq[s])
      /\ works[s] \cap ToSet(wq[s]) = {} /\ conn[s] = "open"
  BY DEF SessionInv, SessionTypes, QueueInv, OpenInv
<1>4. /\ works' \in [Sessions -> SUBSET Threads] /\ works'[s] = works[s] \ {k}
      /\ \A t \in Sessions : t # s => works'[t] = works[t]
  BY <1>1, <1>3
<1>5. CASE wq[s] # <<>>
  <2>1. /\ ToSet(Append(wq[s], k)) = ToSet(wq[s]) \cup {k} /\ IsInjective(Append(wq[s], k))
        /\ Append(wq[s], k) \in Seq(Threads)
    BY <1>3, AppendSet
  <2>2. wq' = [wq EXCEPT ![s] = Append(wq[s], k)] /\ UNCHANGED <<armed, stuck, call>>
    BY <1>1, <1>5
  <2>3. /\ wq' \in [Sessions -> Seq(Threads)] /\ wq'[s] = Append(wq[s], k)
        /\ \A t \in Sessions : t # s => wq'[t] = wq[t]
    BY <2>1, <2>2 DEF SessionInv, SessionTypes
  <2>4. QueueInv'
    <3>1. {} \in SUBSET (works[s] \cup ToSet(wq[s]))
      OBVIOUS
    <3>2. /\ works'[s] \cup ToSet(wq'[s]) \subseteq (works[s] \cup ToSet(wq[s])) \ {}
          /\ IsInjective(wq'[s]) /\ works'[s] \cap ToSet(wq'[s]) = {}
      BY <1>3, <1>4, <2>1, <2>3
    <3> QED
      BY <1>2, <1>4, <2>2, <2>3, <3>1, <3>2, QueueLeft
  <2> QED
    BY <1>2, <1>3, <1>4, <2>2, <2>3, <2>4, SessionLeft DEF SessionInv, SessionTypes
<1>6. CASE wq[s] = <<>>
  <2>1. PICK q : q = <<k>>
    OBVIOUS
  <2>2. q \in Seq(Threads) /\ ToSet(q) = {k} /\ IsInjective(q)
    <3>1. /\ <<k>> \in Seq(Threads) /\ Len(<<k>>) = 1 /\ <<k>>[1] = k
      BY <1>3
    <3>2. q \in Seq(Threads) /\ Len(q) = 1 /\ q[1] = k
      BY <2>1, <3>1
    <3>3. ToSet(q) = {q[i] : i \in 1 .. 1}
      BY <3>2, SetOfSeq
    <3> QED
      BY <3>2, <3>3, InjectiveSeq
  <2>3. Execute(s, q) /\ call' = Fail(call, q)
    BY <1>1, <1>6, <2>1
  <2>4. /\ wq' \in [Sessions -> Seq(Threads)] /\ armed' \in [Sessions -> BOOLEAN]
        /\ stuck' \in [Sessions -> BOOLEAN]
        /\ \A t \in Sessions : t # s => wq'[t] = wq[t] /\ armed'[t] = armed[t]
        /\ IsInjective(wq'[s]) /\ ToSet(wq'[s]) = ToSet(q) \ Failed(q)
        /\ Failed(q) \subseteq ToSet(q) \cap Callers
    BY <2>2, <2>3, Executed
  <2>5. /\ call' \in [Threads -> CallStates]
        /\ \A d \in Threads : call'[d] = IF d \in Failed(q) THEN "failing" ELSE call[d]
    BY <1>3, <2>3 DEF Fail, CallStates
  <2>6. \A d \in Failed(q) : d \in works[s] \cup ToSet(wq[s]) /\ d \in Callers /\ call[d] = "waiting"
    BY <2>2, <2>4, SharedMemoryAssumption DEF SessionInv, QueueInv
  <2>7. QueueInv'
    <3>1. Failed(q) \in SUBSET (works[s] \cup ToSet(wq[s]))
      BY <2>6
    <3>2. /\ works'[s] \cup ToSet(wq'[s]) \subseteq (works[s] \cup ToSet(wq[s])) \ Failed(q)
          /\ works'[s] \cap ToSet(wq'[s]) = {}
      BY <1>4, <2>2, <2>4
    <3>3. PICK F : F = Failed(q)
      OBVIOUS
    <3>4. \A d \in Threads \ F : call'[d] = call[d]
      BY <2>5, <3>3
    <3> QED
      BY <1>2, <1>4, <2>4, <2>6, <3>1, <3>2, <3>3, <3>4, QueueLeft
  <2>8. \A d \in Threads : \/ call'[d] = call[d]
                           \/ call[d] = "waiting" /\ call'[d] \in {"replied", "failing"}
    BY <2>5, <2>6
  <2> QED
    BY <1>2, <1>3, <1>4, <2>4, <2>5, <2>7, <2>8, SessionLeft DEF SessionInv, SessionTypes
<1> QED
  BY <1>5, <1>6

\* An answer ends the call of the front, and the next ones are executed.
LEMMA OnDataInv ==
  ASSUME SessionInv, FlightTypes, NEW s \in Sessions, OnData(s)
  PROVE  SessionInv'
<1>1. PICK m \in answers[s] :
        IF wq[s] = <<>>
        THEN UNCHANGED <<reply, stuck, call, wq, armed, c2s>>
        ELSE LET k == Head(wq[s]) IN
             /\ reply' = [reply EXCEPT ![k] = m]
             /\ IF k \in AsyncCallers
                THEN stuck' = [stuck EXCEPT ![s] = TRUE] /\ UNCHANGED <<call, wq, armed, c2s>>
                ELSE /\ call' = Fail([call EXCEPT ![k] = "replied"], Tail(wq[s]))
                     /\ Execute(s, Tail(wq[s]))
  BY DEF OnData
<1>2. UNCHANGED <<conn, works, orb, sess, made>> /\ m \in Requests
  BY DEF OnData, FlightTypes
<1>3. CASE wq[s] = <<>>
  BY <1>1, <1>2, <1>3, SessionSame DEF sessionVars, queue, callers
<1>4. CASE wq[s] # <<>>
  <2>1. PICK k : k = Head(wq[s])
    OBVIOUS
  <2>2. PICK q : q = Tail(wq[s])
    OBVIOUS
  <2>3. /\ reply' = [reply EXCEPT ![k] = m]
        /\ IF k \in AsyncCallers
           THEN stuck' = [stuck EXCEPT ![s] = TRUE] /\ UNCHANGED <<call, wq, armed>>
           ELSE call' = Fail([call EXCEPT ![k] = "replied"], q) /\ Execute(s, q)
    BY <1>1, <1>4, <2>1, <2>2
  <2>4. wq[s] \in Seq(Threads) /\ IsInjective(wq[s]) /\ works[s] \cap ToSet(wq[s]) = {} /\ conn[s] = "open"
    BY <1>4 DEF SessionInv, SessionTypes, QueueInv, OpenInv
  <2>5. /\ k \in ToSet(wq[s]) /\ q \in Seq(Threads) /\ IsInjective(q)
        /\ ToSet(q) = ToSet(wq[s]) \ {k} /\ k \in Threads
    BY <1>4, <2>1, <2>2, <2>4, TailSet, SetOfSeq
  <2>6. reply' \in [Threads -> Requests \cup {<<>>}]
    BY <1>2, <2>3 DEF SessionInv, SessionTypes
  <2>7. CASE k \in AsyncCallers
    <3>1. stuck' = [stuck EXCEPT ![s] = TRUE] /\ UNCHANGED <<call, wq, armed>>
      BY <2>3, <2>7
    <3>2. QueueInv'
      BY <1>2, <3>1 DEF SessionInv, QueueInv
    <3> QED
      BY <1>2, <2>4, <2>6, <3>1, <3>2, SessionLeft DEF SessionInv, SessionTypes
  <2>8. CASE k \notin AsyncCallers
    <3>1. Execute(s, q) /\ call' = Fail([call EXCEPT ![k] = "replied"], q)
      BY <2>3, <2>8
    <3>2. /\ wq' \in [Sessions -> Seq(Threads)] /\ armed' \in [Sessions -> BOOLEAN]
          /\ stuck' \in [Sessions -> BOOLEAN]
          /\ \A t \in Sessions : t # s => wq'[t] = wq[t] /\ armed'[t] = armed[t]
          /\ IsInjective(wq'[s]) /\ ToSet(wq'[s]) = ToSet(q) \ Failed(q)
          /\ Failed(q) \subseteq ToSet(q) \cap Callers
      BY <2>5, <3>1, Executed
    <3>3. PICK F : F = Failed(q) \cup {k}
      OBVIOUS
    <3>4. \A d \in F : d \in ToSet(wq[s]) /\ d \in Callers /\ call[d] = "waiting"
      <4>1. \A d \in F : d \in ToSet(wq[s]) /\ d \notin AsyncCallers
        BY <2>5, <2>8, <3>2, <3>3, SharedMemoryAssumption
      <4> QED
        BY <4>1 DEF SessionInv, QueueInv
    <3>5. /\ call' \in [Threads -> CallStates]
          /\ \A d \in Threads : \/ d \notin F /\ call'[d] = call[d]
                                \/ d \in F /\ call'[d] \in {"replied", "failing"}
      BY <2>5, <3>1, <3>3 DEF Fail, CallStates, SessionInv, SessionTypes
    <3>6. QueueInv'
      <4>1. F \in SUBSET (works[s] \cup ToSet(wq[s])) /\ \A d \in F : d \in Callers
        BY <3>4
      <4>2. /\ works'[s] \cup ToSet(wq'[s]) \subseteq (works[s] \cup ToSet(wq[s])) \ F
            /\ works'[s] \cap ToSet(wq'[s]) = {}
        BY <1>2, <2>4, <2>5, <3>2, <3>3, <3>4
      <4>3. \A d \in Threads \ F : call'[d] = call[d]
        BY <3>5
      <4> QED
        BY <1>2, <3>2, <4>1, <4>2, <4>3, QueueLeft
    <3>7. \A d \in Threads : \/ call'[d] = call[d]
                             \/ call[d] = "waiting" /\ call'[d] \in {"replied", "failing"}
      BY <3>4, <3>5
    <3> QED
      BY <1>2, <2>4, <2>6, <3>2, <3>5, <3>6, <3>7, SessionLeft DEF SessionInv, SessionTypes
  <2> QED
    BY <2>7, <2>8
<1> QED
  BY <1>3, <1>4

\* close_session empties the list, whichever session it was asked to erase.
LEMMA Closed ==
  ASSUME SessionInv, CloseSession
  PROVE  /\ pool' = <<>> /\ \A t \in Sessions : ~ Contains(pool', t)
         /\ lock \notin Threads /\ lock' \in {None, Dead}
<1>1. /\ lock = None /\ lock' \in {None, Dead}
      /\ pool' = (IF pool = <<>> THEN pool ELSE Tail(pool))
  BY DEF CloseSession
<1>2. pool' = <<>>
  <2>1. CASE pool = <<>>
    BY <1>1, <2>1
  <2>2. CASE \E t \in Sessions : pool = <<t>>
    <3>1. PICK t \in Sessions : pool = <<t>>
      BY <2>2
    <3>2. Tail(<<t>>) = <<>> /\ <<t>> # <<>>
      OBVIOUS
    <3> QED
      BY <1>1, <3>1, <3>2
  <2> QED
    BY <2>1, <2>2 DEF SessionInv, OpenInv
<1>3. \A t \in Sessions : ~ Contains(pool', t)
  <2>1. Len(<<>>) = 0 /\ 1 .. 0 = {}
    OBVIOUS
  <2> QED
    BY <1>2, <2>1 DEF Contains
<1>4. lock \notin Threads
  BY <1>1, SharedMemoryAssumption
<1> QED
  BY <1>1, <1>2, <1>3, <1>4

\* A thread or the timer is one step further in the end of a call or a session.
LEMMA EndedInv ==
  ASSUME SessionInv, UNCHANGED <<conn, works, wq, stuck, made, reply>>, QueueInv', PoolUsable',
         armed' \in [Sessions -> BOOLEAN], \A t \in Sessions : armed'[t] => armed[t],
         closed' \in [Sessions -> BOOLEAN], \A t \in Sessions : closed'[t] => conn[t] = "open",
         expired' \in [Sessions -> BOOLEAN],
         UNCHANGED <<pool, lock>> \/ CloseSession,
         call' \in [Threads -> CallStates], sess' \in [Threads -> Sessions \cup {0}],
         \A d \in Threads : \/ call'[d] = call[d] /\ sess'[d] = sess[d]
                            \/ call[d] # "connecting" /\ call'[d] \in {"idle", "destroying"}
                            \/ /\ call[d] \in {"failing", "closing"} /\ call'[d] \in {"closing", "throwing"}
                               /\ sess'[d] = sess[d]
  PROVE  SessionInv'
<1>1. \A d \in Threads : call'[d] \in {"waiting", "replied", "failing", "closing", "throwing"} =>
        d \in Callers /\ sess'[d] \in Sessions /\ conn'[sess'[d]] = "open"
  BY DEF SessionInv, OpenInv
<1>2. CASE UNCHANGED <<pool, lock>>
  <2>1. SessionTypes'
    BY <1>2 DEF SessionInv, SessionTypes
  <2>2. ConnectInv'
    BY <1>2 DEF SessionInv, ConnectInv
  <2>3. OpenInv'
    BY <1>1, <1>2 DEF SessionInv, OpenInv
  <2> QED
    BY <2>1, <2>2, <2>3 DEF SessionInv
<1>3. CASE CloseSession
  <2>1. /\ pool' = <<>> /\ \A t \in Sessions : ~ Contains(pool', t)
        /\ lock \notin Threads /\ lock' \in {None, Dead}
    BY <1>3, Closed
  <2>2. SessionTypes'
    <3>1. <<>> \in Seq(Sessions)
      OBVIOUS
    <3> QED
      BY <2>1, <3>1 DEF SessionInv, SessionTypes
  <2>3. ConnectInv'
    <3>1. lock' \notin Threads
      BY <2>1, SharedMemoryAssumption
    <3>2. \A d \in Threads : call[d] # "connecting" /\ call'[d] # "connecting"
      BY <2>1 DEF SessionInv, ConnectInv
    <3> QED
      BY <2>1, <3>1, <3>2 DEF SessionInv, ConnectInv
  <2>4. OpenInv'
    BY <1>1, <2>1 DEF SessionInv, OpenInv
  <2> QED
    BY <2>2, <2>3, <2>4 DEF SessionInv
<1> QED
  BY <1>2, <1>3

\* closed_ is set by one that is in close() from here on, or that destroys a
\* session which is not in the list.
LEMMA SetClosedInv ==
  ASSUME SessionInv, NEW s \in Sessions, conn[s] = "open", SetClosed(s), UNCHANGED pool,
         \A t \in Sessions : InClose(t) => InClose(t)',
         InClose(s)' \/ ~ Contains(pool, s)
  PROVE  /\ PoolUsable'
         /\ closed' \in [Sessions -> BOOLEAN] /\ \A t \in Sessions : closed'[t] => conn[t] = "open"
         /\ armed' \in [Sessions -> BOOLEAN] /\ \A t \in Sessions : armed'[t] => armed[t]
<1>1. closed' = [closed EXCEPT ![s] = TRUE] /\ armed' = [armed EXCEPT ![s] = FALSE]
  BY DEF SetClosed
<1>2. closed' \in [Sessions -> BOOLEAN] /\ \A t \in Sessions : closed'[t] => closed[t] \/ t = s
  BY <1>1 DEF SessionInv, SessionTypes
<1>3. armed' \in [Sessions -> BOOLEAN] /\ \A t \in Sessions : armed'[t] => armed[t]
  BY <1>1 DEF SessionInv, SessionTypes
<1>4. PoolUsable'
  BY <1>2 DEF PoolUsable, SessionInv, OpenInv
<1> QED
  BY <1>2, <1>3, <1>4 DEF SessionInv, OpenInv

\* The timer of a session begins to close it.
LEMMA TimerInv ==
  ASSUME SessionInv, NEW s \in Sessions, Timer(s)
  PROVE  SessionInv'
<1>1. /\ armed[s] /\ SetClosed(s) /\ expired' = [expired EXCEPT ![s] = TRUE]
      /\ UNCHANGED <<conn, works, wq, stuck, pool, lock, call, sess, made, reply>>
  BY DEF Timer, callers
<1>2. conn[s] = "open"
  BY <1>1 DEF SessionInv, OpenInv
<1>3. expired' \in [Sessions -> BOOLEAN] /\ expired'[s] /\ \A t \in Sessions : expired[t] => expired'[t]
  BY <1>1 DEF SessionInv, SessionTypes
<1>4. InClose(s)' /\ \A t \in Sessions : InClose(t) => InClose(t)'
  BY <1>1, <1>3 DEF InClose
<1>5. QueueInv'
  BY <1>1 DEF SessionInv, QueueInv
<1>6. /\ PoolUsable'
      /\ closed' \in [Sessions -> BOOLEAN] /\ \A t \in Sessions : closed'[t] => conn[t] = "open"
      /\ armed' \in [Sessions -> BOOLEAN] /\ \A t \in Sessions : armed'[t] => armed[t]
  BY <1>1, <1>2, <1>4, SetClosedInv
<1>7. call' \in [Threads -> CallStates] /\ sess' \in [Threads -> Sessions \cup {0}]
  BY <1>1 DEF SessionInv, SessionTypes
<1> QED
  BY <1>1, <1>3, <1>5, <1>6, <1>7, EndedInv

\* The timer comes to close_session, of a session that may be gone.
LEMMA TimerEraseInv ==
  ASSUME SessionInv, NEW s \in Sessions, TimerErase(s)
  PROVE  SessionInv'
<1>1. UNCHANGED <<conn, works, wq, stuck, armed, closed, call, sess, made, reply>>
  BY DEF TimerErase, queue, callers
<1>2. /\ armed \in [Sessions -> BOOLEAN] /\ closed \in [Sessions -> BOOLEAN]
      /\ call \in [Threads -> CallStates] /\ sess \in [Threads -> Sessions \cup {0}]
      /\ \A t \in Sessions : closed[t] => conn[t] = "open"
  BY DEF SessionInv, SessionTypes, OpenInv
<1>3. QueueInv'
  BY <1>1 DEF SessionInv, QueueInv
<1>4. CASE CloseSession /\ expired' = [expired EXCEPT ![s] = Orphan]
  <2>1. PoolUsable'
    BY <1>4, Closed DEF PoolUsable
  <2>2. expired' \in [Sessions -> BOOLEAN]
    <3>1. Orphan \in BOOLEAN
      BY DEF Orphan
    <3> QED
      BY <1>4, <3>1 DEF SessionInv, SessionTypes
  <2> QED
    BY <1>1, <1>2, <1>3, <1>4, <2>1, <2>2, EndedInv
<1>5. CASE ~ Alive(s) /\ expired' = [expired EXCEPT ![s] = FALSE] /\ UNCHANGED <<pool, lock>>
  <2>1. expired' \in [Sessions -> BOOLEAN] /\ \A t \in Sessions : t # s => expired'[t] = expired[t]
    BY <1>5 DEF SessionInv, SessionTypes
  <2>2. \A t \in Sessions : t # s /\ InClose(t) => InClose(t)'
    BY <1>1, <2>1 DEF InClose
  <2>3. ~ Contains(pool, s)
    BY <1>5 DEF Alive
  <2>4. PoolUsable'
    BY <1>1, <1>5, <2>2, <2>3 DEF PoolUsable, SessionInv, OpenInv
  <2> QED
    BY <1>1, <1>2, <1>3, <1>5, <2>1, <2>4, EndedInv
<1> QED
  BY <1>4, <1>5 DEF TimerErase

\* The steps of the end of a blocking call.
LEMMA EndingInv ==
  ASSUME SessionInv, NEW k \in Threads, Ending(k)
  PROVE  SessionInv'
<1>1. /\ UNCHANGED <<conn, works, wq, stuck, made, reply>>
      /\ call[k] \in {"replied", "failing", "closing", "throwing", "destroying"}
  BY DEF Ending, Return, FailClose, Erase, Throw, queue
<1>2. /\ call \in [Threads -> CallStates] /\ sess \in [Threads -> Sessions \cup {0}]
      /\ armed \in [Sessions -> BOOLEAN] /\ closed \in [Sessions -> BOOLEAN]
      /\ expired \in [Sessions -> BOOLEAN] /\ \A t \in Sessions : closed[t] => conn[t] = "open"
  BY DEF SessionInv, SessionTypes, OpenInv
<1>3. CASE Return(k) \/ Throw(k)
  <2>1. PICK last \in BOOLEAN :
          /\ last <=> Users(sess[k]) = {k} /\ ~ Contains(pool, sess[k])
          /\ sess' = [sess EXCEPT ![k] = 0]
          /\ call' = [call EXCEPT ![k] = IF last THEN "destroying" ELSE "idle"]
          /\ IF last THEN SetClosed(sess[k]) ELSE UNCHANGED <<closed, armed>>
    BY <1>3 DEF Return, Throw, Release
  <2>2. call[k] \in {"replied", "throwing"} /\ UNCHANGED <<pool, lock, expired>>
    BY <1>3 DEF Return, Throw
  <2>3. sess[k] \in Sessions /\ conn[sess[k]] = "open"
    BY <2>2 DEF SessionInv, OpenInv
  <2>4. /\ call' \in [Threads -> CallStates] /\ sess' \in [Threads -> Sessions \cup {0}]
        /\ call'[k] \in {"idle", "destroying"}
        /\ \A d \in Threads : d # k => call'[d] = call[d] /\ sess'[d] = sess[d]
    BY <1>2, <2>1 DEF CallStates
  <2>5. \A t \in Sessions : InClose(t) => InClose(t)'
    BY <2>2, <2>4 DEF InClose, Threads
  <2>6. /\ PoolUsable'
        /\ closed' \in [Sessions -> BOOLEAN] /\ \A t \in Sessions : closed'[t] => conn[t] = "open"
        /\ armed' \in [Sessions -> BOOLEAN] /\ \A t \in Sessions : armed'[t] => armed[t]
    <3>1. CASE last
      BY <2>1, <2>2, <2>3, <2>5, <3>1, SetClosedInv
    <3>2. CASE ~ last
      <4>1. UNCHANGED <<closed, armed>>
        BY <2>1, <3>2
      <4>2. PoolUsable'
        BY <2>2, <2>4, <4>1, PoolKept
      <4> QED
        BY <1>2, <4>1, <4>2
    <3> QED
      BY <3>1, <3>2
  <2>7. QueueInv'
    BY <1>1, <2>2, <2>4, QueueOthers
  <2> QED
    BY <1>1, <1>2, <2>2, <2>4, <2>6, <2>7, EndedInv
<1>4. CASE FailClose(k)
  <2>1. /\ call[k] = "failing" /\ call' = [call EXCEPT ![k] = "closing"] /\ SetClosed(sess[k])
        /\ UNCHANGED <<pool, lock, expired, sess>>
    BY <1>4 DEF FailClose
  <2>2. k \in Callers /\ sess[k] \in Sessions /\ conn[sess[k]] = "open"
    BY <2>1 DEF SessionInv, OpenInv
  <2>3. /\ call' \in [Threads -> CallStates] /\ call'[k] = "closing"
        /\ \A d \in Threads : d # k => call'[d] = call[d]
    BY <1>2, <2>1 DEF CallStates
  <2>4. InClose(sess[k])' /\ \A t \in Sessions : InClose(t) => InClose(t)'
    BY <2>1, <2>2, <2>3 DEF InClose, Threads
  <2>5. /\ PoolUsable'
        /\ closed' \in [Sessions -> BOOLEAN] /\ \A t \in Sessions : closed'[t] => conn[t] = "open"
        /\ armed' \in [Sessions -> BOOLEAN] /\ \A t \in Sessions : armed'[t] => armed[t]
    <3>1. PICK s \in Sessions : s = sess[k]
      BY <2>2
    <3>2. InClose(s)'
      BY <2>1, <2>4, <3>1 DEF InClose
    <3> QED
      BY <2>1, <2>2, <2>4, <3>1, <3>2, SetClosedInv
  <2>6. QueueInv'
    BY <1>1, <2>1, <2>3, QueueOthers
  <2> QED
    BY <1>1, <1>2, <2>1, <2>3, <2>5, <2>6, EndedInv
<1>5. CASE Erase(k)
  <2>1. /\ call[k] \in {"closing", "destroying"} /\ CloseSession
        /\ call' = [call EXCEPT ![k] = IF Orphan THEN call[k]
                                       ELSE IF call[k] = "closing" THEN "throwing" ELSE "idle"]
        /\ UNCHANGED <<armed, closed, expired, sess>>
    BY <1>5 DEF Erase, queue
  <2>2. /\ call' \in [Threads -> CallStates] /\ \A d \in Threads : d # k => call'[d] = call[d]
        /\ \/ call'[k] = call[k] \/ call'[k] = "idle"
           \/ call[k] = "closing" /\ call'[k] = "throwing"
    BY <1>2, <2>1 DEF CallStates
  <2>3. PoolUsable'
    BY <2>1, Closed DEF PoolUsable
  <2>4. QueueInv'
    BY <1>1, <2>1, <2>2, QueueOthers
  <2> QED
    BY <1>1, <1>2, <2>1, <2>2, <2>3, <2>4, EndedInv
<1> QED
  BY <1>3, <1>4, <1>5 DEF Ending

-----------------------------------------------------------------------------
(* One request of a session is on its way at a time, the front's.           *)

flightVars == <<c2s, s2c, arrived, handling, rx, answers>>

\* The front of a queue waits for its answer.
LEMMA FrontWaits ==
  ASSUME SessionInv, NEW s \in Sessions, wq[s] # <<>>
  PROVE  /\ Head(wq[s]) \in Threads /\ Head(wq[s]) \in ToSet(wq[s])
         /\ call[Head(wq[s])] \in {"waiting", "async"}
         /\ Message(Head(wq[s])) \in Requests
<1>1. wq[s] \in Seq(Threads) /\ IsInjective(wq[s]) /\ ToSet(wq[s]) \subseteq Threads
  BY SetOfSeq DEF SessionInv, SessionTypes, QueueInv
<1>2. Head(wq[s]) \in ToSet(wq[s])
  BY <1>1, TailSet
<1>3. call[Head(wq[s])] \in {"waiting", "async"}
  BY <1>2 DEF SessionInv, QueueInv
<1>4. made[Head(wq[s])] \in Nat
  BY <1>1, <1>2 DEF SessionInv, SessionTypes
<1> QED
  BY <1>1, <1>2, <1>3, <1>4 DEF Message, Requests

\* A step that moves no message, and leaves the front of every queue.
LEMMA FlightSame ==
  ASSUME SessionInv, FlightTypes, FlightInv, OwnReply, UNCHANGED flightVars,
         \A s \in Sessions : wq[s] # <<>> =>
           wq'[s] # <<>> /\ Head(wq'[s]) = Head(wq[s]) /\ made'[Head(wq[s])] = made[Head(wq[s])],
         \A k \in Threads : call'[k] = "replied" =>
           call[k] = "replied" /\ reply'[k] = reply[k] /\ made'[k] = made[k]
  PROVE  FlightTypes' /\ FlightInv' /\ OwnReply'
<1>1. UNCHANGED <<c2s, s2c, arrived, handling, rx, answers>>
  BY DEF flightVars
<1>2. FlightTypes'
  BY <1>1 DEF FlightTypes
<1>3. OwnReply'
  BY DEF OwnReply, Message
<1>4. ASSUME NEW s \in Sessions
      PROVE  Nothing(s)' \/ (wq'[s] # <<>> /\ OneRequest(s, Message(Head(wq[s])))')
  <2>1. CASE Nothing(s)
    BY <1>1, <2>1 DEF Nothing, Flight
  <2>2. CASE wq[s] # <<>> /\ OneRequest(s, Message(Head(wq[s])))
    <3>1. PICK m : m = Message(Head(wq[s]))
      OBVIOUS
    <3>2. Message(Head(wq[s]))' = m
      BY <2>2, <3>1 DEF Message
    <3>3. OneRequest(s, m)'
      BY <1>1, <2>2, <3>1 DEF OneRequest, Flight
    <3> QED
      BY <2>2, <3>2, <3>3 DEF OneRequest, Flight
  <2> QED
    BY <2>1, <2>2 DEF FlightInv
<1> QED
  BY <1>2, <1>3, <1>4 DEF FlightInv

\* A message of a session goes one step further.
LEMMA FlightMoved ==
  ASSUME FlightInv, OwnReply, NEW s \in Sessions, UNCHANGED <<wq, made, call, reply>>,
         \A t \in Sessions \ {s} : /\ c2s'[t] = c2s[t] /\ s2c'[t] = s2c[t] /\ arrived'[t] = arrived[t]
                                   /\ handling'[t] = handling[t] /\ rx'[t] = rx[t] /\ answers'[t] = answers[t],
         NEW m, m = Message(Head(wq[s])), wq[s] # <<>>,
         Nothing(s)' \/ OneRequest(s, m)'
  PROVE  FlightInv' /\ OwnReply'
<1>1. OwnReply'
  BY DEF OwnReply, Message
<1>2. ASSUME NEW t \in Sessions
      PROVE  Nothing(t)' \/ (wq'[t] # <<>> /\ OneRequest(t, Message(Head(wq[t])))')
  <2>1. CASE t = s
    <3>1. Message(Head(wq[s]))' = m
      BY DEF Message
    <3> QED
      BY <2>1, <3>1 DEF OneRequest, Flight
  <2>2. CASE t # s
    <3>1. PICK x : x = Message(Head(wq[t]))
      OBVIOUS
    <3>2. Message(Head(wq[t]))' = x
      BY <3>1 DEF Message
    <3>3. Nothing(t) \/ (wq[t] # <<>> /\ OneRequest(t, x))
      BY <3>1 DEF FlightInv
    <3>4. Nothing(t)' \/ (wq'[t] # <<>> /\ OneRequest(t, x)')
      BY <2>2, <3>3 DEF Nothing, OneRequest, Flight
    <3> QED
      BY <3>2, <3>4 DEF OneRequest, Flight
  <2> QED
    BY <2>1, <2>2
<1> QED
  BY <1>1, <1>2 DEF FlightInv

\* The server reads the request.
LEMMA ServerReadFlight ==
  ASSUME SessionInv, FlightTypes, FlightInv, OwnReply, NEW s \in Sessions, ServerRead(s)
  PROVE  FlightTypes' /\ FlightInv' /\ OwnReply'
<1>1. /\ c2s[s] # <<>>
      /\ arrived' = [arrived EXCEPT ![s] = arrived[s] \cup {Head(c2s[s])}]
      /\ c2s' = [c2s EXCEPT ![s] = Tail(c2s[s])]
      /\ UNCHANGED <<handling, rx, s2c, answers, wq, made, call, reply>>
  BY DEF ServerRead, queue, callers
<1>2. PICK m : m = Message(Head(wq[s]))
  OBVIOUS
<1>3. wq[s] # <<>> /\ Flight(s, <<m>>, {}, {}, <<>>, {})
  BY <1>1, <1>2 DEF FlightInv, Nothing, OneRequest, Flight
<1>4. m \in Requests
  BY <1>2, <1>3, FrontWaits
<1>5. Head(<<m>>) = m /\ Tail(<<m>>) = <<>>
  OBVIOUS
<1>6. arrived' = [arrived EXCEPT ![s] = {m}] /\ c2s' = [c2s EXCEPT ![s] = <<>>]
  BY <1>1, <1>3, <1>5 DEF Flight
<1>7. Flight(s, <<>>, {m}, {}, <<>>, {})'
  BY <1>1, <1>3, <1>6 DEF Flight, FlightTypes
<1>8. FlightTypes'
  <2>1. <<>> \in Seq(Requests)
    OBVIOUS
  <2> QED
    BY <1>1, <1>4, <1>6, <2>1 DEF FlightTypes
<1>9. OneRequest(s, m)'
  BY <1>7 DEF OneRequest
<1>10. \A t \in Sessions \ {s} : arrived'[t] = arrived[t] /\ c2s'[t] = c2s[t]
  BY <1>6 DEF FlightTypes
<1> QED
  BY <1>1, <1>2, <1>3, <1>8, <1>9, <1>10, FlightMoved

\* The server's session takes it, or has no handler for it yet.
LEMMA ServerDispatchFlight ==
  ASSUME SessionInv, FlightTypes, FlightInv, OwnReply, NEW s \in Sessions, ServerDispatch(s)
  PROVE  FlightTypes' /\ FlightInv' /\ OwnReply'
<1>1. PICK x \in arrived[s] :
        /\ arrived' = [arrived EXCEPT ![s] = arrived[s] \ {x}]
        /\ \/ rx' = [rx EXCEPT ![s] = x] /\ handling' = [handling EXCEPT ![s] = handling[s] \cup {x}]
           \/ UNCHANGED <<rx, handling>>
  BY DEF ServerDispatch
<1>2. UNCHANGED <<c2s, s2c, answers, wq, made, call, reply>>
  BY DEF ServerDispatch, queue, callers
<1>3. PICK m : m = Message(Head(wq[s]))
  OBVIOUS
<1>4. wq[s] # <<>> /\ Flight(s, <<>>, {m}, {}, <<>>, {})
  BY <1>1, <1>3 DEF FlightInv, Nothing, OneRequest, Flight
<1>5. m \in Requests /\ x = m
  BY <1>1, <1>3, <1>4, FrontWaits DEF Flight
<1>6. /\ arrived' = [arrived EXCEPT ![s] = {}]
      /\ \/ rx' = [rx EXCEPT ![s] = m] /\ handling' = [handling EXCEPT ![s] = {m}]
         \/ UNCHANGED <<rx, handling>>
  BY <1>1, <1>4, <1>5 DEF Flight
<1>7. Nothing(s)' \/ OneRequest(s, m)'
  BY <1>2, <1>4, <1>6 DEF Nothing, OneRequest, Flight, FlightTypes
<1>8. FlightTypes'
  <2>1. arrived \in [Sessions -> SUBSET Requests] /\ rx \in [Sessions -> Requests \cup {<<>>}]
        /\ handling \in [Sessions -> SUBSET Requests]
    BY DEF FlightTypes
  <2>2. arrived' \in [Sessions -> SUBSET Requests]
    BY <1>6, <2>1
  <2>3. rx' \in [Sessions -> Requests \cup {<<>>}]
    BY <1>5, <1>6, <2>1
  <2>4. {m} \in SUBSET Requests
    BY <1>5
  <2>5. handling' \in [Sessions -> SUBSET Requests]
    <3>1. CASE handling' = [handling EXCEPT ![s] = {m}]
      BY <2>1, <2>4, <3>1
    <3>2. CASE UNCHANGED handling
      BY <2>1, <3>2
    <3> QED
      BY <1>6, <3>1, <3>2
  <2>6. /\ c2s' \in [Sessions -> Seq(Requests)] /\ s2c' \in [Sessions -> Seq(Requests)]
        /\ answers' \in [Sessions -> SUBSET Requests]
    BY <1>2 DEF FlightTypes
  <2> QED
    BY <2>2, <2>3, <2>5, <2>6 DEF FlightTypes
<1>9. \A t \in Sessions \ {s} : arrived'[t] = arrived[t] /\ rx'[t] = rx[t] /\ handling'[t] = handling[t]
  BY <1>6 DEF FlightTypes
<1> QED
  BY <1>2, <1>3, <1>4, <1>7, <1>8, <1>9, FlightMoved

\* The answer is what rx_buffer_ holds, and it holds the request that is handled.
LEMMA ServerReplyFlight ==
  ASSUME SessionInv, FlightTypes, FlightInv, OwnReply, NEW s \in Sessions, ServerReply(s)
  PROVE  FlightTypes' /\ FlightInv' /\ OwnReply'
<1>1. PICK x \in handling[s] :
        /\ handling' = [handling EXCEPT ![s] = handling[s] \ {x}]
        /\ s2c' = [s2c EXCEPT ![s] = Append(s2c[s], rx[s])] \/ UNCHANGED s2c
  BY DEF ServerReply
<1>2. UNCHANGED <<c2s, arrived, rx, answers, wq, made, call, reply>>
  BY DEF ServerReply, queue, callers
<1>3. PICK m : m = Message(Head(wq[s]))
  OBVIOUS
<1>4. wq[s] # <<>> /\ Flight(s, <<>>, {}, {m}, <<>>, {}) /\ rx[s] = m
  BY <1>1, <1>3 DEF FlightInv, Nothing, OneRequest, Flight
<1>5. m \in Requests /\ x = m
  BY <1>1, <1>3, <1>4, FrontWaits DEF Flight
<1>6. /\ handling' = [handling EXCEPT ![s] = {}]
      /\ s2c' = [s2c EXCEPT ![s] = <<m>>] \/ UNCHANGED s2c
  <2>1. Append(<<>>, m) = <<m>>
    OBVIOUS
  <2> QED
    BY <1>1, <1>4, <1>5, <2>1 DEF Flight
<1>7. Nothing(s)' \/ OneRequest(s, m)'
  BY <1>2, <1>4, <1>6 DEF Nothing, OneRequest, Flight, FlightTypes
<1>8. FlightTypes'
  <2>1. <<m>> \in Seq(Requests)
    BY <1>5
  <2> QED
    BY <1>2, <1>6, <2>1 DEF FlightTypes
<1>9. \A t \in Sessions \ {s} : handling'[t] = handling[t] /\ s2c'[t] = s2c[t]
  BY <1>6 DEF FlightTypes
<1> QED
  BY <1>2, <1>3, <1>4, <1>7, <1>8, <1>9, FlightMoved

\* The client's read thread posts the answer.
LEMMA ClientReadFlight ==
  ASSUME SessionInv, FlightTypes, FlightInv, OwnReply, NEW s \in Sessions, ClientRead(s)
  PROVE  FlightTypes' /\ FlightInv' /\ OwnReply'
<1>1. /\ s2c[s] # <<>>
      /\ answers' = [answers EXCEPT ![s] = answers[s] \cup {Head(s2c[s])}]
      /\ s2c' = [s2c EXCEPT ![s] = Tail(s2c[s])]
      /\ UNCHANGED <<handling, rx, c2s, arrived, wq, made, call, reply>>
  BY DEF ClientRead, queue, callers, server
<1>2. PICK m : m = Message(Head(wq[s]))
  OBVIOUS
<1>3. wq[s] # <<>> /\ Flight(s, <<>>, {}, {}, <<m>>, {})
  BY <1>1, <1>2 DEF FlightInv, Nothing, OneRequest, Flight
<1>4. m \in Requests
  BY <1>2, <1>3, FrontWaits
<1>5. Head(<<m>>) = m /\ Tail(<<m>>) = <<>>
  OBVIOUS
<1>6. answers' = [answers EXCEPT ![s] = {m}] /\ s2c' = [s2c EXCEPT ![s] = <<>>]
  BY <1>1, <1>3, <1>5 DEF Flight
<1>7. Flight(s, <<>>, {}, {}, <<>>, {m})'
  BY <1>1, <1>3, <1>6 DEF Flight, FlightTypes
<1>8. FlightTypes'
  <2>1. <<>> \in Seq(Requests)
    OBVIOUS
  <2> QED
    BY <1>1, <1>4, <1>6, <2>1 DEF FlightTypes
<1>9. OneRequest(s, m)'
  BY <1>7 DEF OneRequest
<1>10. \A t \in Sessions \ {s} : answers'[t] = answers[t] /\ s2c'[t] = s2c[t]
  BY <1>6 DEF FlightTypes
<1> QED
  BY <1>1, <1>2, <1>3, <1>8, <1>9, <1>10, FlightMoved

\* A queue is executed when nothing of its session is on the way.
LEMMA ExecuteFlight ==
  ASSUME SessionInv, FlightTypes, FlightInv, NEW s \in Sessions,
         NEW q \in Seq(Threads), IsInjective(q), Execute(s, q),
         UNCHANGED <<arrived, handling, rx, s2c, made>>,
         answers' \in [Sessions -> SUBSET Requests], answers'[s] = {},
         \A t \in Sessions \ {s} : answers'[t] = answers[t],
         c2s[s] = <<>>, arrived[s] = {}, handling[s] = {}, s2c[s] = <<>>
  PROVE  FlightTypes' /\ FlightInv'
<1>1. /\ wq' \in [Sessions -> Seq(Threads)]
      /\ \A t \in Sessions : t # s => wq'[t] = wq[t]
      /\ \/ c2s' = c2s
         \/ wq'[s] # <<>> /\ c2s' = [c2s EXCEPT ![s] = Append(@, Message(Head(wq'[s])))]
  BY Executed
<1>2. PICK m : m = Message(Head(wq'[s]))
  OBVIOUS
<1>3. \/ c2s' = c2s
      \/ wq'[s] # <<>> /\ c2s' = [c2s EXCEPT ![s] = <<m>>]
  <2>1. Append(<<>>, m) = <<m>>
    OBVIOUS
  <2> QED
    BY <1>1, <1>2, <2>1
<1>4. wq'[s] # <<>> => m \in Requests
  <2> SUFFICES ASSUME wq'[s] # <<>> PROVE m \in Requests
    OBVIOUS
  <2>1. wq'[s] \in Seq(Threads)
    BY <1>1
  <2>2. Head(wq'[s]) \in Threads
    BY <2>1
  <2>3. made[Head(wq'[s])] \in Nat
    BY <2>2 DEF SessionInv, SessionTypes
  <2> QED
    BY <1>2, <2>2, <2>3 DEF Message, Requests
<1>5. c2s' \in [Sessions -> Seq(Requests)]
  <2>1. m \in Requests => <<m>> \in Seq(Requests)
    OBVIOUS
  <2> QED
    BY <1>3, <1>4, <2>1 DEF FlightTypes
<1>6. FlightTypes'
  BY <1>5 DEF FlightTypes
<1>7. ASSUME NEW t \in Sessions
      PROVE  Nothing(t)' \/ (wq'[t] # <<>> /\ OneRequest(t, Message(Head(wq[t])))')
  <2>1. CASE t = s
    <3>1. CASE c2s' = c2s
      BY <2>1, <3>1 DEF Nothing, Flight
    <3>2. CASE wq'[s] # <<>> /\ c2s' = [c2s EXCEPT ![s] = <<m>>]
      <4>1. Flight(s, <<m>>, {}, {}, <<>>, {})'
        BY <3>2 DEF Flight, FlightTypes
      <4>2. Message(Head(wq[s]))' = m
        BY <1>2 DEF Message
      <4> QED
        BY <2>1, <3>2, <4>1, <4>2 DEF OneRequest, Flight
    <3> QED
      BY <1>3, <3>1, <3>2
  <2>2. CASE t # s
    <3>1. PICK x : x = Message(Head(wq[t]))
      OBVIOUS
    <3>2. Message(Head(wq[t]))' = x
      BY <1>1, <2>2, <3>1 DEF Message
    <3>3. Nothing(t) \/ (wq[t] # <<>> /\ OneRequest(t, x))
      BY <3>1 DEF FlightInv
    <3>4. c2s'[t] = c2s[t] /\ answers'[t] = answers[t] /\ wq'[t] = wq[t]
      BY <1>1, <1>3, <2>2 DEF FlightTypes
    <3>5. Nothing(t)' \/ (wq'[t] # <<>> /\ OneRequest(t, x)')
      BY <3>3, <3>4 DEF Nothing, OneRequest, Flight
    <3> QED
      BY <3>2, <3>5 DEF OneRequest, Flight
  <2> QED
    BY <2>1, <2>2
<1> QED
  BY <1>6, <1>7 DEF FlightInv

\* A posted work sends its request only when it is alone.
LEMMA AddWorkFlight ==
  ASSUME SessionInv, FlightTypes, FlightInv, OwnReply, NEW s \in Sessions, AddWork(s)
  PROVE  FlightTypes' /\ FlightInv' /\ OwnReply'
<1>1. PICK k \in works[s] :
        IF wq[s] = <<>>
        THEN Execute(s, <<k>>) /\ call' = Fail(call, <<k>>)
        ELSE wq' = [wq EXCEPT ![s] = Append(@, k)] /\ UNCHANGED <<armed, stuck, c2s, call>>
  BY DEF AddWork
<1>2. UNCHANGED <<s2c, answers, arrived, handling, rx, made, reply>>
  BY DEF AddWork, server
<1>3. k \in Threads /\ wq \in [Sessions -> Seq(Threads)]
  BY DEF SessionInv, SessionTypes
<1>4. CASE wq[s] # <<>>
  <2>1. wq' = [wq EXCEPT ![s] = Append(wq[s], k)] /\ UNCHANGED <<c2s, call>>
    BY <1>1, <1>4
  <2>2. ASSUME NEW t \in Sessions, wq[t] # <<>> PROVE wq'[t] # <<>> /\ Head(wq'[t]) = Head(wq[t])
    <3>1. CASE t # s
      BY <1>3, <2>1, <2>2, <3>1
    <3>2. CASE t = s
      <4>1. wq'[s] = Append(wq[s], k) /\ wq[s] \in Seq(Threads)
        BY <1>3, <2>1
      <4>2. Append(wq[s], k) # <<>> /\ Head(Append(wq[s], k)) = Head(wq[s])
        BY <1>3, <1>4, <4>1
      <4> QED
        BY <3>2, <4>1, <4>2
    <3> QED
      BY <3>1, <3>2
  <2> QED
    BY <1>2, <2>1, <2>2, FlightSame DEF flightVars
<1>5. CASE wq[s] = <<>>
  <2>1. PICK q : q = <<k>>
    OBVIOUS
  <2>2. Execute(s, q) /\ call' = Fail(call, q)
    BY <1>1, <1>5, <2>1
  <2>3. q \in Seq(Threads) /\ IsInjective(q)
    <3>1. /\ <<k>> \in Seq(Threads) /\ Len(<<k>>) = 1 /\ <<k>>[1] = k
      BY <1>3
    <3>2. q \in Seq(Threads) /\ Len(q) = 1
      BY <2>1, <3>1
    <3> QED
      BY <3>2, InjectiveSeq
  <2>4. Nothing(s)
    BY <1>5 DEF FlightInv
  <2>5. c2s[s] = <<>> /\ arrived[s] = {} /\ handling[s] = {} /\ s2c[s] = <<>> /\ answers[s] = {}
    BY <2>4 DEF Nothing, Flight
  <2>6. FlightTypes' /\ FlightInv'
    BY <1>2, <2>2, <2>3, <2>5, ExecuteFlight DEF FlightTypes
  <2>7. \A d \in Threads : call'[d] = "replied" => call[d] = "replied"
    BY <2>2 DEF Fail
  <2>8. OwnReply'
    BY <1>2, <2>7 DEF OwnReply, Message
  <2> QED
    BY <2>6, <2>8
<1> QED
  BY <1>4, <1>5

\* The answer is the front's, and nothing else is on the way.
LEMMA OnDataFlight ==
  ASSUME SessionInv, FlightTypes, FlightInv, OwnReply, NEW s \in Sessions, OnData(s)
  PROVE  FlightTypes' /\ FlightInv' /\ OwnReply'
<1>1. PICK x \in answers[s] :
        /\ answers' = [answers EXCEPT ![s] = answers[s] \ {x}]
        /\ IF wq[s] = <<>>
           THEN UNCHANGED <<reply, stuck, call, wq, armed, c2s>>
           ELSE LET k == Head(wq[s]) IN
                /\ reply' = [reply EXCEPT ![k] = x]
                /\ IF k \in AsyncCallers
                   THEN stuck' = [stuck EXCEPT ![s] = TRUE] /\ UNCHANGED <<call, wq, armed, c2s>>
                   ELSE /\ call' = Fail([call EXCEPT ![k] = "replied"], Tail(wq[s]))
                        /\ Execute(s, Tail(wq[s]))
  BY DEF OnData
<1>2. UNCHANGED <<s2c, arrived, handling, rx, made>>
  BY DEF OnData, server
<1>3. PICK m : m = Message(Head(wq[s]))
  OBVIOUS
<1>4. wq[s] # <<>> /\ Flight(s, <<>>, {}, {}, <<>>, {m})
  BY <1>1, <1>3 DEF FlightInv, Nothing, OneRequest, Flight
<1>5. x = m /\ answers' = [answers EXCEPT ![s] = {}]
  BY <1>1, <1>4 DEF Flight
<1>6. answers' \in [Sessions -> SUBSET Requests] /\ answers'[s] = {}
      /\ \A t \in Sessions \ {s} : answers'[t] = answers[t]
  BY <1>5 DEF FlightTypes
<1>7. PICK k : k = Head(wq[s])
  OBVIOUS
<1>8. PICK q : q = Tail(wq[s])
  OBVIOUS
<1>9. /\ reply' = [reply EXCEPT ![k] = m]
      /\ IF k \in AsyncCallers
         THEN UNCHANGED <<call, wq, c2s>>
         ELSE call' = Fail([call EXCEPT ![k] = "replied"], q) /\ Execute(s, q)
  BY <1>1, <1>4, <1>5, <1>7, <1>8
<1>10. k \in Threads /\ call[k] \in {"waiting", "async"} /\ m = Message(k) /\ k \in ToSet(wq[s])
  BY <1>3, <1>4, <1>7, FrontWaits
<1>11. /\ reply'[k] = m /\ \A d \in Threads : d # k => reply'[d] = reply[d]
  BY <1>9, <1>10 DEF SessionInv, SessionTypes
<1>12. CASE k \in AsyncCallers
  <2>1. UNCHANGED <<call, wq, c2s>>
    BY <1>9, <1>12
  <2>2. OwnReply'
    BY <1>2, <1>10, <1>11, <2>1 DEF OwnReply, Message
  <2>3. FlightTypes'
    BY <1>2, <1>6, <2>1 DEF FlightTypes
  <2>4. ASSUME NEW t \in Sessions
        PROVE  Nothing(t)' \/ (wq'[t] # <<>> /\ OneRequest(t, Message(Head(wq[t])))')
    <3>1. CASE t = s
      BY <1>2, <1>4, <1>6, <2>1, <3>1 DEF Nothing, Flight
    <3>2. CASE t # s
      <4>1. PICK y : y = Message(Head(wq[t]))
        OBVIOUS
      <4>2. Message(Head(wq[t]))' = y
        BY <1>2, <2>1, <4>1 DEF Message
      <4>3. Nothing(t) \/ (wq[t] # <<>> /\ OneRequest(t, y))
        BY <4>1 DEF FlightInv
      <4>4. Nothing(t)' \/ (wq'[t] # <<>> /\ OneRequest(t, y)')
        BY <1>2, <1>6, <2>1, <3>2, <4>3 DEF Nothing, OneRequest, Flight
      <4> QED
        BY <4>2, <4>4 DEF OneRequest, Flight
    <3> QED
      BY <3>1, <3>2
  <2> QED
    BY <2>2, <2>3, <2>4 DEF FlightInv
<1>13. CASE k \notin AsyncCallers
  <2>1. call' = Fail([call EXCEPT ![k] = "replied"], q) /\ Execute(s, q)
    BY <1>9, <1>13
  <2>2. q \in Seq(Threads) /\ IsInjective(q)
    BY <1>4, <1>8, TailSet DEF SessionInv, SessionTypes, QueueInv
  <2>3. FlightTypes' /\ FlightInv'
    BY <1>2, <1>4, <1>6, <2>1, <2>2, ExecuteFlight DEF Flight
  <2>4. \A d \in Threads : d # k /\ call'[d] = "replied" => call[d] = "replied"
    BY <2>1 DEF Fail, SessionInv, SessionTypes
  <2>5. OwnReply'
    BY <1>2, <1>10, <1>11, <2>4 DEF OwnReply, Message
  <2> QED
    BY <2>3, <2>5
<1> QED
  BY <1>12, <1>13

\* The other steps move no message.
LEMMA OtherFlight ==
  ASSUME SessionInv, FlightTypes, FlightInv, OwnReply,
         \/ \E w \in Clients : Connecting(w)
         \/ Accept \/ AcceptHandler
         \/ \E k \in Threads : Ending(k) \/ GetSession(k) \/ NewSession(k)
         \/ \E s \in Sessions : Timer(s) \/ TimerErase(s)
         \/ UNCHANGED vars
  PROVE  FlightTypes' /\ FlightInv' /\ OwnReply'
<1>1. \A s \in Sessions : wq[s] # <<>> => call[Head(wq[s])] # "idle"
  BY FrontWaits
<1>2. /\ call \in [Threads -> CallStates] /\ made \in [Threads -> Nat]
  BY DEF SessionInv, SessionTypes
<1>3. CASE \E w \in Clients : Claim(w) \/ CopyHandshake(w) \/ PublishHandshake(w)
  BY <1>3, FlightSame DEF Claim, CopyHandshake, PublishHandshake, flightVars, server, queue, callers
<1>4. CASE \E w \in Clients : Connected(w) \/ NotConnected(w)
  <2>1. UNCHANGED <<flightVars, wq, made, reply>>
    BY <1>4 DEF Connected, NotConnected, flightVars, server, queue, callers
  <2>2. \A d \in Threads : call'[d] = "replied" => call[d] = "replied"
    BY <1>2, <1>4 DEF Connected, NotConnected, Post, callers
  <2> QED
    BY <2>1, <2>2, FlightSame
<1>5. CASE Accept \/ AcceptHandler
  BY <1>5, FlightSame DEF Accept, AcceptHandler, flightVars, queue, callers
<1>6. CASE (\E k \in Threads : Ending(k)) \/ \E s \in Sessions : Timer(s) \/ TimerErase(s)
  <2>1. UNCHANGED <<flightVars, wq, made, reply>>
    BY <1>6 DEF Ending, Return, FailClose, Erase, Throw, Release, Timer, TimerErase, flightVars, server, queue, callers
  <2>2. \A d \in Threads : call'[d] = "replied" => call[d] = "replied"
    BY <1>2, <1>6 DEF Ending, Return, FailClose, Erase, Throw, Release, Timer, TimerErase, callers
  <2> QED
    BY <2>1, <2>2, FlightSame
<1>7. CASE \E k \in Threads : GetSession(k) \/ NewSession(k)
  <2>1. PICK k \in Threads : GetSession(k) \/ NewSession(k)
    BY <1>7
  <2>2. UNCHANGED <<flightVars, wq, reply>> /\ call[k] = "idle" /\ made' = [made EXCEPT ![k] = @ + 1]
    BY <2>1 DEF GetSession, NewSession, flightVars, server, queue
  <2>3. \A d \in Threads : d # k => made'[d] = made[d]
    BY <1>2, <2>2
  <2>4. \A d \in Threads : call'[d] = "replied" => call[d] = "replied" /\ d # k
    BY <1>2, <2>1, <2>2 DEF GetSession, NewSession, Post
  <2>5. \A s \in Sessions : wq[s] # <<>> => made'[Head(wq[s])] = made[Head(wq[s])]
    BY <1>1, <2>2, <2>3, FrontWaits
  <2> QED
    BY <2>2, <2>3, <2>4, <2>5, FlightSame
<1>8. CASE UNCHANGED vars
  BY <1>8, FlightSame DEF vars, flightVars, server, queue, callers
<1> QED
  BY <1>3, <1>4, <1>5, <1>6, <1>7, <1>8 DEF Connecting
-----------------------------------------------------------------------------
\* The inductive invariant, and what it gives.
Inv == ConnTypes /\ HandshakeInv /\ SessionInv /\ FlightTypes /\ FlightInv /\ OwnReply

\* Nobody has connected: the connecting clients.
LEMMA InitRing == Init => ConnTypes /\ HandshakeInv
<1> SUFFICES ASSUME Init PROVE ConnTypes /\ HandshakeInv
  OBVIOUS
<1>1. /\ slots = [i \in 0 .. Capacity |-> None] /\ next_slot = 0 /\ first_slot = 0
      /\ at = [w \in Clients |-> 0] /\ overlapped = FALSE
      /\ conn = [w \in Clients |-> "none"] /\ chan = [w \in Clients |-> "none"]
  BY DEF Init, Capacity
<1>2. ConnTypes
  <2>1. slots \in [0 .. Capacity -> Clients \cup {None, Mixed}]
    BY <1>1
  <2>2. at \in [Clients -> Nat]
    BY <1>1
  <2>3. conn \in [Clients -> ConnStates] /\ chan \in [Clients -> {"none", "rings", "set"}]
    BY <1>1 DEF ConnStates
  <2> QED
    BY <1>1, <2>1, <2>2, <2>3 DEF ConnTypes
<1>3. Published = {} /\ \A w \in Clients : ~ InTryWrite(w) /\ conn[w] = "none"
  BY <1>1 DEF Published, InTryWrite
<1>4. Cardinality(Published) = 0
  BY <1>3, FS_EmptySet
<1> QED
  BY <1>1, <1>2, <1>3, <1>4 DEF HandshakeInv, HandshakeKept

\* No thread has called: the sessions.
LEMMA InitSession == Init => SessionInv
<1> SUFFICES ASSUME Init PROVE SessionInv
  OBVIOUS
<1> DEFINE e == <<>>
<1>0. e = <<>> /\ e \in Seq(Threads) /\ e \in Seq(Sessions) /\ Len(e) = 0
  OBVIOUS
<1> HIDE DEF e
<1>1. /\ conn = [w \in Clients |-> "none"] /\ works = [s \in Sessions |-> {}]
      /\ wq = [s \in Sessions |-> e] /\ stuck = [s \in Sessions |-> FALSE]
      /\ armed = [s \in Sessions |-> FALSE] /\ closed = [s \in Sessions |-> FALSE]
      /\ expired = [s \in Sessions |-> FALSE]
      /\ pool = e /\ lock = None /\ call = [k \in Threads |-> "idle"]
      /\ sess = [k \in Threads |-> 0] /\ made = [k \in Threads |-> 0]
      /\ reply = [k \in Threads |-> e]
  BY <1>0 DEF Init
<1>2. SessionTypes
  <2>1. works \in [Sessions -> SUBSET Threads] /\ wq \in [Sessions -> Seq(Threads)]
    BY <1>0, <1>1
  <2>2. /\ armed \in [Sessions -> BOOLEAN] /\ closed \in [Sessions -> BOOLEAN]
        /\ stuck \in [Sessions -> BOOLEAN] /\ expired \in [Sessions -> BOOLEAN]
    BY <1>1
  <2>3. call \in [Threads -> CallStates] /\ sess \in [Threads -> Sessions \cup {0}]
    BY <1>1 DEF CallStates
  <2>4. made \in [Threads -> Nat] /\ reply \in [Threads -> Requests \cup {<<>>}]
    BY <1>0, <1>1
  <2> QED
    BY <1>0, <1>1, <2>1, <2>2, <2>3, <2>4 DEF SessionTypes
<1>3. ConnectInv
  <2>1. lock \notin Threads
    BY <1>1, SharedMemoryAssumption
  <2>2. \A s \in Sessions : conn[s] = "none"
    BY <1>1 DEF Clients
  <2>3. \A k \in Threads : call[k] = "idle"
    BY <1>1
  <2> QED
    BY <2>1, <2>2, <2>3 DEF ConnectInv
<1>4. \A s : ~ Contains(pool, s)
  BY <1>0, <1>1 DEF Contains
<1>5. OpenInv
  BY <1>0, <1>1, <1>4 DEF OpenInv, PoolUsable
<1>6. ToSet(e) = {} /\ IsInjective(e)
  BY <1>0 DEF ToSet, IsInjective
<1>7. QueueInv
  BY <1>1, <1>6 DEF QueueInv
<1> QED
  BY <1>2, <1>3, <1>5, <1>7 DEF SessionInv

\* Nothing is on the way.
LEMMA InitFlight == Init => FlightTypes /\ FlightInv /\ OwnReply
<1> SUFFICES ASSUME Init PROVE FlightTypes /\ FlightInv /\ OwnReply
  OBVIOUS
<1> DEFINE e == <<>>
<1>0. e = <<>> /\ e \in Seq(Requests)
  OBVIOUS
<1> HIDE DEF e
<1>1. /\ c2s = [s \in Sessions |-> e] /\ s2c = [s \in Sessions |-> e]
      /\ arrived = [s \in Sessions |-> {}] /\ handling = [s \in Sessions |-> {}]
      /\ rx = [s \in Sessions |-> e] /\ answers = [s \in Sessions |-> {}]
  BY <1>0 DEF Init
<1>2. c2s \in [Sessions -> Seq(Requests)] /\ s2c \in [Sessions -> Seq(Requests)]
  BY <1>0, <1>1
<1>3. /\ arrived \in [Sessions -> SUBSET Requests] /\ handling \in [Sessions -> SUBSET Requests]
      /\ answers \in [Sessions -> SUBSET Requests]
  BY <1>1
<1>4. rx \in [Sessions -> Requests \cup {<<>>}]
  BY <1>0, <1>1
<1>5. \A s \in Sessions : Nothing(s)
  BY <1>0, <1>1 DEF Nothing, Flight
<1>6. \A k \in Threads : call[k] = "idle"
  BY DEF Init
<1> QED
  BY <1>2, <1>3, <1>4, <1>5, <1>6 DEF FlightTypes, FlightInv, OwnReply

\* Every step keeps what is true of the connecting clients.
LEMMA NextRing ==
  ASSUME ConnTypes, HandshakeInv, SessionInv, [Next]_vars
  PROVE  ConnTypes' /\ HandshakeInv'
<1>0. Sessions \subseteq Clients
  BY DEF Clients
<1>1. ASSUME NEW w \in Clients, Connecting(w) PROVE ConnTypes' /\ HandshakeInv'
  <2>1. CASE Claim(w)
    BY <2>1, ClaimRing
  <2>2. CASE CopyHandshake(w)
    BY <2>2, CopyRing
  <2>3. CASE PublishHandshake(w)
    BY <2>3, PublishRing
  <2>4. CASE Connected(w)
    BY <2>4, ConnectedInv, ConnMoved DEF ConnStates
  <2>5. CASE NotConnected(w)
    BY <2>5, NotConnectedInv, ConnMoved DEF ConnStates
  <2> QED
    BY <1>1, <2>1, <2>2, <2>3, <2>4, <2>5 DEF Connecting
<1>2. CASE Accept \/ AcceptHandler
  BY <1>2, AcceptRing
<1>3. ASSUME NEW k \in Threads, Ending(k) PROVE UNCHANGED <<ring, conn, chan>>
  BY <1>3 DEF Ending, Return, FailClose, Erase, Throw, server
<1>4. ASSUME NEW s \in Sessions, Running(s) PROVE UNCHANGED <<ring, conn, chan>>
  BY <1>4 DEF Running, AddWork, OnData, ClientRead, ServerRead, ServerDispatch, ServerReply, server
<1>5. ASSUME NEW k \in Threads, GetSession(k) PROVE UNCHANGED <<ring, conn, chan>>
  BY <1>5 DEF GetSession, server
<1>6. ASSUME NEW k \in Threads, NewSession(k) PROVE ConnTypes' /\ HandshakeInv'
  <2>1. UNCHANGED <<ring, chan>> /\ \E s \in Sessions : conn[s] = "none" /\ conn' = [conn EXCEPT ![s] = "begun"]
    BY <1>6, NewSessionInv
  <2> QED
    BY <1>0, <2>1, ConnMoved DEF ConnStates
<1>7. ASSUME NEW s \in Sessions, Timer(s) \/ TimerErase(s) PROVE UNCHANGED <<ring, conn, chan>>
  BY <1>7 DEF Timer, TimerErase, server
<1>8. CASE UNCHANGED vars
  BY <1>8, RingSame DEF vars, server
<1> QED
  BY <1>1, <1>2, <1>3, <1>4, <1>5, <1>6, <1>7, <1>8, RingSame DEF Next, Progress

\* Every step keeps what is true of the sessions and the threads.
LEMMA NextSession ==
  ASSUME ConnTypes, SessionInv, FlightTypes, [Next]_vars
  PROVE  SessionInv'
<1>1. ASSUME NEW w \in Clients, Connecting(w) PROVE SessionInv'
  BY <1>1, ConnectingSession, ConnectedInv, NotConnectedInv DEF Connecting
<1>2. CASE Accept \/ AcceptHandler
  BY <1>2, SessionSame DEF Accept, AcceptHandler, sessionVars
<1>3. ASSUME NEW k \in Threads, Ending(k) PROVE SessionInv'
  BY <1>3, EndingInv
<1>4. ASSUME NEW s \in Sessions, Running(s) PROVE SessionInv'
  <2>1. CASE AddWork(s)
    BY <2>1, AddWorkInv
  <2>2. CASE OnData(s)
    BY <2>2, OnDataInv
  <2>3. CASE ClientRead(s) \/ ServerRead(s) \/ ServerDispatch(s) \/ ServerReply(s)
    BY <2>3, SessionSame DEF ClientRead, ServerRead, ServerDispatch, ServerReply, sessionVars
  <2> QED
    BY <1>4, <2>1, <2>2, <2>3 DEF Running
<1>5. ASSUME NEW k \in Threads, GetSession(k) \/ NewSession(k) PROVE SessionInv'
  BY <1>5, GetSessionInv, NewSessionInv
<1>6. ASSUME NEW s \in Sessions, Timer(s) \/ TimerErase(s) PROVE SessionInv'
  BY <1>6, TimerInv, TimerEraseInv
<1>7. CASE UNCHANGED vars
  BY <1>7, SessionSame DEF vars, sessionVars
<1> QED
  BY <1>1, <1>2, <1>3, <1>4, <1>5, <1>6, <1>7 DEF Next, Progress

\* Every step keeps one request of a session on the way.
LEMMA NextFlight ==
  ASSUME SessionInv, FlightTypes, FlightInv, OwnReply, [Next]_vars
  PROVE  FlightTypes' /\ FlightInv' /\ OwnReply'
<1>1. ASSUME NEW s \in Sessions, Running(s) PROVE FlightTypes' /\ FlightInv' /\ OwnReply'
  BY <1>1, AddWorkFlight, OnDataFlight, ClientReadFlight, ServerReadFlight, ServerDispatchFlight,
     ServerReplyFlight DEF Running
<1> QED
  BY <1>1, OtherFlight DEF Next, Progress

\* The invariant holds in every state of every behaviour.
LEMMA Invariant == Spec => []Inv
<1>1. Init => Inv
  BY InitRing, InitSession, InitFlight DEF Inv
<1>2. Inv /\ [Next]_vars => Inv'
  BY NextRing, NextSession, NextFlight DEF Inv
<1> QED
  BY <1>1, <1>2, PTL DEF Spec

\* A client that waits for its rings has its handshake in the accept ring, or
\* its channel is made, as long as clients have connected one at a time
\* (shared_memory_listener.cpp:198): for any number of processes that connect.
THEOREM ClientsAreNotForgotten == Spec => []HandshakeKept
<1>1. Inv => HandshakeKept
  BY DEF Inv, HandshakeInv, HandshakeKept
<1> QED
  BY <1>1, Invariant, PTL

\* A session whose close() has returned is not in the list, so that get_session
\* returns a closed one only while somebody is between the two steps of its
\* close() (nprpc_impl.hpp:357, rpc_impl.cpp:62, :147): close_session erases
\* whatever session is first, but there is no other in the list, because a
\* session is made only when the list is empty and with connections_mut_ held
\* until it is in the list.
THEOREM ClosedSessionsLeave == Spec => []PoolUsable
<1>1. Inv => PoolUsable
  BY DEF Inv, SessionInv, OpenInv
<1> QED
  BY <1>1, Invariant, PTL

\* A call that returns has the answer to its own request, although messages
\* carry no number (shared_memory_connection.cpp:197): whatever is on the way in
\* a session is the one request of its front, or the answer to it.
THEOREM CallersGetTheirAnswers == Spec => []OwnReply
<1>1. Inv => OwnReply
  BY DEF Inv
<1> QED
  BY <1>1, Invariant, PTL
=============================================================================
