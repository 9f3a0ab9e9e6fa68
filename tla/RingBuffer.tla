----------------------------- MODULE RingBuffer -----------------------------
(***************************************************************************)
(* nprpc::impl::LockFreeRingBuffer: a circular byte array in shared        *)
(* memory, written by try_write and read by read_with_timeout, the latter  *)
(* called in a loop by the thread that owns the reading end.               *)
(*                                                                         *)
(* A record in the ring is a HeaderSize byte length followed by the        *)
(* payload, and either part may wrap around.  A cell of data_region holds  *)
(* either byte number "at" of the encoding of a length or byte number "at" *)
(* of the payload of a message; a payload itself is never looked into.     *)
(*                                                                         *)
(* Writers is a set because nothing in the class stops several processes   *)
(* from calling try_write on one ring: the rings of a channel have one     *)
(* writer, the accept ring of a listener has one per connecting client.    *)
(***************************************************************************)
EXTENDS Integers, Sequences, FiniteSets

CONSTANTS
  Writers,          \* threads that call try_write
  Reader,           \* the thread that calls read_with_timeout
  Free,             \* the interprocess mutex when nobody holds it
  Messages,         \* what may be written
  Size,             \* Size[m]: bytes of m
  BufferSize,       \* RingBufferHeader::buffer_size
  HeaderSize,       \* sizeof(uint32_t)
  MaxMessageSize,   \* RingBufferHeader::max_message_size
  ReadSize,         \* buffer_size argument of the reads
  MaxWrites         \* bound: messages published in a behaviour

ASSUME WritersAssumption == Reader \notin Writers /\ Free \notin Writers \cup {Reader}
ASSUME SizesAssumption ==
  /\ BufferSize \in Nat \ {0, 1}
  /\ HeaderSize \in Nat \ {0}
  /\ MaxMessageSize \in Nat
  /\ ReadSize \in Nat
  /\ MaxWrites \in Nat
  /\ Size \in [Messages -> Nat \ {0}]

VARIABLES
  data_region,  \* the bytes
  write_idx,
  read_idx,
  mutex,        \* RingBufferHeader::mutex
  wpc,          \* where each writer is in try_write
  wmsg,         \* the message each writer is writing
  wlocal,       \* its local write_idx
  rpc,          \* where the reader is in read_with_timeout
  attempt,      \* first or second try_read of the call
  rlocal,       \* the reader's local read_idx
  rsize,        \* its local message_size
  rdata,        \* the caller's buffer: what the bytes copied were
  sent,         \* history: published messages and where each starts
  delivered     \* history: messages returned to the caller

wvars == <<wpc, wmsg, wlocal>>
rvars == <<rpc, attempt, rlocal, rsize, rdata>>
ring_vars == <<data_region, write_idx, read_idx, mutex, wvars, rvars, sent, delivered>>

-----------------------------------------------------------------------------
Idx == 0 .. BufferSize - 1
Writing == {"header", "payload", "publish"}

Wrap(i) == i % BufferSize

Empty == [kind |-> "none", of |-> 0, at |-> 0]
HeaderByte(n, i) == [kind |-> "size", of |-> n, at |-> i]
PayloadByte(m, i) == [kind |-> "data", of |-> m, at |-> i]

Lengths == {Size[m] : m \in Messages}

Cell ==
  {Empty}
    \cup [kind : {"size"}, of : Nat, at : Nat]
    \cup [kind : {"data"}, of : Messages, at : Nat]

\* the bytes of a length and of a message
Header(n) == [k \in 0 .. HeaderSize - 1 |-> HeaderByte(n, k)]
Payload(m) == [k \in 0 .. Size[m] - 1 |-> PayloadByte(m, k)]

\* data_region after bytes are stored from index i on
Stored(i, bytes) ==
  [c \in Idx |->
     IF \E k \in DOMAIN bytes : c = Wrap(i + k)
     THEN bytes[(c - i) % BufferSize]
     ELSE data_region[c]]

\* the bytes from index i on are these
Holds(i, bytes) == \A k \in DOMAIN bytes : data_region[Wrap(i + k)] = bytes[k]

\* the lengths the HeaderSize bytes at index i may decode to: the one they
\* encode, or anything when they are not the encoding of one length
Decoded(i) ==
  LET whole == {n \in Lengths : Holds(i, Header(n))}
  IN  IF whole # {} THEN whole ELSE 0 .. BufferSize + MaxMessageSize

\* the message n payload bytes from index i spell, if they spell one
Torn == Empty
Copied(i, n) ==
  LET whole == {m \in Messages : Size[m] = n /\ Holds(i, Payload(m))}
  IN  IF whole # {} THEN CHOOSE m \in whole : TRUE ELSE Torn

\* mutant: the operands of the wrapped case swapped
UsedBytesSwapped ==
  IF write_idx >= read_idx THEN write_idx - read_idx ELSE read_idx - write_idx

UsedBytes ==
  IF write_idx >= read_idx
  THEN write_idx - read_idx
  ELSE BufferSize - read_idx + write_idx
AvailableBytes == BufferSize - UsedBytes - 1
IsEmpty == read_idx = write_idx

Total(m) == HeaderSize + Size[m]
HasRoom(m) == Total(m) + 1 <= AvailableBytes

\* history: the byte count at which the next record starts
End(r) == r.at + Total(r.msg)
WritePos == IF sent = <<>> THEN 0 ELSE End(sent[Len(sent)])
ReadPos == IF delivered = <<>> THEN 0 ELSE End(sent[Len(delivered)])

-----------------------------------------------------------------------------
RingInit ==
  /\ data_region = [c \in Idx |-> Empty]
  /\ write_idx = 0
  /\ read_idx = 0
  /\ mutex = Free
  /\ wpc = [w \in Writers |-> "idle"]
  /\ wmsg = [w \in Writers |-> Torn]
  /\ wlocal = [w \in Writers |-> 0]
  /\ rpc = "idle"
  /\ attempt = 1
  /\ rlocal = 0
  /\ rsize = 0
  /\ rdata = Torn
  /\ sent = <<>>
  /\ delivered = <<>>

-----------------------------------------------------------------------------
(* try_write: the room check, the two loads of write_idx, the header bytes, *)
(* the payload bytes, the store of write_idx and the notification.          *)

\* both tests pass; a message that fails one of them is refused, which
\* changes nothing
TryWrite(w, m) ==
  /\ wpc[w] = "idle"
  /\ Len(sent) + Cardinality({v \in Writers : wpc[v] \in Writing}) < MaxWrites
  /\ Size[m] <= MaxMessageSize
  /\ HasRoom(m)
  /\ wpc' = [wpc EXCEPT ![w] = "header"]
  /\ wmsg' = [wmsg EXCEPT ![w] = m]
  /\ UNCHANGED <<data_region, write_idx, read_idx, mutex, wlocal, rvars, sent, delivered>>

WriteHeader(w) ==
  /\ wpc[w] = "header"
  /\ data_region' = Stored(write_idx, Header(Size[wmsg[w]]))
  /\ wlocal' = [wlocal EXCEPT ![w] = Wrap(write_idx + HeaderSize)]
  /\ wpc' = [wpc EXCEPT ![w] = "payload"]
  /\ UNCHANGED <<write_idx, read_idx, mutex, wmsg, rvars, sent, delivered>>

WritePayload(w) ==
  /\ wpc[w] = "payload"
  /\ data_region' = Stored(wlocal[w], Payload(wmsg[w]))
  /\ wpc' = [wpc EXCEPT ![w] = "publish"]
  /\ UNCHANGED <<write_idx, read_idx, mutex, wmsg, wlocal, rvars, sent, delivered>>

Publish(w) ==
  /\ wpc[w] = "publish"
  /\ write_idx' = Wrap(wlocal[w] + Size[wmsg[w]])
  /\ sent' = Append(sent, [msg |-> wmsg[w], at |-> WritePos])
  /\ wpc' = [wpc EXCEPT ![w] = "notify"]
  /\ UNCHANGED <<data_region, read_idx, mutex, wmsg, wlocal, rvars, delivered>>

\* lock, notify_one, unlock
Notify(w) ==
  /\ wpc[w] = "notify"
  /\ mutex = Free
  /\ wpc' = [wpc EXCEPT ![w] = "idle"]
  /\ rpc' = IF rpc = "waiting" THEN "woken" ELSE rpc
  /\ UNCHANGED <<data_region, write_idx, read_idx, mutex, wmsg, wlocal,
                 attempt, rlocal, rsize, rdata, sent, delivered>>

-----------------------------------------------------------------------------
(* read_with_timeout: try_read, then under the mutex a timed wait while the *)
(* ring is empty, then try_read once more.                                  *)

\* a try_read that returns 0: the first one leads to the wait, the second
\* one ends the call
ReadsNothing ==
  /\ rpc' = IF attempt = 1 THEN "lock" ELSE "idle"
  /\ UNCHANGED <<data_region, write_idx, read_idx, mutex, wvars,
                 attempt, rlocal, rsize, rdata, sent, delivered>>

CallRead ==
  /\ rpc = "idle"
  /\ rpc' = "try"
  /\ attempt' = 1
  /\ UNCHANGED <<data_region, write_idx, read_idx, mutex, wvars,
                 rlocal, rsize, rdata, sent, delivered>>

LoadIndices ==
  /\ rpc = "try"
  /\ \/ /\ IsEmpty
        /\ ReadsNothing
     \/ /\ ~IsEmpty
        /\ rpc' = "header"
        /\ rlocal' = read_idx
        /\ UNCHANGED <<data_region, write_idx, read_idx, mutex, wvars,
                       attempt, rsize, rdata, sent, delivered>>

ReadHeader ==
  /\ rpc = "header"
  /\ \E n \in Decoded(rlocal) :
       \/ /\ n > MaxMessageSize \/ n > ReadSize
          /\ ReadsNothing
       \/ /\ n <= MaxMessageSize
          /\ n <= ReadSize
          /\ rsize' = n
          /\ rlocal' = Wrap(rlocal + HeaderSize)
          /\ rpc' = "payload"
          /\ UNCHANGED <<data_region, write_idx, read_idx, mutex, wvars,
                         attempt, rdata, sent, delivered>>

ReadPayload ==
  /\ rpc = "payload"
  /\ rdata' = Copied(rlocal, rsize)
  /\ rpc' = "advance"
  /\ UNCHANGED <<data_region, write_idx, read_idx, mutex, wvars,
                 attempt, rlocal, rsize, sent, delivered>>

\* mutant: what the second try_read returned is dropped
AdvanceDropSecond ==
  /\ rpc = "advance"
  /\ read_idx' = Wrap(rlocal + rsize)
  /\ delivered' = IF attempt = 2 THEN delivered ELSE Append(delivered, rdata)
  /\ rpc' = "idle"
  /\ UNCHANGED <<data_region, write_idx, mutex, wvars, attempt, rlocal, rsize, rdata, sent>>

\* the store of read_idx and the return of message_size bytes; a length of
\* zero is a return of 0, which read_with_timeout takes for "empty"
Advance ==
  /\ rpc = "advance"
  /\ read_idx' = Wrap(rlocal + rsize)
  /\ delivered' = IF rsize = 0 THEN delivered ELSE Append(delivered, rdata)
  /\ rpc' = IF rsize = 0 /\ attempt = 1 THEN "lock" ELSE "idle"
  /\ UNCHANGED <<data_region, write_idx, mutex, wvars, attempt, rlocal, rsize, rdata, sent>>

Lock ==
  /\ rpc \in {"lock", "woken", "expired"}
  /\ mutex = Free
  /\ mutex' = Reader
  /\ rpc' = IF rpc = "expired" THEN "giveup" ELSE "check"
  /\ UNCHANGED <<data_region, write_idx, read_idx, wvars,
                 attempt, rlocal, rsize, rdata, sent, delivered>>

\* the loop condition is false: unlock and read again
FoundData ==
  /\ rpc = "check"
  /\ ~IsEmpty
  /\ mutex' = Free
  /\ attempt' = 2
  /\ rpc' = "try"
  /\ UNCHANGED <<data_region, write_idx, read_idx, wvars, rlocal, rsize, rdata, sent, delivered>>

\* mutant: the wait does not look at the indices again under the mutex
WaitUnchecked ==
  /\ rpc = "check"
  /\ mutex' = Free
  /\ rpc' \in {"waiting", "idle"}
  /\ UNCHANGED <<data_region, write_idx, read_idx, wvars,
                 attempt, rlocal, rsize, rdata, sent, delivered>>

\* still empty: timed_wait, which releases the mutex, or the deadline passed
Wait ==
  /\ rpc = "check"
  /\ IsEmpty
  /\ mutex' = Free
  /\ rpc' \in {"waiting", "idle"}
  /\ UNCHANGED <<data_region, write_idx, read_idx, wvars,
                 attempt, rlocal, rsize, rdata, sent, delivered>>

Expire ==
  /\ rpc = "waiting"
  /\ rpc' = "expired"
  /\ UNCHANGED <<data_region, write_idx, read_idx, mutex, wvars,
                 attempt, rlocal, rsize, rdata, sent, delivered>>

\* timed_wait reported the timeout: unlock and return 0
GiveUp ==
  /\ rpc = "giveup"
  /\ mutex' = Free
  /\ rpc' = "idle"
  /\ UNCHANGED <<data_region, write_idx, read_idx, wvars,
                 attempt, rlocal, rsize, rdata, sent, delivered>>

-----------------------------------------------------------------------------
WriterStep(w) ==
  \/ \E m \in Messages : TryWrite(w, m)
  \/ WriteHeader(w)
  \/ WritePayload(w)
  \/ Publish(w)
  \/ Notify(w)

ReaderStep ==
  \/ CallRead
  \/ LoadIndices
  \/ ReadHeader
  \/ ReadPayload
  \/ Advance
  \/ Lock
  \/ FoundData
  \/ Wait
  \/ Expire
  \/ GiveUp

RingNext == ReaderStep \/ \E w \in Writers : WriterStep(w)

\* both ends are threads the operating system keeps running; nobody is
\* obliged to start a write
RingFairness == WF_ring_vars(ReaderStep) /\ \A w \in Writers : WF_ring_vars(Notify(w))

RingSpec == RingInit /\ [][RingNext]_ring_vars
RingFairSpec == RingSpec /\ RingFairness

-----------------------------------------------------------------------------
TypeOK ==
  /\ data_region \in [Idx -> Cell]
  /\ write_idx \in Idx /\ read_idx \in Idx
  /\ mutex \in {Free, Reader}
  /\ wpc \in [Writers -> {"idle", "notify"} \cup Writing]
  /\ wmsg \in [Writers -> Messages \cup {Torn}]
  /\ wlocal \in [Writers -> Idx]
  /\ rpc \in {"idle", "try", "header", "payload", "advance", "lock", "check",
              "waiting", "woken", "expired", "giveup"}
  /\ attempt \in {1, 2}
  /\ rlocal \in Idx
  /\ rsize \in Nat
  /\ rdata \in Messages \cup {Torn}
  /\ sent \in Seq([msg : Messages, at : Nat])
  /\ delivered \in Seq(Messages \cup {Torn})

(* used_bytes tells an empty ring from a full one only because one byte is  *)
(* never used: the indices meet exactly when every published record has     *)
(* been consumed, and then they are the positions the histories give.       *)
EmptyMeansDrained ==
  /\ IsEmpty <=> Len(delivered) = Len(sent)
  /\ write_idx = Wrap(WritePos)
  /\ read_idx = Wrap(ReadPos)

(* The bytes of every record between read_idx and write_idx are the bytes   *)
(* its writer stored, whatever a writer or the reader is in the middle of:  *)
(* try_write never touches a record that is not consumed yet.               *)
RecordsIntact ==
  \A i \in Len(delivered) + 1 .. Len(sent) :
    /\ Holds(sent[i].at, Header(Size[sent[i].msg]))
    /\ Holds(sent[i].at + HeaderSize, Payload(sent[i].msg))

(* The messages read are the messages written, in order, none lost, none    *)
(* twice and none torn.                                                     *)
DeliveredInOrder ==
  /\ Len(delivered) <= Len(sent)
  /\ \A i \in 1 .. Len(delivered) : delivered[i] = sent[i].msg

(* read_with_timeout has no lost wakeup although write_idx is stored with   *)
(* the mutex free: when the reader sleeps on data_available and the ring is *)
(* not empty, some try_write has still to notify.                           *)
NoLostWakeup ==
  rpc = "waiting" /\ ~IsEmpty => \E w \in Writers : wpc[w] = "notify"

(* The class implements the channel: write_idx's store is the send, the     *)
(* store of read_idx the receive, and with both threads running every       *)
(* message published is received, unless one before it or itself is larger  *)
(* than the buffer of the reads.                                            *)
Fifo == INSTANCE FifoChannel WITH
  queue <- [i \in 1 .. Len(sent) - Len(delivered) |-> sent[Len(delivered) + i].msg],
  received <- delivered,
  Fitting <- {m \in Messages : Size[m] <= ReadSize}
ImplementsFifo == Fifo!Spec
ImplementsFifoSafely == Fifo!Init /\ [][Fifo!Next]_(Fifo!vars)

=============================================================================
