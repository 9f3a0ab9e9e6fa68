---------------------------- MODULE RegisterTable ----------------------------
(***************************************************************************)
(* The registers that npserver polls: the part of protocol_service that     *)
(* only its worker thread touches.  Clients advise variables; each variable *)
(* lies in a register of a device, a run of bytes at mem_addr.  A register  *)
(* is counted, found by binary search in its device's sorted row, and read  *)
(* together with its neighbours in one request; rows and requests hold raw  *)
(* pointers, here places of the pool that Register::operator new uses.      *)
(*                                                                          *)
(* The table is a record, and an operation a function of it: ProtocolWorker *)
(* is the worker with any tasks, ItemServer the worker with its clients,    *)
(* and both have the table in the variable that is declared here.           *)
(***************************************************************************)
EXTENDS Integers, SequencesExt

CONSTANTS
  Handles,          \* the registers there can be, as server_handle
  Places,           \* memory for registers in pool_
  Values,           \* what a device answers for a register
  Garbage,          \* what is in memory that was never written
  MaxRegInReq,      \* MAX_REG_IN_REQ
  MaxRemovals       \* bound: devices that are deactivated

NoHandle == [dev_addr |-> 0, mem_addr |-> 0, size |-> 0]
NoDevice == 0       \* m_valid_controllers.end()

ASSUME RegisterAssumption ==
  /\ Handles \subseteq [dev_addr : Nat \ {0}, mem_addr : Nat, size : 1..5]
  /\ IsFiniteSet(Handles) /\ IsFiniteSet(Places)
  /\ Garbage \notin Values
  /\ MaxRegInReq \in Nat \ {0} /\ MaxRemovals \in Nat

VARIABLES
  table,            \* the register table
  removals          \* devices removed so far

Devices == {h.dev_addr : h \in Handles}
\* the order of server_handle::value among the registers of one device
Before(h, g) == \/ h.mem_addr < g.mem_addr
                \/ h.mem_addr = g.mem_addr /\ h.size < g.size
\* g begins where h ends
Follows(g, h) == h.mem_addr + h.size = g.mem_addr

\* the numbers of D, the least one first
InOrder(D) ==
  CHOOSE s \in [1..Cardinality(D) -> D] : \A i, j \in DOMAIN s : i < j => s[i] < s[j]
\* the elements of s at the places of I, in their order
Picked(s, I) == LET order == InOrder(I) IN [k \in DOMAIN order |-> s[order[k]]]

-----------------------------------------------------------------------------
(* The members of protocol_service.                                         *)
\* reg: place -> Register.  A freed place keeps everything but its handle,
\* which the pool's list of free places lies over.
InitialTable ==
  [ reg  |-> [p \in Places |-> [handle |-> NoHandle, op_value |-> Garbage,
                                op_available |-> "unknown", ref_cnt |-> 0]],
    pool |-> SetToSeq(Places),              \* free places, the next one first
    row  |-> [d \in Devices |-> <<>>],      \* dev_reqs_[d].r
    req  |-> [d \in Devices |-> <<>>],      \* dev_reqs_[d].q
    tag_changed |-> {},
    valid  |-> {},                          \* m_valid_controllers
    advc   |-> NoDevice,                    \* *advc_it_
    req_ix |-> 1 ]

-----------------------------------------------------------------------------
\* lower_bound in a row
Position(t, h) ==
  1 + Cardinality({i \in DOMAIN t.row[h.dev_addr] :
                     Before(t.reg[t.row[h.dev_addr][i]].handle, h)})
\* binary_find
Found(t, h) ==
  /\ Position(t, h) <= Len(t.row[h.dev_addr])
  /\ t.reg[t.row[h.dev_addr][Position(t, h)]].handle = h
PlaceOf(t, h) == t.row[h.dev_addr][Position(t, h)]

FirstValid(V) == IF V = {} THEN NoDevice ELSE Min(V)
Restarted(t) == [t EXCEPT !.advc = FirstValid(t.valid), !.req_ix = 1]

\* `delete` of the registers at the places of s, in that order
Freed(t, s) ==
  [t EXCEPT !.pool = Reverse(s) \o @,
            !.reg = [p \in Places |-> IF p \in ToSet(s) THEN [@[p] EXCEPT !.handle = NoHandle]
                                                        ELSE @[p]]]

CountBy(t, h, k) == [t EXCEPT !.reg[PlaceOf(t, h)].ref_cnt = @ + k]
\* mutant: a new register goes to the end of its row
AddOneLast(t, h) ==
  IF Found(t, h)
  THEN CountBy(t, h, 1)
  ELSE [t EXCEPT !.pool = Tail(@),
                 !.reg[Head(t.pool)] = [@ EXCEPT !.handle = h, !.ref_cnt = 1,
                                                 !.op_available = "unknown"],
                 !.row[h.dev_addr] = Append(@, Head(t.pool)),
                 !.tag_changed = @ \cup {h.dev_addr}]
AddOne(t, h) ==
  IF Found(t, h)
  THEN CountBy(t, h, 1)
  ELSE [t EXCEPT !.pool = Tail(@),
                 !.reg[Head(t.pool)] = [@ EXCEPT !.handle = h, !.ref_cnt = 1,
                                                 !.op_available = "unknown"],
                 !.row[h.dev_addr] = InsertAt(@, Position(t, h), Head(t.pool)),
                 !.tag_changed = @ \cup {h.dev_addr}]

\* requests of one device: its row, cut where the next register does not
\* begin where the last one ends and where a request is full.  The code's array
\* has 128 requests and no check; there is no limit here.
RequestsOf(reg, row) ==
  LET first[i \in DOMAIN row] ==   \* where the request of register i begins
        IF /\ i > 1
           /\ Follows(reg[row[i]].handle, reg[row[i - 1]].handle)
           /\ i - first[i - 1] < MaxRegInReq
        THEN first[i - 1] ELSE i
      firsts == InOrder({first[i] : i \in DOMAIN row})
      past(k) == IF k = Len(firsts) THEN Len(row) + 1 ELSE firsts[k + 1]
  IN [k \in DOMAIN firsts |-> SubSeq(row, firsts[k], past(k) - 1)]

BuildReq(t, d) ==
  LET used == {i \in DOMAIN t.row[d] : t.reg[t.row[d][i]].ref_cnt > 0}
      kept == Picked(t.row[d], used)
      dead == Picked(t.row[d], DOMAIN t.row[d] \ used)
  IN [Freed(t, dead) EXCEPT
        !.row[d] = kept,
        !.req[d] = RequestsOf(t.reg, kept),
        !.valid = IF kept = <<>> THEN @ \ {d} ELSE @ \cup {d}]

\* x = <<handle, count>>; a device that was removed is passed over
ReleaseOne(t, x) ==
  LET h == x[1]
      u == [t EXCEPT !.tag_changed = @ \cup {h.dev_addr}]
  IN CASE h.dev_addr \notin t.valid -> t
       [] h.dev_addr \in t.valid /\ ~Found(t, h) -> u
       [] OTHER -> CountBy(u, h, -x[2])

\* the loops of the operations: one element of s after the other
One(op, t, x) ==
  CASE op = "add" -> AddOne(t, x) [] op = "release" -> ReleaseOne(t, x) [] op = "build" -> BuildReq(t, x)
Each(op, t, s) ==
  LET after[i \in 0..Len(s)] == IF i = 0 THEN t ELSE One(op, after[i - 1], s[i]) IN after[Len(s)]

\* mutant: the poll stays where it is
RebuildOnly(t) == [Each("build", t, InOrder(t.tag_changed)) EXCEPT !.tag_changed = {}]
Rebuild(t) == Restarted([Each("build", t, InOrder(t.tag_changed)) EXCEPT !.tag_changed = {}])

AddRegisters(t, hs) ==
  LET u == Each("add", t, hs) IN IF \A h \in ToSet(hs) : Found(t, h) THEN u ELSE Rebuild(u)

Unused(r) == r.ref_cnt <= 0

ReleaseRegisters(t, xs) ==
  LET u == Each("release", t, xs)
      del == \E x \in ToSet(xs) : /\ x[1].dev_addr \in t.valid
                                  /\ Found(t, x[1])
                                  /\ Unused(u.reg[PlaceOf(t, x[1])])
  IN IF del THEN Rebuild(u) ELSE u

RemoveDevice(t, d) ==
  [Freed(Restarted([t EXCEPT !.valid = @ \ {d}]), t.row[d]) EXCEPT !.row[d] = <<>>, !.req[d] = <<>>]

-----------------------------------------------------------------------------
(* read_advised: one request, and on to the next one. *)
Request(t) == t.req[t.advc][t.req_ix]

\* mutant: the poll stays at its device
AdvancedHere(t) ==
  IF t.req_ix < Len(t.req[t.advc]) THEN [t EXCEPT !.req_ix = @ + 1] ELSE [t EXCEPT !.req_ix = 1]
Advanced(t) ==
  IF t.req_ix < Len(t.req[t.advc])
  THEN [t EXCEPT !.req_ix = @ + 1]
  ELSE LET rest == {d \in t.valid : d > t.advc}
       IN [t EXCEPT !.req_ix = 1, !.advc = FirstValid(IF rest = {} THEN t.valid ELSE rest)]

\* the answer to the request, register by register
Answered(t, answer) ==
  Advanced([t EXCEPT !.reg = [p \in Places |->
     IF p \in ToSet(Request(t))
     THEN [@[p] EXCEPT !.op_value = answer[p], !.op_available = "available"] ELSE @[p]]])
NotAnswered(t) ==
  Advanced([t EXCEPT !.reg = [p \in Places |->
     IF p \in ToSet(Request(t)) THEN [@[p] EXCEPT !.op_available = "not_responded"] ELSE @[p]]])

\* updated_registers, from the tables before and after
Updated(t, u) ==
  {p \in Places : /\ p \in ToSet(Request(t))
                  /\ \/ t.reg[p].op_available # u.reg[p].op_available
                     \/ t.reg[p].op_value # u.reg[p].op_value}

\* the tables a poll can lead to
Polls(t) ==
  {NotAnswered(t)} \cup {Answered(t, answer) : answer \in [ToSet(Request(t)) -> Values]}

Live(t) == {p \in Places : t.reg[p].handle # NoHandle}

\* The rows are sorted, so that binary_find finds what is there.
RowsSorted(t) ==
  \A d \in Devices : \A i, j \in DOMAIN t.row[d] :
    i < j => Before(t.reg[t.row[d][i]].handle, t.reg[t.row[d][j]].handle)

\* Every place is free or in the row of its register's device, and only once.
PlacesShared(t) ==
  /\ ToSet(t.pool) = Places \ Live(t) /\ Len(t.pool) = Cardinality(Places \ Live(t))
  /\ Live(t) = UNION {ToSet(t.row[d]) : d \in Devices}
  /\ \A d \in Devices : \A p \in ToSet(t.row[d]) : t.reg[p].handle.dev_addr = d

\* The requests of a device read exactly its registers, each one a run of
\* bytes without gaps that is not too long, so that the answer is cut where
\* it was put together; the poll is at one of them.
RequestsCover(t) ==
  /\ t.valid = {d \in Devices : t.row[d] # <<>>}
  /\ \A d \in Devices : FlattenSeq(t.req[d]) = t.row[d]
  /\ \A d \in t.valid : \A s \in ToSet(t.req[d]) :
       /\ Len(s) \in 1..MaxRegInReq
       /\ \A i \in 1..(Len(s) - 1) : Follows(t.reg[s[i + 1]].handle, t.reg[s[i]].handle)
  /\ IF t.valid = {} THEN t.advc = NoDevice
     ELSE t.advc \in t.valid /\ t.req_ix \in DOMAIN t.req[t.advc]
=============================================================================
