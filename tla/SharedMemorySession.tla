------------------------- MODULE SharedMemorySession -------------------------
(***************************************************************************)
(* nprpc over shared memory, from the listener's accept ring to the calls:  *)
(* SharedMemoryListener and the clients that connect to it,                 *)
(* SharedMemoryChannel, SharedMemoryConnection, SharedMemoryServerSession,  *)
(* and RpcImpl's list of open sessions, from which callers take a session   *)
(* and into which the session's own timer reaches.                          *)
(*                                                                          *)
(* The two rings of a channel have one writer each and are taken as what    *)
(* FifoChannel promises.  The accept ring has one writer per process that   *)
(* connects, so try_write is here the three steps it is made of: read       *)
(* write_idx, copy the handshake, store write_idx.  A handler that holds    *)
(* mutex_ is one action; the io_context has several threads and no strand,  *)
(* so what is posted runs in any order.  connections_mut_ is a variable,    *)
(* because a session can be destroyed by a thread that holds it.            *)
(***************************************************************************)
EXTENDS Naturals, FiniteSets, SequencesExt

CONSTANTS
  Callers,      \* threads that call send_receive
  AsyncCallers, \* threads that call send_receive_async
  Others,       \* other processes, which only connect
  MaxSessions,  \* bound: connections the process makes to the server
  MaxCalls,     \* bound: caller -> its calls
  MaxTimeouts,  \* bound: expiries of timeout_timer_
  Big,          \* <<thread, call>> whose request is larger than the ring
  BigReply,     \* <<caller, call>> whose answer is larger than the ring
  None,         \* nobody
  Dead,         \* connections_mut_ when a thread waits for itself
  Mixed         \* a handshake that two writers have mixed

Threads == Callers \cup AsyncCallers
Sessions == 1 .. MaxSessions
Clients == Sessions \cup Others   \* one dedicated channel each

ASSUME SharedMemoryAssumption ==
  /\ MaxSessions \in Nat /\ MaxCalls \in [Threads -> Nat] /\ MaxTimeouts \in Nat
  /\ Callers \cap AsyncCallers = {} /\ Others \cap Sessions = {} /\ IsFiniteSet(Others)
  /\ Big \subseteq Threads \X Nat /\ BigReply \subseteq Callers \X Nat
  /\ {None, Dead, Mixed} \cap (Threads \cup Clients) = {}
  /\ None # Dead

VARIABLES
  slots,      \* the accept ring, in handshakes
  next_slot, first_slot,  \* its write_idx and read_idx
  at,         \* client -> its local write_idx in try_write
  conn,       \* client -> how far connect_to_shared_memory_listener is
  overlapped, \* history: two clients have been in try_write at once
  accepting,  \* the handshake the accept thread is at
  chan,       \* client -> the server's end: none, rings or set
              \* (on_data_received is set)
  c2s, s2c,   \* session -> what is in the rings
  arrived,    \* session -> requests posted to the server's io_context
  handling,   \* session -> requests the server's threads are handling
  rx,         \* session -> the request in the server session's rx_buffer_
  answers,    \* session -> answers posted to the client's io_context
  lost,       \* history: session -> a message of its has been dropped
  works,      \* session -> works posted by add_work
  wq,         \* session -> wq_
  stuck,      \* session -> a thread waits for mutex_, which it holds
  armed,      \* session -> timeout_timer_ expires some time and finds it open
  closed,     \* session -> closed_
  expired,    \* session -> its timer is in close(), before close_session
  pool,       \* opened_sessions_ (those to this endpoint)
  lock,       \* connections_mut_
  call,       \* thread -> where it is
  sess,       \* thread -> the session whose shared_ptr it holds
  made,       \* thread -> its calls so far
  reply,      \* thread -> the call whose answer its buffer holds
  timeouts    \* expiries so far

ring == <<slots, next_slot, first_slot, at, overlapped>>
server == <<accepting, chan, arrived, handling, rx>>
queue == <<works, wq, stuck, armed>>
orb == <<pool, lock, closed, expired>>
callers == <<call, sess, made, reply>>
vars == <<ring, conn, server, c2s, s2c, answers, lost, queue, orb, callers, timeouts>>

-----------------------------------------------------------------------------
(***************************************************************************)
(* Connecting: the accept ring, the listener's thread.                      *)
(***************************************************************************)
InTryWrite(w) == conn[w] \in {"claimed", "copied"}

\* try_write reads write_idx; a session does it while its caller is in
\* get_session
Claim(w) ==
  /\ conn[w] = IF w \in Others THEN "none" ELSE "begun"
  /\ conn' = [conn EXCEPT ![w] = "claimed"]
  /\ at' = [at EXCEPT ![w] = next_slot]
  /\ overlapped' = (overlapped \/ \E v \in Clients : InTryWrite(v))
  /\ UNCHANGED <<slots, next_slot, first_slot, server, c2s, s2c, answers, lost, queue, orb,
                 callers, timeouts>>

\* two copies to one place at a time leave a mixture
CopyHandshake(w) ==
  /\ conn[w] = "claimed"
  /\ conn' = [conn EXCEPT ![w] = "copied"]
  /\ \E h \in {w} \cup {Mixed : v \in {v \in Clients \ {w} : InTryWrite(v) /\ at[v] = at[w]}} :
       slots' = [slots EXCEPT ![at[w]] = h]
  /\ UNCHANGED <<next_slot, first_slot, at, overlapped, server, c2s, s2c, answers, lost,
                 queue, orb, callers, timeouts>>

\* mutant: the index is advanced from what it is now, but the slot is not
PublishLater(w) ==
  /\ conn[w] = "copied"
  /\ conn' = [conn EXCEPT ![w] = "waiting"]
  /\ next_slot' = at[w]
  /\ UNCHANGED <<slots, first_slot, at, overlapped, server, c2s, s2c, answers, lost, queue,
                 orb, callers, timeouts>>
PublishHandshake(w) ==
  /\ conn[w] = "copied"
  /\ conn' = [conn EXCEPT ![w] = "waiting"]
  /\ next_slot' = at[w] + 1
  /\ UNCHANGED <<slots, first_slot, at, overlapped, server, c2s, s2c, answers, lost, queue,
                 orb, callers, timeouts>>

\* accept_loop, to the end of the channel's constructor; a mixture is a valid
\* handshake, for a channel nobody opens
Accept ==
  /\ accepting = None
  /\ first_slot # next_slot /\ slots[first_slot] # None
  /\ first_slot' = first_slot + 1
  /\ IF slots[first_slot] = Mixed
     THEN UNCHANGED <<accepting, chan>>
     ELSE /\ accepting' = slots[first_slot]
          /\ chan' = [chan EXCEPT ![slots[first_slot]] = "rings"]
  /\ UNCHANGED <<slots, next_slot, at, overlapped, conn, c2s, s2c, arrived, handling, rx,
                 answers, lost, queue, orb, callers, timeouts>>

\* accept_handler_: create_shared_memory_server_session, whose start() sets
\* on_data_received while the channel's read thread runs
AcceptHandler ==
  /\ accepting # None
  /\ chan' = [chan EXCEPT ![accepting] = "set"]
  /\ accepting' = None
  /\ UNCHANGED <<ring, conn, c2s, s2c, arrived, handling, rx, answers, lost, queue, orb,
                 callers, timeouts>>

-----------------------------------------------------------------------------
(***************************************************************************)
(* RpcImpl: the list of sessions.  A session is destroyed when it is not in *)
(* the list and no thread holds it, and its destructor closes it again.     *)
(***************************************************************************)
Users(s) == {k \in Callers : sess[k] = s}

\* Session::close is two steps: closed_ is stored without a lock, and then
\* close_session waits for connections_mut_.  A timer that finds closed_ set
\* does nothing, once and for all.
SetClosed(s) ==
  /\ closed' = [closed EXCEPT ![s] = TRUE]
  /\ armed' = [armed EXCEPT ![s] = FALSE]

\* mutant: the session is closed and stays in the list
CloseOnly ==
  /\ lock = None
  /\ UNCHANGED <<pool, lock>>

\* close_session erases the first session with the endpoint, which need not be
\* the one that is closed.  A session that nobody else holds is destroyed in
\* the erase, and its destructor comes back for the same mutex.
Orphan == pool # <<>> /\ Users(Head(pool)) = {}
CloseSession ==
  /\ lock = None
  /\ pool' = IF pool = <<>> THEN pool ELSE Tail(pool)
  /\ lock' = IF Orphan THEN Dead ELSE None

\* the end of a call: the shared_ptr that get_session returned; the last one
\* takes the session with it, whose destructor is one more close()
Release(k) ==
  LET last == Users(sess[k]) = {k} /\ ~ Contains(pool, sess[k]) IN
  /\ sess' = [sess EXCEPT ![k] = 0]
  /\ call' = [call EXCEPT ![k] = IF last THEN "destroying" ELSE "idle"]
  /\ IF last THEN SetClosed(sess[k]) ELSE UNCHANGED <<closed, armed>>

\* the second step of close(), of a call that failed or of the destructor
Erase(k) ==
  /\ call[k] \in {"closing", "destroying"}
  /\ CloseSession
  /\ call' = [call EXCEPT ![k] = IF Orphan THEN @
                                 ELSE IF @ = "closing" THEN "throwing" ELSE "idle"]
  /\ UNCHANGED <<ring, conn, server, c2s, s2c, answers, lost, queue, closed, expired, sess,
                 made, reply, timeouts>>

Message(k) == <<k, made[k]>>

\* send_receive and send_receive_async: add_work posts the work
Post(k, s) ==
  /\ call' = [call EXCEPT ![k] = IF k \in AsyncCallers THEN "async" ELSE "waiting"]
  /\ sess' = [sess EXCEPT ![k] = IF k \in AsyncCallers THEN 0 ELSE s]
  /\ works' = [works EXCEPT ![s] = @ \cup {k}]

\* get_session: the session there is
GetSession(k) ==
  /\ call[k] = "idle" /\ made[k] < MaxCalls[k]
  /\ lock = None /\ pool # <<>>
  /\ made' = [made EXCEPT ![k] = @ + 1]
  /\ Post(k, Head(pool))
  /\ UNCHANGED <<ring, conn, server, c2s, s2c, answers, lost, wq, stuck, armed, orb, reply,
                 timeouts>>

\* get_session: a new one, made with connections_mut_ held
NewSession(k) ==
  /\ call[k] = "idle" /\ made[k] < MaxCalls[k]
  /\ lock = None /\ pool = <<>>
  /\ \E s \in Sessions :
       /\ conn[s] = "none" /\ \A r \in 1 .. s - 1 : conn[r] # "none"
       /\ conn' = [conn EXCEPT ![s] = "begun"]
       /\ sess' = [sess EXCEPT ![k] = s]
  /\ made' = [made EXCEPT ![k] = @ + 1]
  /\ call' = [call EXCEPT ![k] = "connecting"]
  /\ lock' = k
  /\ UNCHANGED <<ring, server, c2s, s2c, answers, lost, queue, pool, closed, expired,
                 reply, timeouts>>

\* the rings exist: the channel is opened
Connected(w) ==
  /\ conn[w] = "waiting" /\ chan[w] # "none"
  /\ conn' = [conn EXCEPT ![w] = "open"]
  /\ IF w \in Others
     THEN UNCHANGED <<callers, works, pool, lock>>
     ELSE /\ \E k \in Threads : sess[k] = w /\ call[k] = "connecting" /\ Post(k, w)
          /\ pool' = Append(pool, w)
          /\ lock' = None
          /\ UNCHANGED <<made, reply>>
  /\ UNCHANGED <<ring, server, c2s, s2c, answers, lost, wq, stuck, armed, closed, expired,
                 timeouts>>

\* five seconds without them: the constructor throws
NotConnected(w) ==
  /\ conn[w] = "waiting" /\ chan[w] = "none"
  /\ conn' = [conn EXCEPT ![w] = "failed"]
  /\ IF w \in Others
     THEN UNCHANGED <<call, sess, lock>>
     ELSE /\ \E k \in Threads : /\ sess[k] = w /\ call[k] = "connecting"
                                /\ call' = [call EXCEPT ![k] = "idle"]
                                /\ sess' = [sess EXCEPT ![k] = 0]
          /\ lock' = None
  /\ UNCHANGED <<ring, server, c2s, s2c, answers, lost, queue, pool, closed, expired, made,
                 reply, timeouts>>

-----------------------------------------------------------------------------
(***************************************************************************)
(* The client's session: wq_, one call at a time in the ring.               *)
(***************************************************************************)
Alive(s) == Contains(pool, s) \/ Users(s) # {}

\* operator() of the works at the head of a queue: send refuses those larger
\* than the ring.  A blocking one fails and is popped; on_failed of an
\* asynchronous one locks mutex_, which this handler holds.
TooBig(q) == {i \in 1 .. Len(q) : \A j \in 1 .. i : q[j] \in Callers /\ Message(q[j]) \in Big}
Execute(s, q) ==
  LET left == SubSeq(q, Cardinality(TooBig(q)) + 1, Len(q))
      refused == left # <<>> /\ Message(Head(left)) \in Big
  IN /\ wq' = [wq EXCEPT ![s] = left]
     /\ armed' = [armed EXCEPT ![s] = @ \/ (q # <<>> /\ ~ closed[s])]
     /\ stuck' = [stuck EXCEPT ![s] = refused]
     /\ c2s' = IF left = <<>> \/ refused THEN c2s
               ELSE [c2s EXCEPT ![s] = Append(@, Message(Head(left)))]

Failed(q) == {q[i] : i \in TooBig(q)}
\* mutant: the work goes without on_failed
FailSilently(c, q) == c
Fail(c, q) == [k \in Threads |-> IF k \in Failed(q) THEN "failing" ELSE c[k]]

\* mutant: the work is executed whatever the queue holds
AddWorkNow(s) == \E k \in works[s] :
  /\ Alive(s) /\ ~ stuck[s] /\ Message(k) \notin Big
  /\ works' = [works EXCEPT ![s] = @ \ {k}]
  /\ wq' = [wq EXCEPT ![s] = Append(@, k)]
  /\ c2s' = [c2s EXCEPT ![s] = Append(@, Message(k))]
  /\ armed' = [armed EXCEPT ![s] = TRUE]
  /\ UNCHANGED <<ring, conn, server, s2c, answers, lost, stuck, orb, call, sess, made,
                 reply, timeouts>>

\* the handler that add_work posts
AddWork(s) == \E k \in works[s] :
  /\ Alive(s) /\ ~ stuck[s]
  /\ works' = [works EXCEPT ![s] = @ \ {k}]
  /\ IF wq[s] = <<>>
     THEN Execute(s, <<k>>) /\ call' = Fail(call, <<k>>)
     ELSE /\ wq' = [wq EXCEPT ![s] = Append(@, k)]
          /\ UNCHANGED <<armed, stuck, c2s, call>>
  /\ UNCHANGED <<ring, conn, server, s2c, answers, lost, orb, sess, made, reply, timeouts>>

\* on_data_received: the answer is the front's, whoever it was for.  The front
\* of send_receive_async locks mutex_ in on_executed, which this handler holds.
OnData(s) == \E m \in answers[s] :
  /\ Alive(s) /\ ~ stuck[s]
  /\ answers' = [answers EXCEPT ![s] = @ \ {m}]
  /\ IF wq[s] = <<>>
     THEN UNCHANGED <<reply, stuck, call, wq, armed, c2s>>
     ELSE LET k == Head(wq[s]) IN
          /\ reply' = [reply EXCEPT ![k] = m]
          /\ IF k \in AsyncCallers
             THEN stuck' = [stuck EXCEPT ![s] = TRUE] /\ UNCHANGED <<call, wq, armed, c2s>>
             ELSE /\ call' = Fail([call EXCEPT ![k] = "replied"], Tail(wq[s]))
                  /\ Execute(s, Tail(wq[s]))
  /\ UNCHANGED <<ring, conn, server, s2c, lost, works, orb, sess, made, timeouts>>

\* start_timeout_timer, timeout_action: nothing disarms the timer when a call
\* is over, and nothing ends the call when it expires
Timer(s) ==
  /\ armed[s] /\ ~ closed[s] /\ Alive(s)
  /\ timeouts < MaxTimeouts
  /\ timeouts' = timeouts + 1
  /\ SetClosed(s) /\ expired' = [expired EXCEPT ![s] = TRUE]
  /\ UNCHANGED <<ring, conn, server, c2s, s2c, answers, lost, works, wq, stuck, pool, lock,
                 callers>>

\* timeout_action has no shared_ptr: once the session is gone, the endpoint that
\* close_session compares is in freed memory and may match or not
TimerErase(s) ==
  /\ expired[s]
  /\ \/ CloseSession /\ expired' = [expired EXCEPT ![s] = Orphan]
     \/ /\ ~ Alive(s) /\ lock = None
        /\ expired' = [expired EXCEPT ![s] = FALSE]
        /\ UNCHANGED <<pool, lock>>
  /\ UNCHANGED <<ring, conn, server, c2s, s2c, answers, lost, queue, closed, callers, timeouts>>

\* send_receive returns, and with it the shared_ptr goes
Return(k) ==
  /\ call[k] = "replied"
  /\ Release(k)
  /\ UNCHANGED <<ring, conn, server, c2s, s2c, answers, lost, works, wq, stuck, pool, lock,
                 expired, made, reply, timeouts>>

\* send_receive after on_failed: close(), then the exception
FailClose(k) ==
  /\ call[k] = "failing"
  /\ call' = [call EXCEPT ![k] = "closing"]
  /\ SetClosed(sess[k])
  /\ UNCHANGED <<ring, conn, server, c2s, s2c, answers, lost, works, wq, stuck, pool, lock,
                 expired, sess, made, reply, timeouts>>

Throw(k) ==
  /\ call[k] = "throwing"
  /\ Release(k)
  /\ UNCHANGED <<ring, conn, server, c2s, s2c, answers, lost, works, wq, stuck, pool, lock,
                 expired, made, reply, timeouts>>

-----------------------------------------------------------------------------
(***************************************************************************)
(* The read threads of the channels and the server's session.               *)
(***************************************************************************)
\* the server's read thread posts what it reads; it runs before AcceptHandler
\* has set on_data_received
ServerRead(s) ==
  /\ chan[s] # "none" /\ c2s[s] # <<>>
  /\ arrived' = [arrived EXCEPT ![s] = @ \cup {Head(c2s[s])}]
  /\ c2s' = [c2s EXCEPT ![s] = Tail(@)]
  /\ UNCHANGED <<ring, conn, accepting, chan, handling, rx, s2c, answers, lost, queue, orb,
                 callers, timeouts>>

\* on_message_received up to the servant
ServerDispatch(s) == \E m \in arrived[s] :
  /\ arrived' = [arrived EXCEPT ![s] = @ \ {m}]
  /\ IF chan[s] = "set"
     THEN /\ rx' = [rx EXCEPT ![s] = m]
          /\ handling' = [handling EXCEPT ![s] = @ \cup {m}]
          /\ UNCHANGED lost
     ELSE /\ lost' = [lost EXCEPT ![s] = TRUE]
          /\ UNCHANGED <<rx, handling>>
  /\ UNCHANGED <<ring, conn, accepting, chan, c2s, s2c, answers, queue, orb, callers, timeouts>>

\* the answer is what rx_buffer_ holds when the servant is done; one that is
\* larger than the ring is dropped
ServerReply(s) == \E m \in handling[s] :
  /\ handling' = [handling EXCEPT ![s] = @ \ {m}]
  /\ IF rx[s] \in BigReply
     THEN lost' = [lost EXCEPT ![s] = TRUE] /\ UNCHANGED s2c
     ELSE s2c' = [s2c EXCEPT ![s] = Append(@, rx[s])] /\ UNCHANGED lost
  /\ UNCHANGED <<ring, conn, accepting, chan, arrived, rx, c2s, answers, queue, orb, callers,
                 timeouts>>

ClientRead(s) ==
  /\ Alive(s) /\ s2c[s] # <<>>
  /\ answers' = [answers EXCEPT ![s] = @ \cup {Head(s2c[s])}]
  /\ s2c' = [s2c EXCEPT ![s] = Tail(@)]
  /\ UNCHANGED <<ring, conn, server, c2s, lost, queue, orb, callers, timeouts>>

-----------------------------------------------------------------------------
Init ==
  /\ slots = [i \in 0 .. Cardinality(Clients) |-> None] /\ next_slot = 0 /\ first_slot = 0
  /\ at = [w \in Clients |-> 0] /\ overlapped = FALSE
  /\ conn = [w \in Clients |-> "none"]
  /\ accepting = None /\ chan = [w \in Clients |-> "none"]
  /\ arrived = [s \in Sessions |-> {}] /\ handling = [s \in Sessions |-> {}]
  /\ rx = [s \in Sessions |-> <<>>]
  /\ c2s = [s \in Sessions |-> <<>>] /\ s2c = [s \in Sessions |-> <<>>]
  /\ answers = [s \in Sessions |-> {}] /\ lost = [s \in Sessions |-> FALSE]
  /\ works = [s \in Sessions |-> {}] /\ wq = [s \in Sessions |-> <<>>]
  /\ stuck = [s \in Sessions |-> FALSE] /\ armed = [s \in Sessions |-> FALSE]
  /\ pool = <<>> /\ lock = None /\ closed = [s \in Sessions |-> FALSE]
  /\ expired = [s \in Sessions |-> FALSE]
  /\ call = [k \in Threads |-> "idle"] /\ sess = [k \in Threads |-> 0]
  /\ made = [k \in Threads |-> 0] /\ reply = [k \in Threads |-> <<>>]
  /\ timeouts = 0

Connecting(w) == Claim(w) \/ CopyHandshake(w) \/ PublishHandshake(w) \/ Connected(w) \/ NotConnected(w)
Ending(k) == Return(k) \/ FailClose(k) \/ Erase(k) \/ Throw(k)
Running(s) == \/ AddWork(s) \/ OnData(s) \/ ClientRead(s)
              \/ ServerRead(s) \/ ServerDispatch(s) \/ ServerReply(s)

Progress == \/ \E w \in Clients : Connecting(w)
            \/ Accept \/ AcceptHandler
            \/ \E k \in Threads : Ending(k)
            \/ \E s \in Sessions : Running(s) \/ TimerErase(s)

Next == \/ Progress
        \/ \E k \in Threads : GetSession(k) \/ NewSession(k)
        \/ \E s \in Sessions : Timer(s)

\* The threads run.  Every step brings a call, a connection or a message
\* further and none goes back, so it is enough that some thread that can run
\* does.  No call need be made and the timer is not waited for.
Fairness == WF_vars(Progress)

Spec == Init /\ [][Next]_vars /\ Fairness

-----------------------------------------------------------------------------
(***************************************************************************)
(* A call that returns has the answer to its own request.  Messages carry   *)
(* no number: it rests on one request of a session being under way at a     *)
(* time, through two handlers that run on any thread and one rx_buffer_     *)
(* (shared_memory_connection.cpp:197, shared_memory_server_session.cpp:51). *)
(***************************************************************************)
OwnReply == \A k \in Threads : call[k] = "replied" => reply[k] = Message(k)

(***************************************************************************)
(* A session that was closed is out of the list when close() returns,       *)
(* although close_session erases by endpoint and not the session it was     *)
(* asked to, and others close and destroy sessions of the same endpoint at  *)
(* the same time (rpc_impl.cpp:62, :147): get_session returns a closed one  *)
(* only while somebody is between the two steps of its close()              *)
(* (nprpc_impl.hpp:357).                                                    *)
(***************************************************************************)
InClose(s) == expired[s] \/ \E k \in Callers : call[k] = "closing" /\ sess[k] = s
PoolUsable == \A s \in Sessions : closed[s] /\ Contains(pool, s) => InClose(s)

(***************************************************************************)
(* Clients that connect one at a time are not forgotten: while one waits    *)
(* for its rings its handshake is in the accept ring, or its channel is     *)
(* made (shared_memory_listener.cpp:198).  Two at once is what the ring is  *)
(* not for.                                                                 *)
(***************************************************************************)
HandshakeKept ==
  \A w \in Clients : conn[w] = "waiting" /\ ~ overlapped =>
    \/ chan[w] # "none"
    \/ \E i \in first_slot .. next_slot - 1 : slots[i] = w

(***************************************************************************)
(* A call ends.  It does not when a message of its session was dropped,     *)
(* when an asynchronous call of the session has been answered or refused,   *)
(* or when connections_mut_ is held for ever by a session destroyed under   *)
(* it.                                                                      *)
(***************************************************************************)
CannotEnd(k) == lock = Dead \/ (sess[k] # 0 /\ (lost[sess[k]] \/ stuck[sess[k]]))
EveryCallEnds == \A k \in Callers : call[k] # "idle" ~> (call[k] = "idle" \/ CannotEnd(k))

=============================================================================
