--------------------------- MODULE SocketConnection ---------------------------
(***************************************************************************)
(* nprpc's client connection over TCP (SocketConnection with                *)
(* CommonConnection and the timeout timer of Session), the socket, and a    *)
(* server session (Session_Socket) that answers requests in their order.    *)
(*                                                                          *)
(* Callers queue their requests on the connection's strand, which carries   *)
(* out one at a time: write the request, read the size of the answer, read  *)
(* its body.  No answer names its request.  A handler, the timer's handler  *)
(* and what a caller's thread does between two waits are one action each;   *)
(* the callers' threads run beside the strand.  That Reconnect replaces     *)
(* socket_ from a caller's thread, without the strand, is modelled as       *)
(* atomic.                                                                  *)
(***************************************************************************)
EXTENDS Naturals, SequencesExt

CONSTANTS
  SyncCalls,   \* calls of send_receive
  AsyncCalls,  \* calls of send_receive_async
  None,        \* no call
  Parts,       \* pieces in which the body of an answer may come
  MaxResets    \* bound: how often the server's side breaks the connection

Calls == SyncCalls \cup AsyncCalls

ASSUME SocketAssumption ==
  /\ None \notin Calls
  /\ SyncCalls \cap AsyncCalls = {}
  /\ Parts \in Nat \ {0}
  /\ MaxResets \in Nat

VARIABLES
  call,      \* call -> where its caller is
  buf,       \* call -> what its buffer holds
  posted,    \* works posted to the strand
  wq,        \* wq_
  op,        \* the operation on socket_: none, write, size or body
  outcome,   \* how it has ended, while its handler has not run
  rx_size,   \* rx_size_, in pieces: Parts + 1 is over max_message_size
  from,      \* the request whose answer rx_size was the size of
  c2s, s2c,  \* what is on the way: requests, pieces of answers
  link,      \* socket_: up, down (broken by the server) or shut
  timer,     \* timeout_timer_: whether it expires at all, whether the handler
             \* is called because that changed, whether it still waits, and
             \* (history) whether a timeout has expired
  closed,    \* closed_
  resets,    \* times the connection broke
  served     \* history: call -> times the server has carried it out

strand == <<posted, wq, op, outcome, rx_size, from>>
net == <<c2s, s2c, link, resets, served>>
vars == <<call, buf, strand, net, timer, closed>>

Errors == {"aborted", "reset", "other"}
Answer(c) == [k \in 1 .. Parts + 1 |-> <<c, k - 1>>]  \* its size, then its body
Torn == None                   \* a piece of a message, in c2s

-----------------------------------------------------------------------------
(***************************************************************************)
(* The queue of the strand.                                                 *)
(***************************************************************************)
\* every change of expires_at cancels the wait and calls the handler
Expires(armed) == timer' = [timer EXCEPT !.armed = armed, !.called = TRUE]

\* an asynchronous operation of the front's begins
Begin(what) == op' = what /\ outcome' = "pending"

\* mutant: the next work is left where it is
PopOnly == wq' = Tail(wq) /\ op' = "none" /\ outcome' = "none"
\* wq_.pop_front(), and the next work's operator()
PopAndExecuteNext ==
  /\ wq' = Tail(wq)
  /\ IF Tail(wq) = <<>>
     THEN op' = "none" /\ outcome' = "none"
     ELSE Begin("write")

\* expires_at as on_read_size and on_read_body leave it, after the next work
NextExpires(armed) == Expires(armed \/ Tail(wq) # <<>>)

\* send_receive and send_receive_async: add_work
Call(c) ==
  /\ call[c] = "idle"
  /\ call' = [call EXCEPT ![c] = "waiting"]
  /\ posted' = Append(posted, c)
  /\ UNCHANGED <<buf, wq, op, outcome, rx_size, from, net, timer, closed>>

\* the posted work: if it is the only one it starts writing
AddWork ==
  /\ posted # <<>>
  /\ posted' = Tail(posted)
  /\ wq' = Append(wq, Head(posted))
  /\ IF wq = <<>>
     THEN Begin("write") /\ Expires(TRUE)
     ELSE UNCHANGED <<op, outcome, timer>>
  /\ UNCHANGED <<call, buf, rx_size, from, net, closed>>

\* mutant: the handler is told nothing of the error
FailureStateDone(c, ec) == IF c \in AsyncCalls THEN "done" ELSE "throwing"
\* on_failed(ec) of the front: the handler is called, or the caller released
FailureState(c, ec) ==
  CASE c \in AsyncCalls                      -> "failed"
    [] call[c] = "again"                     -> "dropping"
    [] call[c] = "waiting" /\ ec = "reset"   -> "lost"
    [] OTHER                                 -> "throwing"
FrontFails(ec) == call' = [call EXCEPT ![Head(wq)] = FailureState(Head(wq), ec)]
\* on_executed(), or on_failed() with an ec that says success
FrontDone == call' = [call EXCEPT ![Head(wq)] = "done"]

-----------------------------------------------------------------------------
(***************************************************************************)
(* The handlers of the operations.                                          *)
(***************************************************************************)
\* do_read_size empties the buffer, which held the request
OnWrite ==
  /\ op = "write" /\ outcome # "pending"
  /\ IF outcome \in Errors
     THEN /\ FrontFails(outcome)
          /\ PopAndExecuteNext
          /\ IF Tail(wq) # <<>> THEN Expires(TRUE) ELSE UNCHANGED timer
          /\ UNCHANGED buf
     ELSE /\ Begin("size")
          /\ Expires(TRUE)
          /\ buf' = [buf EXCEPT ![Head(wq)] = "empty"]
          /\ UNCHANGED <<call, wq>>
  /\ UNCHANGED <<posted, rx_size, from, net, closed>>

\* a size over the limit: on_failed is given the ec of the read, success
OnReadSize ==
  /\ op = "size" /\ outcome # "pending"
  /\ CASE outcome \in Errors ->
            /\ FrontFails(outcome)
            /\ PopAndExecuteNext /\ NextExpires(FALSE)
            /\ UNCHANGED buf
       [] outcome = "ok" /\ rx_size > Parts ->
            /\ FrontDone
            /\ PopAndExecuteNext /\ NextExpires(FALSE)
            /\ UNCHANGED buf
       [] OTHER ->
            /\ buf' = [buf EXCEPT ![Head(wq)] = "partial"]
            /\ Begin("body") /\ Expires(TRUE)
            /\ UNCHANGED <<call, wq>>
  /\ UNCHANGED <<posted, rx_size, from, net, closed>>

OnReadBody ==
  /\ op = "body" /\ outcome # "pending"
  /\ CASE outcome \in Errors ->
            /\ FrontFails(outcome)
            /\ PopAndExecuteNext /\ NextExpires(FALSE)
            /\ UNCHANGED buf
       [] outcome = "ok" /\ rx_size # 0 ->
            /\ Begin("body") /\ Expires(TRUE)
            /\ UNCHANGED <<call, wq, buf>>
       [] OTHER ->
            /\ buf' = [buf EXCEPT ![Head(wq)] =
                                    IF from = Head(wq) THEN "own" ELSE "other"]
            /\ FrontDone
            /\ PopAndExecuteNext /\ NextExpires(FALSE)
  /\ UNCHANGED <<posted, rx_size, from, net, closed>>

\* start_timeout_timer, the handler of the timer.  It does not wait again when
\* the connection is closed.
TimerEnds ==
  /\ closed
  /\ timer.called \/ timer.armed
  /\ timer' = [timer EXCEPT !.waits = FALSE]
  /\ UNCHANGED <<outcome, c2s>>

\* mutant: the timer is not waited for again after a timeout
TimeoutActionOnce ==
  /\ ~closed /\ timer.armed
  /\ timer' = [armed |-> FALSE, called |-> FALSE, waits |-> FALSE, expired |-> TRUE]
  /\ outcome' = IF outcome = "pending" THEN "aborted" ELSE outcome
  /\ UNCHANGED c2s
\* timeout_action cancels what is pending; a request whose write is cancelled
\* may have gone in part
TimeoutAction ==
  /\ ~closed /\ timer.armed
  /\ timer' = [timer EXCEPT !.armed = FALSE, !.called = FALSE, !.expired = TRUE]
  /\ outcome' = IF outcome = "pending" THEN "aborted" ELSE outcome
  /\ c2s' \in IF op = "write" /\ outcome = "pending" /\ link = "up"
              THEN {c2s, Append(c2s, Torn)} ELSE {c2s}

TimerWaitsAgain ==
  /\ ~closed /\ timer.called
  /\ timer' = [timer EXCEPT !.called = FALSE]
  /\ UNCHANGED <<outcome, c2s>>

StartTimeoutTimer ==
  /\ timer.waits
  /\ TimerEnds \/ TimeoutAction \/ TimerWaitsAgain
  /\ UNCHANGED <<call, buf, posted, wq, op, rx_size, from, s2c, link, resets, served, closed>>

-----------------------------------------------------------------------------
(***************************************************************************)
(* send_receive in its caller's thread, after the wait.                     *)
(***************************************************************************)
\* close() ends the monitoring; it does not touch socket_ or wq_
Close == closed' = TRUE

\* reconnect() and the second try, with the buffer as the first one left it.
\* Moving a new socket to socket_ closes the old one.
Reconnect(c) ==
  /\ call[c] = "lost"
  /\ call' = [call EXCEPT ![c] = "again"]
  /\ posted' = Append(posted, c)
  /\ link' = "up"
  /\ c2s' = <<>> /\ s2c' = <<>>
  /\ outcome' = IF outcome = "pending" THEN "aborted" ELSE outcome
  /\ UNCHANGED <<buf, wq, op, rx_size, from, timer, closed, resets, served>>

ReconnectRefused(c) ==
  /\ call[c] = "lost"
  /\ call' = [call EXCEPT ![c] = "failed"]
  /\ link' = "shut"
  /\ c2s' = <<>> /\ s2c' = <<>>
  /\ outcome' = IF outcome = "pending" THEN "aborted" ELSE outcome
  /\ Close
  /\ UNCHANGED <<buf, posted, wq, op, rx_size, from, timer, resets, served>>

\* any other error: close() and throw
Throw(c) ==
  /\ call[c] = "throwing"
  /\ call' = [call EXCEPT ![c] = "failed"]
  /\ Close
  /\ UNCHANGED <<buf, strand, net, timer>>

\* the second try failed: close() and return, without an exception
Return(c) ==
  /\ call[c] = "dropping"
  /\ call' = [call EXCEPT ![c] = "done"]
  /\ Close
  /\ UNCHANGED <<buf, strand, net, timer>>

-----------------------------------------------------------------------------
(***************************************************************************)
(* The socket and the server.                                               *)
(***************************************************************************)
\* mutant: the retry keeps the request
MessageKept(c) == <<c>>
\* what the buffer of c holds when it is written
Message(c) == CASE buf[c] = "request" -> <<c>>
                [] buf[c] = "empty"   -> <<>>
                [] OTHER              -> <<Torn>>
Written ==
  /\ op = "write" /\ outcome = "pending" /\ link = "up"
  /\ outcome' = "ok"
  /\ c2s' = c2s \o Message(Head(wq))
  /\ UNCHANGED <<call, buf, posted, wq, op, rx_size, from, s2c, link, resets, served,
                 timer, closed>>

\* four bytes of a body can be read as any size
SizeRead ==
  /\ op = "size" /\ outcome = "pending" /\ s2c # <<>>
  /\ outcome' = "ok"
  /\ s2c' = Tail(s2c)
  /\ IF Head(s2c)[2] = 0
     THEN rx_size' = Parts /\ from' = Head(s2c)[1]
     ELSE rx_size' \in 0 .. Parts + 1 /\ from' = None
  /\ UNCHANGED <<call, buf, posted, wq, op, c2s, link, resets, served, timer, closed>>

\* prepare(rx_size_)
Prepared == rx_size
\* async_read_some: some of what is there
BodyRead ==
  /\ op = "body" /\ outcome = "pending"
  /\ \E n \in 0 .. Prepared :
       /\ n <= Len(s2c)
       /\ n = 0 => Prepared = 0
       /\ s2c' = SubSeq(s2c, n + 1, Len(s2c))
       /\ rx_size' = rx_size - n
  /\ outcome' = "ok"
  /\ UNCHANGED <<call, buf, posted, wq, op, from, c2s, link, resets, served, timer, closed>>

\* an operation on a socket that is not connected any more: a write that finds
\* the connection broken says reset or broken pipe, a read reset or end of file
OperationFails ==
  /\ outcome = "pending" /\ link # "up"
  /\ outcome' \in IF link = "shut" THEN {"other"}
                  ELSE IF op = "write" THEN {"reset"} ELSE {"reset", "other"}
  /\ UNCHANGED <<call, buf, posted, wq, op, rx_size, from, net, timer, closed>>

\* the server or the network breaks the connection; what has arrived may still
\* be read
Reset ==
  /\ link = "up" /\ resets < MaxResets
  /\ link' = "down"
  /\ resets' = resets + 1
  /\ c2s' = <<>> /\ s2c' \in {<<>>, s2c}
  /\ UNCHANGED <<call, buf, strand, timer, closed, served>>

\* the server handles a request and answers; what follows a torn message is
\* taken as the rest of it, and answered as an error if it is answered at all
Serve ==
  /\ c2s # <<>> /\ link = "up"
  /\ \/ /\ Head(c2s) # Torn
        /\ c2s' = Tail(c2s)
        /\ s2c' = s2c \o Answer(Head(c2s))
        /\ served' = [served EXCEPT ![Head(c2s)] = @ + 1]
     \/ /\ Head(c2s) = Torn /\ Len(c2s) > 1
        /\ c2s' = Tail(Tail(c2s))
        /\ s2c' \in {s2c, s2c \o Answer(None)}
        /\ UNCHANGED served
  /\ UNCHANGED <<call, buf, strand, link, resets, timer, closed>>

-----------------------------------------------------------------------------
Init ==
  /\ call = [c \in Calls |-> "idle"]
  /\ buf = [c \in Calls |-> "request"]
  /\ posted = <<>> /\ wq = <<>>
  /\ op = "none" /\ outcome = "none" /\ rx_size = 0 /\ from = None
  /\ c2s = <<>> /\ s2c = <<>>
  /\ link = "up"
  /\ timer = [armed |-> FALSE, called |-> FALSE, waits |-> TRUE, expired |-> FALSE]
  /\ closed = FALSE
  /\ resets = 0
  /\ served = [c \in Calls |-> 0]

Handlers == AddWork \/ OnWrite \/ OnReadSize \/ OnReadBody
Environment == Written \/ SizeRead \/ BodyRead \/ OperationFails \/ Reset \/ Serve

Next ==
  \/ \E c \in Calls : Call(c)
  \/ \E c \in SyncCalls : Reconnect(c) \/ ReconnectRefused(c) \/ Throw(c) \/ Return(c)
  \/ Handlers
  \/ StartTimeoutTimer
  \/ Environment

Spec == Init /\ [][Next]_vars

\* The io threads run the handlers of a strand that are ready, the timer's
\* among them, and the socket reports what has happened.  Nothing makes the
\* server answer.  A blocked thread goes on.
FairSpec ==
  /\ Spec
  /\ WF_vars(Handlers)
  /\ WF_vars(StartTimeoutTimer)
  /\ WF_vars(TimeoutAction /\ StartTimeoutTimer)
  /\ WF_vars(OperationFails)
  /\ \A c \in SyncCalls : WF_vars(Reconnect(c) \/ ReconnectRefused(c) \/ Throw(c) \/ Return(c))

-----------------------------------------------------------------------------
\* The queue never stalls: it holds works exactly while an operation of the
\* front one is on its way, whatever fails and whoever replaces the socket (the
\* assertion of current_rx_buffer, nprpc_impl.hpp:74, and the chain of
\* pop_and_execute_next_task); and every work in it is some caller's that waits,
\* for whom on_executed or on_failed is called once.
QueueServed ==
  /\ (wq # <<>>) <=> (op # "none" /\ outcome # "none")
  /\ IsInjective(posted \o wq)
  /\ ToSet(posted \o wq) = {c \in Calls : call[c] \in {"waiting", "again"}}

\* As long as no timeout expires, a call that ends without an error has the
\* answer to its own request and no other, although answers do not say whose
\* they are; send_receive alone may also return with none (its second try).
OwnAnswer ==
  ~ timer.expired => \A c \in Calls : call[c] = "done" =>
    \/ buf[c] = "own" /\ served[c] > 0
    \/ c \in SyncCalls /\ buf[c] \in {"request", "empty", "partial"}

\* No request is carried out twice by the server, although send_receive writes
\* its buffer again when the connection was reset.
AtMostOnce == \A c \in Calls : served[c] <= 1

\* nprpc_impl.hpp:88: the endpoint is used to reconnect if the connection is
\* lost.  What send_receive writes to the new connection is its request.  It is
\* violated when the reset is met while reading: the buffer is the answer's then.
RetriesTheRequest == \A c \in Calls : call[c] = "again" /\ c \in ToSet(posted) => buf[c] = "request"

\* Every call ends, with an answer or an error, though the server stops
\* answering or the connection breaks: each of its operations is timed out, until
\* a blocking call fails and closes the connection, which ends the monitoring.
EveryCallEnds ==
  \A c \in Calls : call[c] # "idle" ~> call[c] \in {"done", "failed"} \/ closed
=============================================================================
