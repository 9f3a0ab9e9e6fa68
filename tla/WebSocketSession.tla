--------------------------- MODULE WebSocketSession ---------------------------
(***************************************************************************)
(* The two ends of an nprpc WebSocket connection.  Both are a               *)
(* WebSocketSession: both call and both serve, over one stream in each      *)
(* direction.  Requests carry a number, the answer carries it back, and     *)
(* pending_requests_ maps it to the handler.                                *)
(*                                                                          *)
(* The handlers of a session run on the strand of its socket, each one      *)
(* action; the threads that call are other threads.  What is written may    *)
(* reach the other end, and its answer come back, before on_write runs.     *)
(* The connection may break at any time: each end learns of it when its     *)
(* outstanding operations fail.                                             *)
(***************************************************************************)
EXTENDS Naturals, Sequences

CONSTANTS
  ClientCalls, \* calls of threads of the client
  ServerCalls, \* calls of threads of the server
  Error        \* what a handler is told when there is no answer

Calls == ClientCalls \cup ServerCalls
Ends == {"client", "server"}
Peer(e) == IF e = "client" THEN "server" ELSE "client"
Caller(k) == IF k \in ClientCalls THEN "client" ELSE "server"

ASSUME WebSocketAssumption ==
  /\ ClientCalls \cap ServerCalls = {}
  /\ Error \notin Calls

VARIABLES
  stage,           \* call -> idle, got (the session), posted, queued
  request_id,      \* call -> the number of its request
  next_request_id, \* end -> next_request_id_
  pending,         \* end -> pending_requests_, as pairs <<number, call>>
  queue,           \* end -> write_queue_
  reading,         \* end -> reading_
  writing,         \* end -> writing_
  writes,          \* end -> async_writes that have not completed
  closed,          \* end -> closed_
  wire,            \* end -> what it has written and the peer has not read
  broken,          \* the connection is
  served,          \* history: call -> times it was carried out
  outcome,         \* history: call -> what its handler was called with
  late             \* history: calls queued on a closed session

calls == <<stage, request_id, next_request_id>>
output == <<queue, writing, writes, wire>>
vars == <<calls, output, pending, reading, closed, broken, served, outcome, late>>

Request(k) == [type |-> "request", id |-> request_id[k], call |-> k]

-----------------------------------------------------------------------------
\* do_write with q in the queue and w on the wires: async_write of the front,
\* unless one is under way
WriteNow(e, q, w) ==
  /\ writing' = [writing EXCEPT ![e] = TRUE]
  /\ writes' = [writes EXCEPT ![e] = @ + 1]
  /\ wire' = IF broken THEN w ELSE [w EXCEPT ![e] = Append(@, Head(q))]

\* mutant: whether or not one is under way
DoWriteAlways(e, q, w) ==
  IF closed[e] \/ q = <<>>
  THEN wire' = w /\ UNCHANGED <<writing, writes>>
  ELSE WriteNow(e, q, w)
DoWrite(e, q, w) ==
  IF closed[e] \/ writing[e] \/ q = <<>>
  THEN wire' = w /\ UNCHANGED <<writing, writes>>
  ELSE WriteNow(e, q, w)

Enqueue(e, m, w) ==
  /\ queue' = [queue EXCEPT ![e] = Append(@, m)]
  /\ DoWrite(e, Append(queue[e], m), w)

\* close: whoever waits is told, and what is queued is dropped; its handlers
\* find nothing pending any more.  An async_write that runs goes on.
Close(e) ==
  /\ closed' = [closed EXCEPT ![e] = TRUE]
  /\ outcome' = [k \in Calls |-> IF \E p \in pending[e] : p[2] = k
                                 THEN Append(outcome[k], Error) ELSE outcome[k]]
  /\ pending' = [pending EXCEPT ![e] = {}]
  /\ queue' = [queue EXCEPT ![e] = <<>>]

-----------------------------------------------------------------------------
(***************************************************************************)
(* The calling threads.                                                     *)
(***************************************************************************)
\* get_session finds a session until close has taken it from the list
GetSession(k) ==
  /\ stage[k] = "idle" /\ ~ closed[Caller(k)]
  /\ stage' = [stage EXCEPT ![k] = "got"]
  /\ UNCHANGED <<request_id, next_request_id, output, pending, reading, closed, broken,
                 served, outcome, late>>

\* send_receive_async, to the post
Post(k) ==
  /\ stage[k] = "got"
  /\ stage' = [stage EXCEPT ![k] = "posted"]
  /\ request_id' = [request_id EXCEPT ![k] = next_request_id[Caller(k)]]
  /\ next_request_id' = [next_request_id EXCEPT ![Caller(k)] = @ + 1]
  /\ UNCHANGED <<output, pending, reading, closed, broken, served, outcome, late>>

-----------------------------------------------------------------------------
(***************************************************************************)
(* The strand of an end.                                                    *)
(***************************************************************************)
\* the posted handler does not look whether the session is closed
Send(k) ==
  LET e == Caller(k) IN
  /\ stage[k] = "posted"
  /\ stage' = [stage EXCEPT ![k] = "queued"]
  /\ pending' = [pending EXCEPT ![e] = @ \cup {<<request_id[k], k>>}]
  /\ Enqueue(e, Request(k), wire)
  /\ late' = IF closed[e] THEN late \cup {k} ELSE late
  /\ UNCHANGED <<request_id, next_request_id, reading, closed, broken, served, outcome>>

\* on_read of a message of the given type, then do_read
Received(e, type) ==
  /\ reading[e] /\ wire[Peer(e)] # <<>> /\ Head(wire[Peer(e)]).type = type
  /\ reading' = [reading EXCEPT ![e] = ~ closed[e]]
Message(e) == Head(wire[Peer(e)])
WireAfter(e) == [wire EXCEPT ![Peer(e)] = Tail(@)]

\* a request is carried out, and the answer queued with its number
OnRequest(e) ==
  /\ Received(e, "request")
  /\ served' = [served EXCEPT ![Message(e).call] = @ + 1]
  /\ Enqueue(e, [Message(e) EXCEPT !.type = "answer"], WireAfter(e))
  /\ UNCHANGED <<calls, pending, closed, broken, outcome, late>>

\* an answer goes to the handler with its number; others are dropped
\* mutant: the request stays pending
OnAnswerKeeps(e) ==
  /\ Received(e, "answer")
  /\ outcome' = [k \in Calls |-> IF <<Message(e).id, k>> \in pending[e]
                                 THEN Append(outcome[k], Message(e).call) ELSE outcome[k]]
  /\ wire' = WireAfter(e)
  /\ UNCHANGED <<calls, pending, queue, writing, writes, closed, broken, served, late>>
OnAnswer(e) ==
  /\ Received(e, "answer")
  /\ outcome' = [k \in Calls |-> IF <<Message(e).id, k>> \in pending[e]
                                 THEN Append(outcome[k], Message(e).call) ELSE outcome[k]]
  /\ pending' = [pending EXCEPT ![e] = {p \in @ : p[1] # Message(e).id}]
  /\ wire' = WireAfter(e)
  /\ UNCHANGED <<calls, queue, writing, writes, closed, broken, served, late>>

ReadFails(e) ==
  /\ reading[e] /\ broken
  /\ reading' = [reading EXCEPT ![e] = FALSE]
  /\ Close(e)
  /\ UNCHANGED <<calls, writing, writes, wire, broken, served, late>>

\* on_write pops the front, which is another message when the session was
\* closed meanwhile and one has been queued since
\* mutant: the next message waits until something is queued
OnWriteStops(e) ==
  /\ writes[e] > 0
  /\ writes' = [writes EXCEPT ![e] = @ - 1]
  /\ writing' = [writing EXCEPT ![e] = FALSE]
  /\ queue' = [queue EXCEPT ![e] = IF @ = <<>> THEN @ ELSE Tail(@)]
  /\ UNCHANGED <<calls, wire, pending, reading, closed, broken, served, outcome, late>>
OnWrite(e) ==
  LET q == IF queue[e] = <<>> THEN <<>> ELSE Tail(queue[e])
      again == q # <<>> /\ ~ closed[e] IN
  /\ writes[e] > 0
  /\ writes' = [writes EXCEPT ![e] = IF again THEN @ ELSE @ - 1]
  /\ writing' = [writing EXCEPT ![e] = again]
  /\ queue' = [queue EXCEPT ![e] = q]
  /\ wire' = IF again /\ ~ broken THEN [wire EXCEPT ![e] = Append(@, Head(q))] ELSE wire
  /\ UNCHANGED <<calls, pending, reading, closed, broken, served, outcome, late>>

\* writing_ stays set
WriteFails(e) ==
  /\ writes[e] > 0 /\ broken
  /\ writes' = [writes EXCEPT ![e] = @ - 1]
  /\ Close(e)
  /\ UNCHANGED <<calls, writing, wire, reading, broken, served, late>>

-----------------------------------------------------------------------------
Break ==
  /\ ~ broken
  /\ broken' = TRUE
  /\ UNCHANGED <<calls, output, pending, reading, closed, served, outcome, late>>

Init ==
  /\ stage = [k \in Calls |-> "idle"]
  /\ request_id = [k \in Calls |-> 0] /\ next_request_id = [e \in Ends |-> 1]
  /\ pending = [e \in Ends |-> {}] /\ queue = [e \in Ends |-> <<>>]
  /\ reading = [e \in Ends |-> TRUE] /\ writing = [e \in Ends |-> FALSE]
  /\ writes = [e \in Ends |-> 0] /\ closed = [e \in Ends |-> FALSE]
  /\ wire = [e \in Ends |-> <<>>] /\ broken = FALSE
  /\ served = [k \in Calls |-> 0] /\ outcome = [k \in Calls |-> <<>>] /\ late = {}

Strand(e) == OnRequest(e) \/ OnAnswer(e) \/ ReadFails(e) \/ OnWrite(e) \/ WriteFails(e)

Next == \/ \E k \in Calls : GetSession(k) \/ Post(k) \/ Send(k)
        \/ \E e \in Ends : Strand(e)
        \/ Break

\* Threads and strands run; a connection need not break, nor a call be made.
Fairness == /\ \A k \in Calls : WF_vars(Post(k)) /\ WF_vars(Send(k))
            /\ \A e \in Ends : WF_vars(Strand(e))

Spec == Init /\ [][Next]_vars /\ Fairness

-----------------------------------------------------------------------------
(***************************************************************************)
(* The sessions implement RemoteCalls: whatever the order of calls, answers *)
(* and failures at both ends, a call is carried out at most once, its       *)
(* handler is called at most once, and with its own answer                  *)
(* (websocket_session.cpp:95, :182).                                        *)
(***************************************************************************)
Abstract == INSTANCE RemoteCalls
ImplementsCalls == Abstract!Spec

(***************************************************************************)
(* A socket has one async_write at a time (what Beast asks for), although   *)
(* writes are begun from three places and a session can be closed and still *)
(* be given requests while one is under way (websocket_session.cpp:111).    *)
(***************************************************************************)
OneWrite == \A e \in Ends : writes[e] <= 1 /\ (writes[e] = 1 => writing[e])

(***************************************************************************)
(* A call that was made ends, with its answer or with an error when the     *)
(* connection breaks, unless its request was queued on a session that was   *)
(* closed already: nobody tells those (websocket_session.cpp:112, :270).    *)
(***************************************************************************)
EveryCallEnds == \A k \in Calls : stage[k] = "got" ~> outcome[k] # <<>> \/ k \in late

=============================================================================
