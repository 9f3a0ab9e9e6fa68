----------------------------- MODULE SocketProofs -----------------------------
(***************************************************************************)
(* The client connection never forgets a queued call, never has the server  *)
(* carry a request out twice, and, as long as no timeout expires, gives     *)
(* every call the answer to its own request: for any number of blocking and *)
(* asynchronous calls, answers in any number of pieces, and any number of   *)
(* broken connections.                                                      *)
(***************************************************************************)
EXTENDS SocketConnection, Lemmas

States == {"idle", "waiting", "again", "lost", "throwing", "dropping", "done", "failed"}
Outcomes == {"none", "pending", "ok"} \cup Errors

TypeOK ==
  /\ call \in [Calls -> States]
  /\ buf \in [Calls -> {"request", "empty", "partial", "own", "other"}]
  /\ posted \in Seq(Calls) /\ wq \in Seq(Calls)
  /\ op \in {"none", "write", "size", "body"} /\ outcome \in Outcomes
  /\ rx_size \in 0 .. Parts + 1 /\ from \in Calls \cup {None}
  /\ c2s \in Seq(Calls \cup {None}) /\ s2c \in Seq((Calls \cup {None}) \X (0 .. Parts))
  /\ link \in {"up", "down", "shut"}
  /\ timer \in [armed : BOOLEAN, called : BOOLEAN, waits : BOOLEAN, expired : BOOLEAN]
  /\ closed \in BOOLEAN /\ resets \in Nat
  /\ served \in [Calls -> Nat]

\* an operation is on its way exactly while there is work
OpInv ==
  /\ op = "none" <=> wq = <<>>
  /\ op = "none" <=> outcome = "none"

\* every call that waits is in one place of one queue
QueueInv ==
  /\ IsInjective(posted) /\ IsInjective(wq)
  /\ ToSet(posted) \cap ToSet(wq) = {}
  /\ ToSet(posted) \cup ToSet(wq) = {c \in Calls : call[c] \in {"waiting", "again"}}

Inv == TypeOK /\ OpInv /\ QueueInv

-----------------------------------------------------------------------------
(* The queue.                                                               *)

\* The front work is some caller's that waits.
LEMMA FrontWaits ==
  ASSUME Inv, wq # <<>>
  PROVE  /\ Head(wq) \in Calls /\ Head(wq) \in ToSet(wq)
         /\ call[Head(wq)] \in {"waiting", "again"}
<1>1. wq \in Seq(Calls) /\ IsInjective(wq) /\ ToSet(wq) \subseteq Calls
  BY SetOfSeq DEF Inv, TypeOK, QueueInv
<1>2. Head(wq) \in ToSet(wq)
  BY <1>1, TailSet
<1> QED
  BY <1>1, <1>2 DEF Inv, QueueInv

\* The work that has ended is taken out, and its caller does not wait.
LEMMA Popped ==
  ASSUME Inv, wq # <<>>, PopAndExecuteNext, UNCHANGED posted,
         NEW v \in States \ {"waiting", "again"},
         call' = [call EXCEPT ![Head(wq)] = v]
  PROVE  /\ OpInv' /\ QueueInv'
         /\ call' \in [Calls -> States] /\ posted' \in Seq(Calls) /\ wq' \in Seq(Calls)
         /\ op' \in {"none", "write"} /\ outcome' \in {"none", "pending"}
<1> DEFINE c == Head(wq)
<1>1. c \in Calls /\ c \in ToSet(wq)
  BY FrontWaits
<1>2. wq' = Tail(wq) /\ wq \in Seq(Calls) /\ IsInjective(wq) /\ call \in [Calls -> States]
  BY DEF PopAndExecuteNext, Inv, TypeOK, QueueInv
<1>3. wq' \in Seq(Calls) /\ IsInjective(wq') /\ ToSet(wq') = ToSet(wq) \ {c}
  BY <1>2, TailSet
<1>4. /\ op' \in {"none", "write"} /\ outcome' \in {"none", "pending"}
      /\ OpInv'
  BY <1>2 DEF PopAndExecuteNext, Begin, OpInv
<1> HIDE DEF c
<1>5. call' = [call EXCEPT ![c] = v]
  BY DEF c
<1>6. \A d \in Calls : call'[d] \in {"waiting", "again"} <=> d # c /\ call[d] \in {"waiting", "again"}
  BY <1>1, <1>2, <1>5
<1>7. QueueInv'
  BY <1>1, <1>3, <1>6 DEF Inv, QueueInv
<1> QED
  BY <1>1, <1>2, <1>3, <1>4, <1>5, <1>7 DEF Inv, TypeOK

\* A step that does not touch the queue.
LEMMA QueueSame ==
  ASSUME Inv, UNCHANGED <<posted, wq>>,
         op' = "none" <=> op = "none", outcome' = "none" <=> outcome = "none",
         \A c \in Calls : call'[c] \in {"waiting", "again"} <=> call[c] \in {"waiting", "again"}
  PROVE  OpInv' /\ QueueInv'
BY DEF Inv, OpInv, QueueInv

\* on_failed leaves no caller waiting, and none with an answer.
LEMMA FailureIsState ==
  ASSUME NEW c, NEW ec
  PROVE  FailureState(c, ec) \in {"failed", "dropping", "lost", "throwing"}
<1>1. CASE c \in AsyncCalls
  BY <1>1 DEF FailureState
<1>2. CASE c \notin AsyncCalls /\ call[c] = "again"
  BY <1>2 DEF FailureState
<1>3. CASE c \notin AsyncCalls /\ call[c] # "again" /\ call[c] = "waiting" /\ ec = "reset"
  BY <1>3 DEF FailureState
<1>4. CASE c \notin AsyncCalls /\ call[c] # "again" /\ ~(call[c] = "waiting" /\ ec = "reset")
  BY <1>4 DEF FailureState
<1> QED
  BY <1>1, <1>2, <1>3, <1>4

-----------------------------------------------------------------------------
(* The types and the queue, action by action.                               *)

\* The types and the queue hold before the first call.
LEMMA InitInv == Init => Inv
<1> SUFFICES ASSUME Init PROVE Inv
  OBVIOUS
<1> DEFINE e == <<>>
<1>1. e \in Seq(Calls) /\ Len(e) = 0 /\ 1 .. 0 = {} /\ e = <<>>
  OBVIOUS
<1>2. e \in Seq(Calls \cup {None}) /\ e \in Seq((Calls \cup {None}) \X (0 .. Parts))
  OBVIOUS
<1> HIDE DEF e
<1>3. IsInjective(e) /\ ToSet(e) = {}
  BY <1>1, InjectiveSeq, SetOfSeq
<1>4. TypeOK
  <2>1. /\ call \in [Calls -> States]
        /\ buf \in [Calls -> {"request", "empty", "partial", "own", "other"}]
        /\ served \in [Calls -> Nat]
    BY DEF Init, States
  <2>2. posted \in Seq(Calls) /\ wq \in Seq(Calls)
    BY <1>1 DEF Init
  <2>3. c2s \in Seq(Calls \cup {None}) /\ s2c \in Seq((Calls \cup {None}) \X (0 .. Parts))
    BY <1>1, <1>2 DEF Init
  <2>4. timer \in [armed : BOOLEAN, called : BOOLEAN, waits : BOOLEAN, expired : BOOLEAN]
    BY DEF Init
  <2>5. rx_size \in 0 .. Parts + 1 /\ resets \in Nat
    BY SocketAssumption DEF Init
  <2> QED
    BY <2>1, <2>2, <2>3, <2>4, <2>5 DEF Init, TypeOK, Outcomes
<1>5. OpInv /\ QueueInv
  BY <1>1, <1>3 DEF Init, OpInv, QueueInv
<1> QED
  BY <1>4, <1>5 DEF Inv

\* A caller posts its work and waits.
LEMMA CallInv ==
  ASSUME Inv, NEW c \in Calls, Call(c)
  PROVE  Inv'
<1>1. /\ call[c] = "idle" /\ call' = [call EXCEPT ![c] = "waiting"]
      /\ posted' = Append(posted, c) /\ UNCHANGED <<wq, op, outcome>>
  BY DEF Call
<1>2. posted \in Seq(Calls) /\ IsInjective(posted) /\ call \in [Calls -> States] /\ c \notin ToSet(posted)
  BY <1>1 DEF Inv, TypeOK, QueueInv
<1>3. posted' \in Seq(Calls) /\ ToSet(posted') = ToSet(posted) \cup {c} /\ IsInjective(posted')
  BY <1>1, <1>2, AppendSet
<1>4. call' \in [Calls -> States] /\ \A d \in Calls : call'[d] = IF d = c THEN "waiting" ELSE call[d]
  BY <1>1, <1>2 DEF States
<1>5. OpInv' /\ QueueInv'
  BY <1>1, <1>3, <1>4 DEF Inv, OpInv, QueueInv
<1>6. TypeOK'
  BY <1>3, <1>4 DEF Inv, TypeOK, Call, net
<1> QED
  BY <1>5, <1>6 DEF Inv

\* The posted work joins the queue.
LEMMA AddWorkInv ==
  ASSUME Inv, AddWork
  PROVE  Inv'
<1> DEFINE c == Head(posted)
<1>1. /\ posted # <<>> /\ posted' = Tail(posted) /\ wq' = Append(wq, c)
      /\ IF wq = <<>>
         THEN op' = "write" /\ outcome' = "pending" /\ timer' = [timer EXCEPT !.armed = TRUE, !.called = TRUE]
         ELSE UNCHANGED <<op, outcome, timer>>
      /\ UNCHANGED <<call, buf, rx_size, from, c2s, s2c, link, resets, served, closed>>
  BY DEF AddWork, Begin, Expires, net
<1>2. /\ posted \in Seq(Calls) /\ IsInjective(posted) /\ ToSet(posted) \subseteq Calls
      /\ wq \in Seq(Calls) /\ IsInjective(wq)
  BY SetOfSeq DEF Inv, TypeOK, QueueInv
<1>3. /\ c \in ToSet(posted) /\ posted' \in Seq(Calls) /\ IsInjective(posted')
      /\ ToSet(posted') = ToSet(posted) \ {c}
  BY <1>1, <1>2, TailSet
<1> HIDE DEF c
<1>4. c \in Calls /\ c \notin ToSet(wq)
  BY <1>2, <1>3 DEF Inv, QueueInv
<1>5. /\ wq' \in Seq(Calls) /\ ToSet(wq') = ToSet(wq) \cup {c} /\ IsInjective(wq')
  BY <1>1, <1>2, <1>4, AppendSet
<1>6. wq' # <<>>
  BY <1>2, <1>4, <1>5, SetOfSeq
<1>7. OpInv'
  BY <1>1, <1>6 DEF Inv, OpInv
<1>8. QueueInv'
  BY <1>1, <1>3, <1>4, <1>5 DEF Inv, QueueInv
<1>9. timer' \in [armed : BOOLEAN, called : BOOLEAN, waits : BOOLEAN, expired : BOOLEAN]
  BY <1>1 DEF Inv, TypeOK
<1>10. TypeOK'
  BY <1>1, <1>3, <1>5, <1>9 DEF Inv, TypeOK, Outcomes
<1> QED
  BY <1>7, <1>8, <1>10 DEF Inv

\* expires_at keeps the types.
LEMMA TimerTyped ==
  ASSUME Inv, NEW b \in BOOLEAN, Expires(b)
  PROVE  /\ timer' \in [armed : BOOLEAN, called : BOOLEAN, waits : BOOLEAN, expired : BOOLEAN]
         /\ timer'.expired = timer.expired
BY DEF Expires, Inv, TypeOK

\* What the three handlers do: the front's next operation begins, or its work
\* has ended, well or not, and the next one's begins.
Continued ==
  /\ op' \in {"size", "body"} /\ outcome' = "pending" /\ UNCHANGED <<call, wq>>
Ended ==
  /\ PopAndExecuteNext
  /\ \E v \in {"failed", "dropping", "lost", "throwing", "done"} : call' = [call EXCEPT ![Head(wq)] = v]

\* A handler goes on with the front or takes it out: the queue stays right.
LEMMA HandlerInv ==
  ASSUME Inv, wq # <<>>, Continued \/ Ended,
         UNCHANGED <<posted, rx_size, from, net, closed>>,
         buf' \in [Calls -> {"request", "empty", "partial", "own", "other"}],
         timer' \in [armed : BOOLEAN, called : BOOLEAN, waits : BOOLEAN, expired : BOOLEAN]
  PROVE  Inv'
<1>1. UNCHANGED <<posted, rx_size, from, c2s, s2c, link, resets, served, closed>>
  BY DEF net
<1>2. CASE Continued
  <2>1. op # "none" /\ outcome # "none"
    BY DEF Inv, OpInv
  <2>2. OpInv' /\ QueueInv'
    BY <1>1, <1>2, <2>1, QueueSame DEF Continued
  <2>3. TypeOK'
    BY <1>1, <1>2 DEF Inv, TypeOK, Continued, Outcomes
  <2> QED
    BY <2>2, <2>3 DEF Inv
<1>3. CASE Ended
  <2>1. PICK v \in States \ {"waiting", "again"} : call' = [call EXCEPT ![Head(wq)] = v]
    BY <1>3 DEF Ended, States
  <2>2. /\ OpInv' /\ QueueInv'
        /\ call' \in [Calls -> States] /\ posted' \in Seq(Calls) /\ wq' \in Seq(Calls)
        /\ op' \in {"none", "write"} /\ outcome' \in {"none", "pending"}
    BY <1>1, <1>3, <2>1, Popped DEF Ended
  <2>3. TypeOK'
    BY <1>1, <2>2 DEF Inv, TypeOK, Outcomes
  <2> QED
    BY <2>2, <2>3 DEF Inv
<1> QED
  BY <1>2, <1>3

\* on_failed and on_executed end the front's work.
LEMMA FrontEnds ==
  ASSUME PopAndExecuteNext, FrontDone \/ \E ec \in Outcomes : FrontFails(ec)
  PROVE  Ended
BY FailureIsState DEF Ended, FrontDone, FrontFails

\* on_write keeps the types and the queue.
LEMMA OnWriteInv ==
  ASSUME Inv, OnWrite
  PROVE  /\ Inv' /\ wq # <<>> /\ (Continued \/ Ended)
         /\ timer'.expired = timer.expired
<1>1. op = "write" /\ wq # <<>> /\ outcome \in Outcomes
  BY DEF OnWrite, Inv, OpInv, TypeOK
<1>2. UNCHANGED <<posted, rx_size, from, net, closed>>
  BY DEF OnWrite
<1>3. CASE outcome \in Errors
  <2>1. Ended /\ buf' = buf
    BY <1>1, <1>3, FrontEnds DEF OnWrite
  <2>2. /\ timer' \in [armed : BOOLEAN, called : BOOLEAN, waits : BOOLEAN, expired : BOOLEAN]
        /\ timer'.expired = timer.expired
    BY <1>3, TimerTyped DEF OnWrite, Inv, TypeOK
  <2> QED
    BY <1>1, <1>2, <2>1, <2>2, HandlerInv DEF Inv, TypeOK
<1>4. CASE outcome \notin Errors
  <2>1. Continued /\ buf' = [buf EXCEPT ![Head(wq)] = "empty"] /\ Expires(TRUE)
    BY <1>4 DEF OnWrite, Continued, Begin
  <2>2. buf' \in [Calls -> {"request", "empty", "partial", "own", "other"}]
    BY <2>1 DEF Inv, TypeOK
  <2> QED
    BY <1>1, <1>2, <2>1, <2>2, TimerTyped, HandlerInv
<1> QED
  BY <1>3, <1>4

\* on_read_size keeps the types and the queue.
LEMMA OnReadSizeInv ==
  ASSUME Inv, OnReadSize
  PROVE  /\ Inv' /\ wq # <<>> /\ (Continued \/ Ended)
         /\ timer'.expired = timer.expired
<1>1. op = "size" /\ wq # <<>> /\ outcome \in Outcomes
  BY DEF OnReadSize, Inv, OpInv, TypeOK
<1>2. UNCHANGED <<posted, rx_size, from, net, closed>>
  BY DEF OnReadSize
<1>3. CASE outcome \in Errors
  <2>1. FrontFails(outcome) /\ PopAndExecuteNext /\ NextExpires(FALSE) /\ buf' = buf
    BY <1>3 DEF OnReadSize, Errors
  <2>2. Ended
    BY <1>1, <2>1, FrontEnds
  <2>3. Expires(Tail(wq) # <<>>)
    BY <2>1 DEF NextExpires, Expires
  <2> QED
    BY <1>1, <1>2, <2>1, <2>2, <2>3, TimerTyped, HandlerInv DEF Inv, TypeOK
<1>4. CASE outcome = "ok" /\ rx_size > Parts
  <2>1. FrontDone /\ PopAndExecuteNext /\ NextExpires(FALSE) /\ buf' = buf
    BY <1>4 DEF OnReadSize, Errors
  <2>2. Ended
    BY <2>1, FrontEnds
  <2>3. Expires(Tail(wq) # <<>>)
    BY <2>1 DEF NextExpires, Expires
  <2> QED
    BY <1>1, <1>2, <2>1, <2>2, <2>3, TimerTyped, HandlerInv DEF Inv, TypeOK
<1>5. CASE outcome \notin Errors /\ ~(outcome = "ok" /\ rx_size > Parts)
  <2>1. Continued /\ buf' = [buf EXCEPT ![Head(wq)] = "partial"] /\ Expires(TRUE)
    BY <1>5 DEF OnReadSize, Continued, Begin
  <2>2. buf' \in [Calls -> {"request", "empty", "partial", "own", "other"}]
    BY <2>1 DEF Inv, TypeOK
  <2> QED
    BY <1>1, <1>2, <2>1, <2>2, TimerTyped, HandlerInv
<1> QED
  BY <1>3, <1>4, <1>5

\* on_read_body keeps the types and the queue.
LEMMA OnReadBodyInv ==
  ASSUME Inv, OnReadBody
  PROVE  /\ Inv' /\ wq # <<>> /\ (Continued \/ Ended)
         /\ timer'.expired = timer.expired
<1>1. op = "body" /\ wq # <<>> /\ outcome \in Outcomes
  BY DEF OnReadBody, Inv, OpInv, TypeOK
<1>2. UNCHANGED <<posted, rx_size, from, net, closed>>
  BY DEF OnReadBody
<1>3. CASE outcome \in Errors
  <2>1. FrontFails(outcome) /\ PopAndExecuteNext /\ NextExpires(FALSE) /\ buf' = buf
    BY <1>3 DEF OnReadBody, Errors
  <2>2. Ended
    BY <1>1, <2>1, FrontEnds
  <2>3. Expires(Tail(wq) # <<>>)
    BY <2>1 DEF NextExpires, Expires
  <2> QED
    BY <1>1, <1>2, <2>1, <2>2, <2>3, TimerTyped, HandlerInv DEF Inv, TypeOK
<1>4. CASE outcome = "ok" /\ rx_size # 0
  <2>1. Continued /\ buf' = buf /\ Expires(TRUE)
    BY <1>4 DEF OnReadBody, Continued, Begin, Errors
  <2> QED
    BY <1>1, <1>2, <2>1, TimerTyped, HandlerInv DEF Inv, TypeOK
<1>5. CASE outcome \notin Errors /\ ~(outcome = "ok" /\ rx_size # 0)
  <2>1. /\ buf' = [buf EXCEPT ![Head(wq)] = IF from = Head(wq) THEN "own" ELSE "other"]
        /\ FrontDone /\ PopAndExecuteNext /\ NextExpires(FALSE)
    BY <1>5 DEF OnReadBody
  <2>2. Ended
    BY <2>1, FrontEnds
  <2>3. Expires(Tail(wq) # <<>>)
    BY <2>1 DEF NextExpires, Expires
  <2>4. buf' \in [Calls -> {"request", "empty", "partial", "own", "other"}]
    BY <2>1 DEF Inv, TypeOK
  <2> QED
    BY <1>1, <1>2, <2>2, <2>3, <2>4, TimerTyped, HandlerInv
<1> QED
  BY <1>3, <1>4, <1>5

\* A timeout ends the pending operation and takes nothing out.
LEMMA TimerInv ==
  ASSUME Inv, StartTimeoutTimer
  PROVE  Inv'
<1>1. UNCHANGED <<call, buf, posted, wq, op, rx_size, from, s2c, link, resets, served, closed>>
  BY DEF StartTimeoutTimer
<1>2. /\ timer' \in [armed : BOOLEAN, called : BOOLEAN, waits : BOOLEAN, expired : BOOLEAN]
      /\ outcome' \in {outcome, "aborted"} /\ (outcome' # outcome => outcome = "pending")
      /\ c2s' \in {c2s, Append(c2s, Torn)}
  BY DEF StartTimeoutTimer, TimerEnds, TimeoutAction, TimerWaitsAgain, Inv, TypeOK
<1>3. c2s' \in Seq(Calls \cup {None}) /\ outcome' \in Outcomes
  <2>1. c2s \in Seq(Calls \cup {None}) /\ Torn \in Calls \cup {None}
    BY DEF Torn, Inv, TypeOK
  <2>2. Append(c2s, Torn) \in Seq(Calls \cup {None})
    BY <2>1
  <2> QED
    BY <1>2, <2>1, <2>2 DEF Inv, TypeOK, Outcomes, Errors
<1>4. OpInv' /\ QueueInv'
  BY <1>1, <1>2, QueueSame
<1>5. TypeOK'
  BY <1>1, <1>2, <1>3 DEF Inv, TypeOK
<1> QED
  BY <1>4, <1>5 DEF Inv

\* A caller that has reconnected posts its work again.
LEMMA ReconnectInv ==
  ASSUME Inv, NEW c \in Calls, Reconnect(c)
  PROVE  Inv'
<1>1. /\ call[c] = "lost" /\ call' = [call EXCEPT ![c] = "again"]
      /\ posted' = Append(posted, c) /\ UNCHANGED <<wq, op>>
      /\ outcome' = IF outcome = "pending" THEN "aborted" ELSE outcome
      /\ link' = "up" /\ c2s' = <<>> /\ s2c' = <<>>
      /\ UNCHANGED <<buf, rx_size, from, timer, closed, resets, served>>
  BY DEF Reconnect
<1>2. posted \in Seq(Calls) /\ IsInjective(posted) /\ call \in [Calls -> States] /\ c \notin ToSet(posted)
  BY <1>1 DEF Inv, TypeOK, QueueInv
<1>3. posted' \in Seq(Calls) /\ ToSet(posted') = ToSet(posted) \cup {c} /\ IsInjective(posted')
  BY <1>1, <1>2, AppendSet
<1>4. call' \in [Calls -> States] /\ \A d \in Calls : call'[d] = IF d = c THEN "again" ELSE call[d]
  BY <1>1, <1>2 DEF States
<1>5. OpInv' /\ QueueInv'
  BY <1>1, <1>3, <1>4 DEF Inv, OpInv, QueueInv
<1>6. outcome' \in Outcomes
  BY <1>1 DEF Inv, TypeOK, Outcomes, Errors
<1>7. c2s' \in Seq(Calls \cup {None}) /\ s2c' \in Seq((Calls \cup {None}) \X (0 .. Parts))
  BY <1>1
<1>8. TypeOK'
  BY <1>1, <1>3, <1>4, <1>6, <1>7 DEF Inv, TypeOK
<1> QED
  BY <1>5, <1>8 DEF Inv

\* What a caller's thread does at the end of its call.
LEMMA CallerInv ==
  ASSUME Inv, NEW c \in Calls, ReconnectRefused(c) \/ Throw(c) \/ Return(c)
  PROVE  /\ Inv' /\ UNCHANGED <<buf, posted, wq, op, rx_size, from, timer, served>>
         /\ call[c] \in {"lost", "throwing", "dropping"}
         /\ \E v \in {"failed", "done"} : call' = [call EXCEPT ![c] = v] /\ (v = "done" => Return(c))
         /\ \/ UNCHANGED <<outcome, c2s, s2c, link>>
            \/ /\ outcome' = IF outcome = "pending" THEN "aborted" ELSE outcome
               /\ c2s' = <<>> /\ s2c' = <<>> /\ link' = "shut"
<1>1. /\ UNCHANGED <<buf, posted, wq, op, rx_size, from, timer, resets, served>> /\ closed' = TRUE
      /\ call[c] \in {"lost", "throwing", "dropping"}
      /\ \/ UNCHANGED <<outcome, c2s, s2c, link>>
         \/ /\ outcome' = IF outcome = "pending" THEN "aborted" ELSE outcome
            /\ c2s' = <<>> /\ s2c' = <<>> /\ link' = "shut"
  BY DEF ReconnectRefused, Throw, Return, Close, strand, net
<1>2. PICK v \in {"failed", "done"} : call' = [call EXCEPT ![c] = v] /\ (v = "done" => Return(c))
  BY DEF ReconnectRefused, Throw, Return
<1>3. call' \in [Calls -> States] /\ \A d \in Calls : call'[d] = IF d = c THEN v ELSE call[d]
  BY <1>2 DEF Inv, TypeOK, States
<1>4. /\ outcome' \in Outcomes /\ (outcome' = "none" <=> outcome = "none")
      /\ c2s' \in Seq(Calls \cup {None}) /\ s2c' \in Seq((Calls \cup {None}) \X (0 .. Parts))
      /\ link' \in {"up", "down", "shut"}
  <2>1. CASE UNCHANGED <<outcome, c2s, s2c, link>>
    BY <2>1 DEF Inv, TypeOK
  <2>2. CASE /\ outcome' = IF outcome = "pending" THEN "aborted" ELSE outcome
             /\ c2s' = <<>> /\ s2c' = <<>> /\ link' = "shut"
    BY <2>2 DEF Inv, TypeOK, Outcomes, Errors
  <2> QED
    BY <1>1, <2>1, <2>2
<1>5. OpInv' /\ QueueInv'
  BY <1>1, <1>3, <1>4, QueueSame
<1>6. TypeOK'
  BY <1>1, <1>3, <1>4 DEF Inv, TypeOK
<1> QED
  BY <1>1, <1>2, <1>5, <1>6 DEF Inv

\* A message is one request, a piece of one, or nothing.
LEMMA MessageTyped ==
  ASSUME NEW c \in Calls
  PROVE  /\ Message(c) \in Seq(Calls \cup {None})
         /\ Message(c) \in {<<>>, <<c>>, <<Torn>>}
         /\ Message(c) = <<c>> => buf[c] = "request"
<1>1. <<c>> # <<Torn>> /\ <<c>> # <<>>
  <2>1. Torn # c
    BY SocketAssumption DEF Torn
  <2> QED
    BY <2>1
<1>2. buf[c] = "request" => Message(c) = <<c>>
  BY DEF Message
<1>3. buf[c] = "empty" => Message(c) = <<>>
  BY DEF Message
<1>4. buf[c] # "request" /\ buf[c] # "empty" => Message(c) = <<Torn>>
  BY DEF Message
<1>5. /\ <<>> \in Seq(Calls \cup {None}) /\ <<c>> \in Seq(Calls \cup {None})
      /\ <<Torn>> \in Seq(Calls \cup {None})
  BY DEF Torn
<1> QED
  BY <1>1, <1>2, <1>3, <1>4, <1>5

\* An answer is its size and Parts pieces.
LEMMA AnswerTyped ==
  ASSUME NEW c \in Calls \cup {None}
  PROVE  /\ Answer(c) \in Seq((Calls \cup {None}) \X (0 .. Parts))
         /\ Len(Answer(c)) = Parts + 1 /\ Head(Answer(c)) = <<c, 0>>
<1>1. Parts \in Nat /\ Parts + 1 \in Nat /\ 1 \in 1 .. Parts + 1
  BY SocketAssumption
<1>2. \A k \in 1 .. Parts + 1 : <<c, k - 1>> \in (Calls \cup {None}) \X (0 .. Parts)
  BY <1>1
<1>3. Answer(c) \in Seq((Calls \cup {None}) \X (0 .. Parts)) /\ Len(Answer(c)) = Parts + 1
  BY <1>1, <1>2 DEF Answer
<1>4. Answer(c)[1] = <<c, 0>>
  BY <1>1 DEF Answer
<1> QED
  BY <1>1, <1>3, <1>4

\* A list of two has a tail that is not empty.
LEMMA TailOfTwo ==
  ASSUME NEW S, NEW s \in Seq(S), Len(s) > 1
  PROVE  s # <<>> /\ Tail(s) \in Seq(S) /\ Tail(s) # <<>>
<1>1. s # <<>> /\ Len(s) \in Nat
  <2>1. Len(<<>>) = 0 /\ Len(s) \in Nat /\ Len(s) # 0
    OBVIOUS
  <2> QED
    BY <2>1
<1>2. Tail(s) \in Seq(S) /\ Len(Tail(s)) = Len(s) - 1
  BY <1>1
<1>3. Tail(s) # <<>>
  <2> DEFINE r == Tail(s)
  <2>1. Len(r) # 0
    BY <1>1, <1>2
  <2> HIDE DEF r
  <2>2. r # <<>>
    BY <2>1
  <2> QED
    BY <2>2 DEF r
<1> QED
  BY <1>1, <1>2, <1>3

\* The socket and the server do not touch the queue.
LEMMA EnvironmentInv ==
  ASSUME Inv, Environment
  PROVE  Inv' /\ UNCHANGED <<call, buf, posted, wq, op, timer>>
<1>1. UNCHANGED <<call, buf, posted, wq, op, timer, closed>>
  BY DEF Environment, Written, SizeRead, BodyRead, OperationFails, Reset, Serve, net, strand
<1>2. /\ c2s \in Seq(Calls \cup {None}) /\ s2c \in Seq((Calls \cup {None}) \X (0 .. Parts))
      /\ Parts \in Nat /\ rx_size \in 0 .. Parts + 1
      /\ outcome = "pending" => op # "none" /\ wq # <<>>
  BY SocketAssumption DEF Inv, TypeOK, OpInv
<1>3. CASE Written
  <2>1. Message(Head(wq)) \in Seq(Calls \cup {None})
    BY <1>2, <1>3, FrontWaits, MessageTyped DEF Written
  <2>2. c2s' \in Seq(Calls \cup {None})
    BY <1>2, <1>3, <2>1, ConcatProperties DEF Written
  <2>3. TypeOK'
    BY <1>1, <1>3, <2>2 DEF Inv, TypeOK, Written, Outcomes
  <2> QED
    BY <1>1, <1>3, <2>3, QueueSame DEF Inv, Written
<1>4. CASE SizeRead
  <2>1. s2c' \in Seq((Calls \cup {None}) \X (0 .. Parts)) /\ Head(s2c) \in (Calls \cup {None}) \X (0 .. Parts)
    BY <1>2, <1>4 DEF SizeRead
  <2>2. rx_size' \in 0 .. Parts + 1 /\ from' \in Calls \cup {None}
    BY <1>2, <1>4, <2>1 DEF SizeRead
  <2>3. TypeOK'
    BY <1>1, <1>4, <2>1, <2>2 DEF Inv, TypeOK, SizeRead, Outcomes
  <2> QED
    BY <1>1, <1>4, <2>3, QueueSame DEF Inv, SizeRead
<1>5. CASE BodyRead
  <2>1. PICK n \in 0 .. rx_size :
          n <= Len(s2c) /\ s2c' = SubSeq(s2c, n + 1, Len(s2c)) /\ rx_size' = rx_size - n
    BY <1>5 DEF BodyRead, Prepared
  <2>2. s2c' \in Seq((Calls \cup {None}) \X (0 .. Parts))
    BY <1>2, <2>1, SubSeqProperties
  <2>3. rx_size' \in 0 .. Parts + 1
    BY <1>2, <2>1
  <2>4. TypeOK'
    BY <1>1, <1>5, <2>2, <2>3 DEF Inv, TypeOK, BodyRead, Outcomes
  <2> QED
    BY <1>1, <1>5, <2>4, QueueSame DEF Inv, BodyRead
<1>6. CASE OperationFails
  <2>1. /\ outcome = "pending" /\ outcome' \in {"other", "reset"}
        /\ UNCHANGED <<rx_size, from, c2s, s2c, link, resets, served>>
    BY <1>6 DEF OperationFails, net
  <2>2. TypeOK'
    BY <1>1, <2>1 DEF Inv, TypeOK, Outcomes, Errors
  <2> QED
    BY <1>1, <2>1, <2>2, QueueSame DEF Inv
<1>7. CASE Reset
  <2>1. /\ UNCHANGED <<outcome, rx_size, from, served>> /\ link' = "down"
        /\ resets' \in Nat
        /\ c2s' = <<>> /\ s2c' \in {<<>>, s2c}
    BY <1>7 DEF Reset, strand, Inv, TypeOK
  <2>2. c2s' \in Seq(Calls \cup {None}) /\ s2c' \in Seq((Calls \cup {None}) \X (0 .. Parts))
    <3> DEFINE e == <<>>
    <3>1. e \in Seq(Calls \cup {None}) /\ e \in Seq((Calls \cup {None}) \X (0 .. Parts)) /\ e = <<>>
      OBVIOUS
    <3> HIDE DEF e
    <3> QED
      BY <1>2, <2>1, <3>1
  <2>3. TypeOK'
    BY <1>1, <2>1, <2>2 DEF Inv, TypeOK
  <2> QED
    BY <1>1, <2>1, <2>3, QueueSame DEF Inv
<1>8. CASE Serve
  <2>1. c2s # <<>> /\ UNCHANGED <<outcome, rx_size, from, link, resets>>
    BY <1>8 DEF Serve, strand
  <2>2. /\ Head(c2s) \in Calls \cup {None} /\ Tail(c2s) \in Seq(Calls \cup {None})
        /\ Tail(c2s) # <<>> => Tail(Tail(c2s)) \in Seq(Calls \cup {None})
    BY <1>2, <2>1
  <2>3. CASE /\ Head(c2s) # Torn
             /\ c2s' = Tail(c2s)
             /\ s2c' = s2c \o Answer(Head(c2s))
             /\ served' = [served EXCEPT ![Head(c2s)] = @ + 1]
    <3>1. s2c' \in Seq((Calls \cup {None}) \X (0 .. Parts))
      BY <1>2, <2>2, <2>3, AnswerTyped, ConcatProperties
    <3>2. served' \in [Calls -> Nat]
      <4>1. Head(c2s) \in Calls
        BY <2>2, <2>3 DEF Torn
      <4> QED
        BY <2>3, <4>1 DEF Inv, TypeOK
    <3>3. TypeOK'
      BY <1>1, <2>1, <2>2, <2>3, <3>1, <3>2 DEF Inv, TypeOK
    <3> QED
      BY <1>1, <2>1, <3>3, QueueSame DEF Inv
  <2>4. CASE /\ Head(c2s) = Torn /\ Len(c2s) > 1
             /\ c2s' = Tail(Tail(c2s))
             /\ s2c' \in {s2c, s2c \o Answer(None)}
             /\ UNCHANGED served
    <3>1. Tail(c2s) # <<>>
      <4>1. c2s \in Seq(Calls \cup {None}) /\ Len(c2s) > 1
        BY <1>2, <2>4
      <4> QED
        BY <4>1, TailOfTwo
    <3>2. s2c' \in Seq((Calls \cup {None}) \X (0 .. Parts))
      BY <1>2, <2>4, AnswerTyped, ConcatProperties
    <3>3. TypeOK'
      BY <1>1, <2>1, <2>2, <2>4, <3>1, <3>2 DEF Inv, TypeOK
    <3> QED
      BY <1>1, <2>1, <3>3, QueueSame DEF Inv
  <2> QED
    BY <1>8, <2>3, <2>4 DEF Serve
<1> QED
  BY <1>1, <1>3, <1>4, <1>5, <1>6, <1>7, <1>8 DEF Environment

\* A stuttering step changes nothing.
LEMMA StutterInv == ASSUME Inv, UNCHANGED vars PROVE Inv'
BY DEF vars, strand, net, Inv, TypeOK, OpInv, QueueInv

\* Every step keeps the types and the queue.
LEMMA NextInv == Inv /\ [Next]_vars => Inv'
<1> SUFFICES ASSUME Inv, [Next]_vars PROVE Inv'
  OBVIOUS
<1>1. SyncCalls \subseteq Calls
  BY DEF Calls
<1>2. CASE \E c \in Calls : Call(c)
  BY <1>2, CallInv
<1>3. CASE \E c \in SyncCalls : Reconnect(c) \/ ReconnectRefused(c) \/ Throw(c) \/ Return(c)
  BY <1>1, <1>3, ReconnectInv, CallerInv
<1>4. CASE Handlers
  BY <1>4, AddWorkInv, OnWriteInv, OnReadSizeInv, OnReadBodyInv DEF Handlers
<1>5. CASE StartTimeoutTimer
  BY <1>5, TimerInv
<1>6. CASE Environment
  BY <1>6, EnvironmentInv
<1>7. CASE UNCHANGED vars
  BY <1>7, StutterInv
<1> QED
  BY <1>2, <1>3, <1>4, <1>5, <1>6, <1>7 DEF Next

\* The types and the queue are an invariant of the connection.
LEMMA InvAlways == Spec => []Inv
BY InitInv, NextInv, PTL DEF Spec

-----------------------------------------------------------------------------
(* No request is carried out twice.                                         *)

\* a request is on the way once at most, pieces of messages left out
OnlyOnce(s) == \A i, j \in 1 .. Len(s) : s[i] = s[j] /\ s[i] # Torn => i = j

\* the front's request has been written, and its buffer is still the request
JustWritten(c) == op = "write" /\ outcome = "ok" /\ c = Head(wq)

\* A buffer that is still a request was never written, but for the front's
\* whose on_write has not run.
OnceInv ==
  /\ OnlyOnce(c2s)
  /\ \A c \in Calls : served[c] <= 1 /\ (c \in ToSet(c2s) => served[c] = 0)
  /\ \A c \in Calls : buf[c] = "request" /\ (c \in ToSet(c2s) \/ served[c] > 0) => JustWritten(c)

\* A new request, or a piece of one, is put behind the others.
LEMMA OnceAppend ==
  ASSUME NEW s \in Seq(Calls \cup {None}), OnlyOnce(s), NEW x \in Calls \cup {None},
         x = Torn \/ x \notin ToSet(s)
  PROVE  OnlyOnce(Append(s, x))
<1> DEFINE r == Append(s, x)
<1>1. /\ Len(s) \in Nat /\ Len(r) = Len(s) + 1
      /\ \A i \in 1 .. Len(r) : r[i] = IF i <= Len(s) THEN s[i] ELSE x
  BY AppendProperties
<1>2. ToSet(s) = {s[i] : i \in 1 .. Len(s)}
  BY SetOfSeq
<1> HIDE DEF r
<1> SUFFICES ASSUME NEW i \in 1 .. Len(r), NEW j \in 1 .. Len(r), r[i] = r[j], r[i] # Torn
             PROVE  i = j
  BY DEF OnlyOnce, r
<1>3. CASE i <= Len(s) /\ j <= Len(s)
  BY <1>1, <1>3 DEF OnlyOnce
<1>4. CASE i <= Len(s) /\ j = Len(s) + 1
  <2>1. s[i] = x /\ i \in 1 .. Len(s)
    BY <1>1, <1>4
  <2> QED
    BY <1>1, <1>2, <1>4, <2>1
<1>5. CASE j <= Len(s) /\ i = Len(s) + 1
  <2>1. s[j] = x /\ j \in 1 .. Len(s)
    BY <1>1, <1>5
  <2> QED
    BY <1>1, <1>2, <1>5, <2>1
<1>6. CASE i = Len(s) + 1 /\ j = Len(s) + 1
  BY <1>6
<1> QED
  BY <1>1, <1>3, <1>4, <1>5, <1>6

\* The request that is served is not behind itself.
LEMMA OnceTail ==
  ASSUME NEW s \in Seq(Calls \cup {None}), s # <<>>, OnlyOnce(s)
  PROVE  /\ OnlyOnce(Tail(s)) /\ ToSet(Tail(s)) \subseteq ToSet(s) /\ Head(s) \in ToSet(s)
         /\ Head(s) # Torn => Head(s) \notin ToSet(Tail(s))
<1> DEFINE r == Tail(s)
<1>1. /\ Len(s) \in Nat /\ 1 \in 1 .. Len(s) /\ r \in Seq(Calls \cup {None})
      /\ Len(r) = Len(s) - 1 /\ Head(s) = s[1]
      /\ \A i \in 1 .. Len(r) : r[i] = s[i + 1] /\ i + 1 \in 1 .. Len(s) /\ i + 1 # 1
  OBVIOUS
<1>2. ToSet(s) = {s[i] : i \in 1 .. Len(s)}
  BY SetOfSeq
<1> HIDE DEF r
<1>3. ToSet(r) = {r[i] : i \in 1 .. Len(r)}
  BY <1>1, SetOfSeq
<1>4. ToSet(r) \subseteq ToSet(s) /\ Head(s) \in ToSet(s)
  BY <1>1, <1>2, <1>3
<1>5. OnlyOnce(r)
  <2> SUFFICES ASSUME NEW i \in 1 .. Len(r), NEW j \in 1 .. Len(r), r[i] = r[j], r[i] # Torn
               PROVE  i = j
    BY DEF OnlyOnce
  <2>1. i + 1 = j + 1
    BY <1>1 DEF OnlyOnce
  <2> QED
    BY <2>1
<1>6. ASSUME Head(s) # Torn, Head(s) \in ToSet(r) PROVE FALSE
  <2>1. PICK i \in 1 .. Len(r) : r[i] = s[1]
    BY <1>1, <1>3, <1>6
  <2>2. i + 1 = 1
    BY <1>1, <1>6, <2>1 DEF OnlyOnce
  <2> QED
    BY <1>1, <2>2
<1> QED
  BY <1>4, <1>5, <1>6 DEF r

\* A step that writes no whole request and serves none.
LEMMA OnceKept ==
  ASSUME Inv, OnceInv, served' = served, c2s' \in {<<>>, c2s, Append(c2s, Torn)},
         \A c \in Calls : buf'[c] = "request" =>
           buf[c] = "request" /\ (JustWritten(c) => JustWritten(c)')
  PROVE  OnceInv'
<1>1. c2s \in Seq(Calls \cup {None}) /\ Torn \in Calls \cup {None} /\ Torn \notin Calls
  BY SocketAssumption DEF Inv, TypeOK, Torn
<1>2. OnlyOnce(c2s') /\ \A c \in Calls : c \in ToSet(c2s') => c \in ToSet(c2s)
  <2>1. CASE c2s' = c2s
    BY <2>1 DEF OnceInv
  <2>2. CASE c2s' = <<>>
    <3> DEFINE e == <<>>
    <3>1. Len(e) = 0 /\ 1 .. 0 = {} /\ e \in Seq(Calls) /\ e = <<>>
      OBVIOUS
    <3>2. c2s' = e
      BY <2>2
    <3> HIDE DEF e
    <3>3. ToSet(e) = {}
      BY <3>1, SetOfSeq
    <3>4. OnlyOnce(e)
      BY <3>1 DEF OnlyOnce
    <3> QED
      BY <3>2, <3>3, <3>4
  <2>3. CASE c2s' = Append(c2s, Torn)
    <3>1. OnlyOnce(Append(c2s, Torn))
      BY <1>1, OnceAppend DEF OnceInv
    <3>2. ToSet(Append(c2s, Torn)) = ToSet(c2s) \cup {Torn}
      BY <1>1, AppendSet
    <3> QED
      BY <1>1, <2>3, <3>1, <3>2
  <2> QED
    BY <2>1, <2>2, <2>3
<1>3. \A c \in Calls : served'[c] <= 1 /\ (c \in ToSet(c2s') => served'[c] = 0)
  BY <1>2 DEF OnceInv
<1>4. \A c \in Calls : buf'[c] = "request" /\ (c \in ToSet(c2s') \/ served'[c] > 0) => JustWritten(c)'
  BY <1>2 DEF OnceInv
<1> QED
  BY <1>2, <1>3, <1>4 DEF OnceInv

\* What is written is a request that was never written, or is none.
LEMMA WrittenOnce ==
  ASSUME Inv, OnceInv, Written
  PROVE  OnceInv'
<1> DEFINE c == Head(wq)
<1>1. /\ op = "write" /\ outcome = "pending" /\ outcome' = "ok"
      /\ c2s' = c2s \o Message(c) /\ UNCHANGED <<buf, wq, op, served>> /\ wq # <<>>
  BY DEF Written, Inv, OpInv
<1>2. c \in Calls /\ c2s \in Seq(Calls \cup {None}) /\ c \in Calls \cup {None}
  BY <1>1, FrontWaits DEF Inv, TypeOK
<1> HIDE DEF c
<1>3. /\ Message(c) \in {<<>>, <<c>>, <<Torn>>}
      /\ Message(c) = <<c>> => buf[c] = "request"
  BY <1>2, MessageTyped
<1>4. CASE Message(c) \in {<<>>, <<Torn>>}
  <2>1. c2s' \in {c2s, Append(c2s, Torn)}
    BY <1>1, <1>2, <1>4
  <2>2. \A d \in Calls : ~JustWritten(d)
    BY <1>1 DEF JustWritten
  <2> QED
    BY <1>1, <2>1, <2>2, OnceKept
<1>5. CASE Message(c) = <<c>>
  <2>1. c2s' = Append(c2s, c) /\ buf[c] = "request"
    BY <1>1, <1>2, <1>3, <1>5
  <2>2. c \notin ToSet(c2s) /\ ~(served[c] > 0)
    BY <1>1, <1>2, <2>1 DEF OnceInv, JustWritten
  <2>3. served[c] = 0
    BY <1>2, <2>2 DEF Inv, TypeOK
  <2>4. OnlyOnce(c2s') /\ ToSet(c2s') = ToSet(c2s) \cup {c}
    BY <1>2, <2>1, <2>2, OnceAppend, AppendSet DEF OnceInv
  <2>6. \A d \in Calls : d # c => ~JustWritten(d)
    BY <1>1 DEF JustWritten
  <2>7. \A d \in Calls : served'[d] <= 1 /\ (d \in ToSet(c2s') => served'[d] = 0)
    BY <1>1, <2>3, <2>4 DEF OnceInv
  <2>8. ASSUME NEW d \in Calls, buf'[d] = "request" /\ (d \in ToSet(c2s') \/ served'[d] > 0)
        PROVE  d = c
    <3>1. ASSUME d # c PROVE d \in ToSet(c2s) \/ served[d] > 0
      BY <1>1, <2>4, <2>8, <3>1
    <3>2. ASSUME d # c PROVE FALSE
      BY <1>1, <2>6, <2>8, <3>1, <3>2 DEF OnceInv
    <3> QED
      BY <3>2
  <2>9. \A d \in Calls : buf'[d] = "request" /\ (d \in ToSet(c2s') \/ served'[d] > 0) => JustWritten(d)'
    BY <1>1, <2>8 DEF JustWritten, c
  <2> QED
    BY <2>4, <2>7, <2>9 DEF OnceInv
<1> QED
  BY <1>3, <1>4, <1>5

\* The server takes the request it carries out from the socket.
LEMMA ServeOnce ==
  ASSUME Inv, OnceInv, Serve
  PROVE  OnceInv'
<1>1. c2s \in Seq(Calls \cup {None}) /\ c2s # <<>> /\ UNCHANGED <<buf, wq, op, outcome>>
  BY DEF Serve, strand, Inv, TypeOK
<1>2. \A c \in Calls : JustWritten(c)' <=> JustWritten(c)
  BY <1>1 DEF JustWritten
<1>3. /\ OnlyOnce(Tail(c2s)) /\ ToSet(Tail(c2s)) \subseteq ToSet(c2s) /\ Head(c2s) \in ToSet(c2s)
      /\ Head(c2s) # Torn => Head(c2s) \notin ToSet(Tail(c2s))
      /\ Tail(c2s) \in Seq(Calls \cup {None}) /\ Head(c2s) \in Calls \cup {None}
  BY <1>1, OnceTail DEF OnceInv
<1>4. CASE /\ Head(c2s) # Torn
           /\ c2s' = Tail(c2s)
           /\ served' = [served EXCEPT ![Head(c2s)] = @ + 1]
  <2> DEFINE d == Head(c2s)
  <2>1. d \in Calls /\ d \in ToSet(c2s) /\ served[d] = 0
    BY <1>3, <1>4 DEF Torn, OnceInv
  <2> HIDE DEF d
  <2>2. \A c \in Calls : served'[c] = IF c = d THEN 1 ELSE served[c]
    BY <1>4, <2>1 DEF Inv, TypeOK, d
  <2>3. \A c \in Calls : served'[c] <= 1 /\ (c \in ToSet(c2s') => served'[c] = 0)
    BY <1>3, <1>4, <2>2 DEF OnceInv, d
  <2>4. \A c \in Calls : c \in ToSet(c2s') \/ served'[c] > 0 => c \in ToSet(c2s) \/ served[c] > 0
    BY <1>3, <1>4, <2>1, <2>2
  <2>5. \A c \in Calls : buf'[c] = "request" /\ (c \in ToSet(c2s') \/ served'[c] > 0) => JustWritten(c)'
    BY <1>1, <1>2, <2>4 DEF OnceInv
  <2> QED
    BY <1>3, <1>4, <2>3, <2>5 DEF OnceInv
<1>5. CASE /\ Head(c2s) = Torn /\ Len(c2s) > 1
           /\ c2s' = Tail(Tail(c2s))
           /\ UNCHANGED served
  <2>1. Tail(c2s) # <<>>
    BY <1>1, <1>5, TailOfTwo
  <2>2. OnlyOnce(c2s') /\ ToSet(c2s') \subseteq ToSet(c2s)
    BY <1>3, <1>5, <2>1, OnceTail
  <2>3. \A c \in Calls : served'[c] <= 1 /\ (c \in ToSet(c2s') => served'[c] = 0)
    BY <1>5, <2>2 DEF OnceInv
  <2>4. \A c \in Calls : buf'[c] = "request" /\ (c \in ToSet(c2s') \/ served'[c] > 0) => JustWritten(c)'
    BY <1>1, <1>2, <1>5, <2>2 DEF OnceInv
  <2> QED
    BY <2>2, <2>3, <2>4 DEF OnceInv
<1> QED
  BY <1>4, <1>5 DEF Serve

\* Nothing is served before the first call.
LEMMA InitOnce == Init => OnceInv
<1> SUFFICES ASSUME Init PROVE OnceInv
  OBVIOUS
<1> DEFINE e == <<>>
<1>1. Len(e) = 0 /\ 1 .. 0 = {} /\ e \in Seq(Calls) /\ e = <<>>
  OBVIOUS
<1>2. c2s = e
  BY DEF Init
<1> HIDE DEF e
<1>3. ToSet(e) = {} /\ OnlyOnce(e)
  BY <1>1, SetOfSeq DEF OnlyOnce
<1> QED
  BY <1>2, <1>3 DEF Init, OnceInv

\* Every step keeps OnceInv.
LEMMA NextOnce == Inv /\ OnceInv /\ [Next]_vars => OnceInv'
<1> SUFFICES ASSUME Inv, OnceInv, [Next]_vars PROVE OnceInv'
  OBVIOUS
<1>1. CASE \E c \in Calls : Call(c)
  BY <1>1, OnceKept DEF Call, net, JustWritten
<1>2. CASE \E c \in SyncCalls : Reconnect(c)
  BY <1>2, OnceKept DEF Reconnect, JustWritten
<1>3. CASE \E c \in SyncCalls : ReconnectRefused(c) \/ Throw(c) \/ Return(c)
  <2>1. UNCHANGED <<buf, wq, op, served>> /\ c2s' \in {<<>>, c2s}
    BY <1>3 DEF ReconnectRefused, Throw, Return, strand, net
  <2>2. outcome = "ok" => outcome' = "ok"
    BY <1>3 DEF ReconnectRefused, Throw, Return, strand
  <2> QED
    BY <2>1, <2>2, OnceKept DEF JustWritten
<1>4. CASE AddWork
  <2>1. UNCHANGED <<buf, c2s, served>>
    BY <1>4 DEF AddWork, net
  <2>2. \A c \in Calls : JustWritten(c) => JustWritten(c)'
    <3>1. ASSUME op = "write" PROVE UNCHANGED <<op, outcome>> /\ wq' = Append(wq, Head(posted)) /\ wq # <<>>
      BY <1>4, <3>1 DEF AddWork, Inv, OpInv
    <3>2. wq # <<>> => Head(Append(wq, Head(posted))) = Head(wq)
      BY DEF Inv, TypeOK
    <3> QED
      BY <3>1, <3>2 DEF JustWritten
  <2> QED
    BY <2>1, <2>2, OnceKept
<1>5. CASE OnWrite
  <2>1. UNCHANGED <<c2s, served>>
    BY <1>5 DEF OnWrite, net
  <2>2. CASE outcome \in Errors
    BY <1>5, <2>1, <2>2, OnceKept DEF OnWrite, JustWritten, Errors
  <2>3. CASE outcome \notin Errors
    <3>1. buf' = [buf EXCEPT ![Head(wq)] = "empty"] /\ wq # <<>>
      BY <1>5, <2>3 DEF OnWrite, Inv, OpInv
    <3>2. \A c \in Calls : buf'[c] = "request" => buf[c] = "request" /\ c # Head(wq)
      BY <3>1, FrontWaits DEF Inv, TypeOK
    <3> QED
      BY <2>1, <3>2, OnceKept DEF JustWritten
  <2> QED
    BY <2>2, <2>3
<1>6. CASE OnReadSize \/ OnReadBody
  <2>1. UNCHANGED <<c2s, served>> /\ op \in {"size", "body"} /\ outcome \in Outcomes
    BY <1>6 DEF OnReadSize, OnReadBody, net, Inv, TypeOK
  <2>2. \E v \in {"partial", "own", "other"} : buf' \in {buf, [buf EXCEPT ![Head(wq)] = v]}
    <3>1. CASE OnReadSize
      BY <2>1, <3>1 DEF OnReadSize, Outcomes, Errors
    <3>2. CASE OnReadBody
      BY <2>1, <3>2 DEF OnReadBody, Outcomes, Errors
    <3> QED
      BY <1>6, <3>1, <3>2
  <2>3. \A c \in Calls : buf'[c] = "request" => buf[c] = "request"
    BY <2>2 DEF Inv, TypeOK
  <2> QED
    BY <2>1, <2>3, OnceKept DEF JustWritten
<1>7. CASE StartTimeoutTimer
  <2>1. UNCHANGED <<buf, wq, op, served>> /\ c2s' \in {c2s, Append(c2s, Torn)}
    BY <1>7 DEF StartTimeoutTimer, TimerEnds, TimeoutAction, TimerWaitsAgain
  <2>2. outcome = "ok" => outcome' = "ok"
    BY <1>7 DEF StartTimeoutTimer, TimerEnds, TimeoutAction, TimerWaitsAgain
  <2> QED
    BY <2>1, <2>2, OnceKept DEF JustWritten
<1>8. CASE SizeRead \/ BodyRead \/ OperationFails \/ Reset
  <2>1. UNCHANGED <<buf, wq, op, served>> /\ c2s' \in {<<>>, c2s}
    BY <1>8 DEF SizeRead, BodyRead, OperationFails, Reset, strand, net
  <2>2. outcome = "ok" => outcome' = "ok"
    BY <1>8 DEF SizeRead, BodyRead, OperationFails, Reset, strand
  <2> QED
    BY <2>1, <2>2, OnceKept DEF JustWritten
<1>9. CASE Written \/ Serve
  BY <1>9, WrittenOnce, ServeOnce
<1>10. CASE UNCHANGED vars
  BY <1>10, OnceKept DEF vars, strand, net, JustWritten
<1> QED
  BY <1>1, <1>2, <1>3, <1>4, <1>5, <1>6, <1>7, <1>8, <1>9, <1>10 DEF Next, Handlers, Environment

-----------------------------------------------------------------------------
(* The answer to the own request.                                           *)

Work == Head(wq)
\* what is left of the answer to c when n pieces of its body are to come
Rest(c, n) == [k \in 1 .. n |-> <<c, Parts - n + k>>]
IsSent == op \in {"size", "body"} \/ (op = "write" /\ outcome = "ok")
Clean == c2s = <<>> /\ s2c = <<>>

BufferKept == \A c \in Calls : buf[c] \in {"own", "other"} => call[c] = "done"
DoneRight == \A c \in Calls : call[c] = "done" =>
    \/ buf[c] = "own" /\ served[c] > 0
    \/ c \in SyncCalls /\ buf[c] \in {"request", "empty", "partial"}

NothingToServe == link # "up" => c2s = <<>>
\* no answer of an earlier work is left on a connection that is in use
NothingLeft == link = "up" /\ (~ IsSent \/ outcome \in Errors) => Clean
\* the front's request is on its way, or its answer is
Asked ==
  (op = "write" /\ outcome = "ok") \/ (op = "size" /\ outcome = "pending") =>
    \/ s2c = <<>> /\ c2s \in {<<>>, <<Work>>, <<Torn>>}
    \/ c2s = <<>> /\ s2c = Answer(Work) /\ served[Work] > 0
\* what is read is the front's
Answered ==
  /\ op = "size" /\ outcome = "ok" => rx_size = Parts
  /\ (op = "size" /\ outcome = "ok") \/ (op = "body" /\ outcome \in {"pending", "ok"}) =>
       /\ from = Work /\ served[Work] > 0 /\ c2s = <<>>
       /\ s2c \in {<<>>, Rest(Work, rx_size)}
Streams == NothingToServe /\ NothingLeft /\ Asked /\ Answered

AnswerInv == BufferKept /\ (~ timer.expired => DoneRight /\ Streams)

\* The pieces that are left after the size, or after n more of them.
LEMMA RestOfAnswer ==
  ASSUME NEW c \in Calls \cup {None}
  PROVE  Tail(Answer(c)) = Rest(c, Parts)
<1> DEFINE a == Answer(c)
           t == Tail(a)
<1>1. Parts \in Nat /\ a \in Seq((Calls \cup {None}) \X (0 .. Parts)) /\ Len(a) = Parts + 1
  BY AnswerTyped, SocketAssumption
<1>2. \A k \in 1 .. Parts + 1 : a[k] = <<c, k - 1>>
  BY <1>1 DEF Answer
<1> HIDE DEF a
<1>3. a # <<>>
  BY <1>1
<1>4. t = [k \in 1 .. Parts |-> a[k + 1]]
  <2>1. Len(a) - 1 = Parts
    BY <1>1
  <2>2. t \in Seq((Calls \cup {None}) \X (0 .. Parts)) /\ Len(t) = Len(a) - 1
    BY <1>1, <1>3
  <2>3. \A k \in 1 .. Len(a) - 1 : t[k] = a[k + 1]
    BY <1>1, <1>3
  <2> HIDE DEF t
  <2>4. DOMAIN t = 1 .. Parts /\ t = [k \in DOMAIN t |-> t[k]]
    BY <2>1, <2>2
  <2> QED
    BY <2>1, <2>3, <2>4
<1>5. \A k \in 1 .. Parts : a[k + 1] = <<c, Parts - Parts + k>>
  BY <1>1, <1>2
<1> QED
  BY <1>4, <1>5 DEF Rest, a

\* The pieces that are left after n more of them.
LEMMA RestOfRest ==
  ASSUME NEW c \in Calls \cup {None}, NEW r \in 0 .. Parts + 1, NEW n \in 0 .. r
  PROVE  /\ Len(Rest(c, r)) = r
         /\ SubSeq(Rest(c, r), n + 1, Len(Rest(c, r))) = Rest(c, r - n)
<1> DEFINE a == Rest(c, r)
<1>1. Parts \in Nat /\ r \in Nat /\ n \in Nat /\ n <= r /\ r - n \in Nat
  BY SocketAssumption
<1>2. Len(a) = r /\ \A k \in 1 .. r : a[k] = <<c, Parts - r + k>>
  BY <1>1 DEF Rest
<1> HIDE DEF a
<1>3. SubSeq(a, n + 1, r) = [k \in 1 .. r - n |-> a[n + k]]
  BY <1>1
<1>4. \A k \in 1 .. r - n : a[n + k] = <<c, Parts - (r - n) + k>>
  BY <1>1, <1>2
<1> QED
  BY <1>2, <1>3, <1>4 DEF Rest, a

\* A step that does not touch what the strand and the socket are doing.
LEMMA StreamsSame ==
  ASSUME Streams, UNCHANGED <<op, outcome, rx_size, from, c2s, s2c, link, served>>,
         wq # <<>> => Head(wq') = Head(wq),
         (op = "none") <=> wq = <<>>
  PROVE  Streams'
<1>1. op # "none" => Work' = Work
  BY DEF Work
<1>2. NothingToServe' /\ NothingLeft'
  BY DEF Streams, NothingToServe, NothingLeft, IsSent, Clean, Errors
<1>3. Asked'
  <2> SUFFICES ASSUME (op' = "write" /\ outcome' = "ok") \/ (op' = "size" /\ outcome' = "pending")
               PROVE  \/ s2c' = <<>> /\ c2s' \in {<<>>, <<Work'>>, <<Torn>>}
                      \/ c2s' = <<>> /\ s2c' = Answer(Work') /\ served'[Work'] > 0
    BY DEF Asked, Torn, Answer
  <2>1. Work' = Work
    BY <1>1
  <2>2. \/ s2c = <<>> /\ c2s \in {<<>>, <<Work>>, <<Torn>>}
        \/ c2s = <<>> /\ s2c = Answer(Work) /\ served[Work] > 0
    BY DEF Streams, Asked
  <2> QED
    BY <2>1, <2>2
<1>4. Answered'
  <2>1. op # "none" => Rest(Work, rx_size)' = Rest(Work, rx_size)
    BY <1>1 DEF Rest
  <2> QED
    BY <1>1, <2>1 DEF Streams, Answered
<1> QED
  BY <1>2, <1>3, <1>4 DEF Streams

\* The front's work fails, and the next one's write begins.
LEMMA FailedAnswer ==
  ASSUME Inv, AnswerInv, wq # <<>>, outcome \in Errors, FrontFails(outcome),
         PopAndExecuteNext, UNCHANGED <<buf, net>>, timer'.expired = timer.expired
  PROVE  AnswerInv'
<1>1. PICK v \in {"failed", "dropping", "lost", "throwing"} : call' = [call EXCEPT ![Head(wq)] = v]
  BY FailureIsState DEF FrontFails
<1>2. /\ \A c \in Calls : call'[c] = "done" <=> call[c] = "done"
      /\ UNCHANGED <<c2s, s2c, link, served>>
  BY <1>1, FrontWaits DEF Inv, TypeOK, net
<1>3. \/ op' = "none" /\ outcome' = "none"
      \/ op' = "write" /\ outcome' = "pending"
  BY DEF PopAndExecuteNext, Begin
<1>4. BufferKept'
  BY <1>2 DEF AnswerInv, BufferKept
<1>5. ASSUME ~ timer'.expired PROVE DoneRight' /\ Streams'
  <2>1. DoneRight /\ Streams
    BY <1>5 DEF AnswerInv
  <2>2. DoneRight'
    BY <1>2, <2>1 DEF DoneRight
  <2>3. NothingToServe' /\ NothingLeft'
    BY <1>2, <1>3, <2>1 DEF Streams, NothingToServe, NothingLeft, Clean
  <2>4. Asked' /\ Answered'
    BY <1>3 DEF Asked, Answered
  <2> QED
    BY <2>2, <2>3, <2>4 DEF Streams
<1> QED
  BY <1>4, <1>5 DEF AnswerInv

\* on_write empties the buffer and waits for the answer of the front.
LEMMA OnWriteAnswer ==
  ASSUME Inv, AnswerInv, OnWrite
  PROVE  AnswerInv'
<1>1. /\ wq # <<>> /\ timer'.expired = timer.expired /\ op = "write"
      /\ outcome \in {"ok"} \cup Errors /\ UNCHANGED <<rx_size, from, net>>
  BY OnWriteInv DEF OnWrite, Inv, TypeOK, OpInv, Outcomes
<1>2. CASE outcome \in Errors
  <2>1. FrontFails(outcome) /\ PopAndExecuteNext /\ UNCHANGED buf
    BY <1>2 DEF OnWrite
  <2> QED
    BY <1>1, <1>2, <2>1, FailedAnswer
<1>3. CASE outcome = "ok"
  <2>1. /\ op' = "size" /\ outcome' = "pending" /\ UNCHANGED <<call, wq, c2s, s2c, link, served>>
        /\ buf' = [buf EXCEPT ![Head(wq)] = "empty"]
    BY <1>1, <1>3 DEF OnWrite, Begin, Errors, net
  <2>2. call[Head(wq)] # "done" /\ \A c \in Calls : c # Head(wq) => buf'[c] = buf[c]
    BY <1>1, <2>1, FrontWaits DEF Inv, TypeOK
  <2>3. buf'[Head(wq)] = "empty"
    BY <1>1, <2>1, FrontWaits DEF Inv, TypeOK
  <2>4. BufferKept'
    BY <2>1, <2>2, <2>3 DEF AnswerInv, BufferKept
  <2>5. ASSUME ~ timer'.expired PROVE DoneRight' /\ Streams'
    <3>1. DoneRight /\ Streams
      BY <1>1, <2>5 DEF AnswerInv
    <3>2. DoneRight'
      BY <2>1, <2>2, <3>1 DEF DoneRight
    <3>3. NothingToServe' /\ NothingLeft' /\ Answered'
      BY <2>1, <3>1 DEF Streams, NothingToServe, NothingLeft, IsSent, Errors, Answered
    <3>4. \/ s2c = <<>> /\ c2s \in {<<>>, <<Work>>, <<Torn>>}
          \/ c2s = <<>> /\ s2c = Answer(Work) /\ served[Work] > 0
      BY <1>1, <1>3, <3>1 DEF Streams, Asked
    <3>5. Asked'
      BY <2>1, <3>4 DEF Asked, Work, Torn, Answer
    <3> QED
      BY <3>2, <3>3, <3>5 DEF Streams
  <2> QED
    BY <2>4, <2>5 DEF AnswerInv
<1> QED
  BY <1>1, <1>2, <1>3

\* on_read_size has the size of the answer of the front, never one too large.
LEMMA OnReadSizeAnswer ==
  ASSUME Inv, AnswerInv, OnReadSize
  PROVE  AnswerInv'
<1>1. /\ wq # <<>> /\ timer'.expired = timer.expired /\ op = "size"
      /\ outcome \in {"ok"} \cup Errors /\ UNCHANGED <<rx_size, from, net>>
  BY OnReadSizeInv DEF OnReadSize, Inv, TypeOK, OpInv, Outcomes
<1>2. CASE outcome \in Errors
  <2>1. FrontFails(outcome) /\ PopAndExecuteNext /\ UNCHANGED buf
    BY <1>2 DEF OnReadSize, Errors
  <2> QED
    BY <1>1, <1>2, <2>1, FailedAnswer
<1>3. UNCHANGED <<c2s, s2c, link, served>>
  BY <1>1 DEF net
<1>4. CASE outcome = "ok" /\ rx_size > Parts
  <2>1. call' = [call EXCEPT ![Head(wq)] = "done"] /\ buf' = buf
    BY <1>4 DEF OnReadSize, Errors, FrontDone
  <2>2. BufferKept'
    BY <2>1 DEF AnswerInv, BufferKept, Inv, TypeOK
  <2>3. ASSUME ~ timer'.expired PROVE FALSE
    <3>1. rx_size = Parts /\ Parts \in Nat
      BY <1>1, <1>4, <2>3, SocketAssumption DEF AnswerInv, Streams, Answered
    <3> QED
      BY <1>4, <3>1
  <2> QED
    BY <2>2, <2>3 DEF AnswerInv
<1>5. CASE outcome = "ok" /\ ~(rx_size > Parts)
  <2>1. /\ op' = "body" /\ outcome' = "pending" /\ UNCHANGED <<call, wq>>
        /\ buf' = [buf EXCEPT ![Head(wq)] = "partial"]
    BY <1>5 DEF OnReadSize, Begin, Errors
  <2>2. call[Head(wq)] # "done" /\ \A c \in Calls : c # Head(wq) => buf'[c] = buf[c]
    BY <1>1, <2>1, FrontWaits DEF Inv, TypeOK
  <2>3. buf'[Head(wq)] = "partial"
    BY <1>1, <2>1, FrontWaits DEF Inv, TypeOK
  <2>4. BufferKept'
    BY <2>1, <2>2, <2>3 DEF AnswerInv, BufferKept
  <2>5. ASSUME ~ timer'.expired PROVE DoneRight' /\ Streams'
    <3>1. DoneRight /\ Streams
      BY <1>1, <2>5 DEF AnswerInv
    <3>2. DoneRight'
      BY <1>3, <2>1, <2>2, <3>1 DEF DoneRight
    <3>3. NothingToServe' /\ NothingLeft' /\ Asked'
      BY <1>3, <2>1, <3>1 DEF Streams, NothingToServe, NothingLeft, IsSent, Errors, Asked
    <3>4. /\ from = Work /\ served[Work] > 0 /\ c2s = <<>>
          /\ s2c \in {<<>>, Rest(Work, rx_size)}
      BY <1>1, <1>5, <3>1 DEF Streams, Answered
    <3>5. Work' = Work /\ Rest(Work, rx_size)' = Rest(Work, rx_size)
      BY <1>1, <2>1 DEF Work, Rest
    <3>6. Answered'
      BY <1>1, <1>3, <2>1, <3>4, <3>5 DEF Answered
    <3> QED
      BY <3>2, <3>3, <3>6 DEF Streams
  <2> QED
    BY <2>4, <2>5 DEF AnswerInv
<1> QED
  BY <1>1, <1>2, <1>4, <1>5

\* on_read_body completes the answer of the front, and leaves none of it.
LEMMA OnReadBodyAnswer ==
  ASSUME Inv, AnswerInv, OnReadBody
  PROVE  AnswerInv'
<1>1. /\ wq # <<>> /\ timer'.expired = timer.expired /\ op = "body"
      /\ outcome \in {"ok"} \cup Errors /\ UNCHANGED <<rx_size, from, net>>
  BY OnReadBodyInv DEF OnReadBody, Inv, TypeOK, OpInv, Outcomes
<1>2. CASE outcome \in Errors
  <2>1. FrontFails(outcome) /\ PopAndExecuteNext /\ UNCHANGED buf
    BY <1>2 DEF OnReadBody, Errors
  <2> QED
    BY <1>1, <1>2, <2>1, FailedAnswer
<1>3. UNCHANGED <<c2s, s2c, link, served>>
  BY <1>1 DEF net
<1>4. ASSUME outcome = "ok", ~ timer.expired
      PROVE  /\ from = Work /\ served[Work] > 0 /\ c2s = <<>>
             /\ s2c \in {<<>>, Rest(Work, rx_size)}
  BY <1>1, <1>4 DEF AnswerInv, Streams, Answered
<1>5. CASE outcome = "ok" /\ rx_size # 0
  <2>1. /\ op' = "body" /\ outcome' = "pending" /\ UNCHANGED <<call, wq, buf>>
    BY <1>5 DEF OnReadBody, Begin, Errors
  <2>2. BufferKept'
    BY <2>1 DEF AnswerInv, BufferKept
  <2>3. ASSUME ~ timer'.expired PROVE DoneRight' /\ Streams'
    <3>1. DoneRight /\ Streams
      BY <1>1, <2>3 DEF AnswerInv
    <3>2. DoneRight'
      BY <1>3, <2>1, <3>1 DEF DoneRight
    <3>3. NothingToServe' /\ NothingLeft' /\ Asked'
      BY <1>3, <2>1, <3>1 DEF Streams, NothingToServe, NothingLeft, IsSent, Errors, Asked
    <3>4. Work' = Work /\ Rest(Work, rx_size)' = Rest(Work, rx_size)
      BY <1>1, <2>1 DEF Work, Rest
    <3>5. Answered'
      BY <1>1, <1>3, <1>4, <1>5, <2>1, <2>3, <3>4 DEF Answered
    <3> QED
      BY <3>2, <3>3, <3>5 DEF Streams
  <2> QED
    BY <2>2, <2>3 DEF AnswerInv
<1>6. CASE outcome = "ok" /\ rx_size = 0
  <2>1. /\ call' = [call EXCEPT ![Head(wq)] = "done"]
        /\ buf' = [buf EXCEPT ![Head(wq)] = IF from = Head(wq) THEN "own" ELSE "other"]
        /\ PopAndExecuteNext
    BY <1>6 DEF OnReadBody, Errors, FrontDone
  <2>2. Work \in Calls /\ call[Work] # "done" /\ call'[Work] = "done"
    BY <1>1, <2>1, FrontWaits DEF Inv, TypeOK, Work
  <2>3. \A c \in Calls : c # Work => buf'[c] = buf[c] /\ call'[c] = call[c]
    BY <2>1 DEF Inv, TypeOK, Work
  <2>4. BufferKept'
    BY <2>2, <2>3 DEF AnswerInv, BufferKept
  <2>5. ASSUME ~ timer'.expired PROVE DoneRight' /\ Streams'
    <3>1. DoneRight /\ Streams
      BY <1>1, <2>5 DEF AnswerInv
    <3>2. buf'[Work] = "own" /\ served'[Work] > 0
      BY <1>1, <1>3, <1>4, <1>6, <2>1, <2>2, <2>5 DEF Inv, TypeOK, Work
    <3>3. DoneRight'
      BY <1>3, <2>3, <3>1, <3>2 DEF DoneRight
    <3>4. \/ op' = "none" /\ outcome' = "none"
          \/ op' = "write" /\ outcome' = "pending"
      BY <2>1 DEF PopAndExecuteNext, Begin
    <3>5. Rest(Work, 0) = <<>>
      BY DEF Rest
    <3>6. c2s' = <<>> /\ s2c' = <<>>
      BY <1>1, <1>3, <1>4, <1>6, <2>5, <3>5
    <3>7. NothingToServe' /\ NothingLeft'
      BY <3>6 DEF NothingToServe, NothingLeft, Clean
    <3>8. Asked' /\ Answered'
      BY <3>4 DEF Asked, Answered
    <3> QED
      BY <3>3, <3>7, <3>8 DEF Streams
  <2> QED
    BY <2>4, <2>5 DEF AnswerInv
<1> QED
  BY <1>1, <1>2, <1>5, <1>6

\* A caller that reconnects is alone with a clean connection.
LEMMA ReconnectAnswer ==
  ASSUME Inv, AnswerInv, NEW c \in Calls, Reconnect(c)
  PROVE  AnswerInv'
<1>1. /\ call[c] = "lost" /\ call' = [call EXCEPT ![c] = "again"]
      /\ UNCHANGED <<buf, wq, op, rx_size, from, timer, served>>
      /\ outcome' = IF outcome = "pending" THEN "aborted" ELSE outcome
      /\ link' = "up" /\ c2s' = <<>> /\ s2c' = <<>>
  BY DEF Reconnect
<1>2. \A d \in Calls : call'[d] = "done" <=> call[d] = "done"
  BY <1>1 DEF Inv, TypeOK
<1>3. BufferKept'
  BY <1>1, <1>2 DEF AnswerInv, BufferKept
<1>4. ASSUME ~ timer'.expired PROVE DoneRight' /\ Streams'
  <2>1. DoneRight /\ Streams
    BY <1>1, <1>4 DEF AnswerInv
  <2>2. DoneRight'
    BY <1>1, <1>2, <2>1 DEF DoneRight
  <2>3. NothingToServe' /\ NothingLeft' /\ Asked'
    BY <1>1 DEF NothingToServe, NothingLeft, Clean, Asked
  <2>4. Work' = Work /\ outcome' # "pending" /\ (outcome' = "ok" => outcome = "ok")
    BY <1>1 DEF Work
  <2>5. Answered'
    BY <1>1, <2>1, <2>4 DEF Streams, Answered
  <2> QED
    BY <2>2, <2>3, <2>5 DEF Streams
<1> QED
  BY <1>3, <1>4 DEF AnswerInv

\* A caller whose call ends: the second try that failed has no answer.
LEMMA CallerAnswer ==
  ASSUME Inv, AnswerInv, NEW c \in SyncCalls, ReconnectRefused(c) \/ Throw(c) \/ Return(c)
  PROVE  AnswerInv'
<1>1. c \in Calls
  BY DEF Calls
<1>2. /\ UNCHANGED <<buf, wq, op, rx_size, from, timer, served>>
      /\ call[c] \in {"lost", "throwing", "dropping"}
      /\ \/ UNCHANGED <<outcome, c2s, s2c, link>>
         \/ /\ outcome' = IF outcome = "pending" THEN "aborted" ELSE outcome
            /\ c2s' = <<>> /\ s2c' = <<>> /\ link' = "shut"
  BY <1>1, CallerInv
<1>3. PICK v \in {"failed", "done"} : call' = [call EXCEPT ![c] = v]
  BY <1>1, CallerInv
<1>4. call[c] # "done" /\ \A d \in Calls : d # c => call'[d] = call[d]
  BY <1>1, <1>2, <1>3 DEF Inv, TypeOK
<1>5. buf[c] \in {"request", "empty", "partial"}
  BY <1>1, <1>4 DEF AnswerInv, BufferKept, Inv, TypeOK
<1>6. BufferKept'
  <2>1. \A d \in Calls : d # c /\ buf'[d] \in {"own", "other"} => call'[d] = "done"
    BY <1>2, <1>4 DEF AnswerInv, BufferKept
  <2>2. buf'[c] \notin {"own", "other"}
    BY <1>2, <1>5
  <2> QED
    BY <2>1, <2>2 DEF BufferKept
<1>7. ASSUME ~ timer'.expired PROVE DoneRight' /\ Streams'
  <2>1. DoneRight /\ Streams
    BY <1>2, <1>7 DEF AnswerInv
  <2>2. DoneRight'
    BY <1>2, <1>4, <1>5, <2>1 DEF DoneRight
  <2>3. CASE UNCHANGED <<outcome, c2s, s2c, link>>
    BY <1>2, <2>1, <2>2, <2>3, StreamsSame DEF Inv, OpInv
  <2>4. CASE /\ outcome' = IF outcome = "pending" THEN "aborted" ELSE outcome
             /\ c2s' = <<>> /\ s2c' = <<>> /\ link' = "shut"
    <3>1. NothingToServe' /\ NothingLeft' /\ Asked'
      BY <2>4 DEF NothingToServe, NothingLeft, Clean, Asked
    <3>2. Work' = Work /\ outcome' # "pending" /\ (outcome' = "ok" => outcome = "ok")
      BY <1>2, <2>4 DEF Work
    <3>3. Answered'
      BY <1>2, <2>1, <2>4, <3>2 DEF Streams, Answered
    <3> QED
      BY <2>2, <3>1, <3>3 DEF Streams
  <2> QED
    BY <1>2, <2>3, <2>4
<1> QED
  BY <1>6, <1>7 DEF AnswerInv

\* Calls, works that are added, and stutterings.
LEMMA QueuedAnswer ==
  ASSUME Inv, AnswerInv, (\E c \in Calls : Call(c)) \/ AddWork \/ UNCHANGED vars
  PROVE  AnswerInv'
<1>1. UNCHANGED <<buf, rx_size, from, c2s, s2c, link, served>> /\ timer'.expired = timer.expired
  <2>1. CASE \E c \in Calls : Call(c)
    BY <2>1 DEF Call, net
  <2>2. CASE AddWork
    <3>1. UNCHANGED <<buf, rx_size, from, c2s, s2c, link, served>>
      BY <2>2 DEF AddWork, net
    <3>2. timer' = timer \/ Expires(TRUE)
      BY <2>2 DEF AddWork
    <3> QED
      BY <3>1, <3>2, TimerTyped
  <2>3. CASE UNCHANGED vars
    BY <2>3 DEF vars, strand, net
  <2> QED
    BY <2>1, <2>2, <2>3
<1>2. \A d \in Calls : call'[d] = "done" <=> call[d] = "done"
  BY DEF Call, AddWork, vars, Inv, TypeOK
<1>3. BufferKept'
  BY <1>1, <1>2 DEF AnswerInv, BufferKept
<1>4. ASSUME ~ timer'.expired PROVE DoneRight' /\ Streams'
  <2>1. DoneRight /\ Streams
    BY <1>1, <1>4 DEF AnswerInv
  <2>2. DoneRight'
    BY <1>1, <1>2, <2>1 DEF DoneRight
  <2>3. CASE AddWork /\ wq = <<>>
    <3>1. op' = "write" /\ outcome' = "pending" /\ ~ IsSent
      BY <2>3 DEF AddWork, Begin, IsSent, Inv, OpInv
    <3>2. NothingToServe' /\ NothingLeft'
      BY <1>1, <2>1, <3>1 DEF Streams, NothingToServe, NothingLeft, Clean
    <3>3. Asked' /\ Answered'
      BY <3>1 DEF Asked, Answered
    <3> QED
      BY <2>2, <3>2, <3>3 DEF Streams
  <2>4. CASE ~(AddWork /\ wq = <<>>)
    <3>1. UNCHANGED <<op, outcome>>
      BY <2>4 DEF Call, AddWork, vars, strand
    <3>2. ASSUME wq # <<>> PROVE Head(wq') = Head(wq)
      <4>1. wq' = wq \/ wq' = Append(wq, Head(posted))
        BY DEF Call, AddWork, vars, strand
      <4>2. Head(Append(wq, Head(posted))) = Head(wq)
        BY <3>2 DEF Inv, TypeOK
      <4> QED
        BY <4>1, <4>2
    <3> QED
      BY <1>1, <2>1, <2>2, <3>1, <3>2, StreamsSame DEF Inv, OpInv
  <2> QED
    BY <2>3, <2>4
<1> QED
  BY <1>3, <1>4 DEF AnswerInv

\* The handler of the timer changes no stream unless a timeout expires.
LEMMA TimerAnswer ==
  ASSUME Inv, AnswerInv, StartTimeoutTimer
  PROVE  AnswerInv'
<1>1. UNCHANGED <<call, buf, posted, wq, op, rx_size, from, s2c, link, resets, served, closed>>
  BY DEF StartTimeoutTimer
<1>2. BufferKept'
  BY <1>1 DEF AnswerInv, BufferKept
<1>3. ASSUME ~ timer'.expired PROVE UNCHANGED <<outcome, c2s>> /\ timer'.expired = timer.expired
  <2>1. CASE TimerEnds \/ TimerWaitsAgain
    BY <2>1 DEF TimerEnds, TimerWaitsAgain, Inv, TypeOK
  <2>2. CASE TimeoutAction
    <3>1. timer'.expired
      BY <2>2 DEF TimeoutAction, Inv, TypeOK
    <3> QED
      BY <1>3, <3>1
  <2> QED
    BY <2>1, <2>2 DEF StartTimeoutTimer
<1>4. ASSUME ~ timer'.expired PROVE DoneRight' /\ Streams'
  <2>1. DoneRight /\ Streams
    BY <1>3, <1>4 DEF AnswerInv
  <2>2. DoneRight'
    BY <1>1, <2>1 DEF DoneRight
  <2> QED
    BY <1>1, <1>3, <1>4, <2>1, <2>2, StreamsSame DEF Inv, OpInv
<1> QED
  BY <1>2, <1>4 DEF AnswerInv

\* What happens outside, but for what callers and timers see.
LEMMA EnvironmentKeeps ==
  ASSUME Inv, AnswerInv, Environment, ~ timer'.expired,
         \A c \in Calls : served[c] > 0 => served'[c] > 0
  PROVE  BufferKept' /\ DoneRight' /\ Streams /\ Work' = Work
<1>1. UNCHANGED <<call, buf, wq, timer>>
  BY EnvironmentInv
<1>2. BufferKept /\ DoneRight /\ Streams
  BY <1>1 DEF AnswerInv
<1> QED
  BY <1>1, <1>2 DEF BufferKept, DoneRight, Work

\* The request of the front is written to a connection that has nothing on it.
LEMMA WrittenAnswer ==
  ASSUME Inv, Streams, Written, Work' = Work
  PROVE  Streams'
<1>1. /\ op = "write" /\ outcome = "pending" /\ link = "up" /\ op' = op /\ outcome' = "ok"
      /\ c2s' = c2s \o Message(Work) /\ UNCHANGED <<s2c, link>> /\ wq # <<>>
  BY DEF Written, Work, Inv, OpInv
<1>2. c2s = <<>> /\ s2c = <<>>
  BY <1>1 DEF Streams, NothingLeft, IsSent, Clean
<1>3. Message(Work) \in {<<>>, <<Work>>, <<Torn>>} /\ Message(Work) \in Seq(Calls \cup {None})
  BY <1>1, FrontWaits, MessageTyped DEF Work
<1>4. c2s' = Message(Work)
  BY <1>1, <1>2, <1>3
<1>5. NothingToServe' /\ NothingLeft'
  BY <1>1 DEF NothingToServe, NothingLeft, IsSent, Errors
<1>6. Asked'
  BY <1>1, <1>2, <1>3, <1>4 DEF Asked, Torn
<1>7. Answered'
  BY <1>1 DEF Answered
<1> QED
  BY <1>5, <1>6, <1>7 DEF Streams

\* What is read as a size is the size of the answer of the front.
LEMMA SizeReadAnswer ==
  ASSUME Inv, Streams, SizeRead, Work' = Work
  PROVE  Streams'
<1>1. /\ op = "size" /\ outcome = "pending" /\ s2c # <<>> /\ op' = op /\ outcome' = "ok"
      /\ s2c' = Tail(s2c) /\ UNCHANGED <<c2s, link, served>> /\ wq # <<>>
  BY DEF SizeRead, Inv, OpInv
<1>2. Work \in Calls
  BY <1>1, FrontWaits DEF Work
<1>3. c2s = <<>> /\ s2c = Answer(Work) /\ served[Work] > 0
  BY <1>1 DEF Streams, Asked
<1>4. Head(s2c) = <<Work, 0>> /\ Tail(s2c) = Rest(Work, Parts)
  BY <1>2, <1>3, AnswerTyped, RestOfAnswer
<1>5. rx_size' = Parts /\ from' = Work
  BY <1>4 DEF SizeRead
<1>6. NothingToServe' /\ NothingLeft' /\ Asked'
  BY <1>1, <1>3 DEF NothingToServe, NothingLeft, IsSent, Errors, Asked
<1>7. Rest(Work, rx_size)' = Rest(Work, Parts)
  BY <1>5 DEF Rest
<1>8. Answered'
  BY <1>1, <1>3, <1>4, <1>5, <1>7 DEF Answered
<1> QED
  BY <1>6, <1>8 DEF Streams

\* What is read as a body are the next pieces of that answer.
LEMMA BodyReadAnswer ==
  ASSUME Inv, Streams, BodyRead, Work' = Work
  PROVE  Streams'
<1>1. /\ op = "body" /\ outcome = "pending" /\ op' = op /\ outcome' = "ok"
      /\ UNCHANGED <<c2s, link, served, from>> /\ wq # <<>>
  BY DEF BodyRead, Inv, OpInv
<1>2. PICK n \in 0 .. rx_size :
        n <= Len(s2c) /\ s2c' = SubSeq(s2c, n + 1, Len(s2c)) /\ rx_size' = rx_size - n
  BY DEF BodyRead, Prepared
<1>3. Work \in Calls /\ rx_size \in 0 .. Parts + 1
  BY <1>1, FrontWaits DEF Work, Inv, TypeOK
<1>4. /\ from = Work /\ served[Work] > 0 /\ c2s = <<>>
      /\ s2c \in {<<>>, Rest(Work, rx_size)}
  BY <1>1 DEF Streams, Answered
<1>5. NothingToServe' /\ NothingLeft' /\ Asked'
  BY <1>1, <1>4 DEF NothingToServe, NothingLeft, IsSent, Errors, Asked
<1>6. Rest(Work, rx_size)' = Rest(Work, rx_size - n)
  BY <1>2 DEF Rest
<1>7. s2c' \in {<<>>, Rest(Work, rx_size - n)}
  <2>1. CASE s2c = Rest(Work, rx_size)
    BY <1>2, <1>3, <2>1, RestOfRest
  <2>2. CASE s2c = <<>>
    <3>1. SubSeq(<<>>, n + 1, 0) = <<>>
      BY <1>2, <1>3
    <3> QED
      BY <1>2, <2>2, <3>1
  <2> QED
    BY <1>4, <2>1, <2>2
<1>8. Answered'
  BY <1>1, <1>4, <1>6, <1>7 DEF Answered
<1> QED
  BY <1>5, <1>8 DEF Streams

\* An operation that fails says nothing of the streams.
LEMMA FailsAnswer ==
  ASSUME Inv, Streams, OperationFails, Work' = Work
  PROVE  Streams'
<1>1. link # "up" /\ outcome' \in Errors /\ UNCHANGED <<op, c2s, link>>
  BY DEF OperationFails, net, Errors
<1>2. NothingToServe' /\ NothingLeft'
  BY <1>1 DEF Streams, NothingToServe, NothingLeft
<1>3. Asked' /\ Answered'
  BY <1>1 DEF Asked, Answered, Errors
<1> QED
  BY <1>2, <1>3 DEF Streams

\* A broken connection loses the request, and the answer or nothing.
LEMMA ResetAnswer ==
  ASSUME Inv, Streams, Reset, Work' = Work
  PROVE  Streams'
<1>1. /\ link' = "down" /\ c2s' = <<>> /\ s2c' \in {<<>>, s2c}
      /\ UNCHANGED <<op, outcome, rx_size, from, served>>
  BY DEF Reset, strand
<1>2. NothingToServe' /\ NothingLeft'
  BY <1>1 DEF NothingToServe, NothingLeft
<1>3. Asked'
  BY <1>1 DEF Streams, Asked, Answer
<1>4. Rest(Work, rx_size)' = Rest(Work, rx_size)
  BY <1>1 DEF Rest
<1>5. Answered'
  BY <1>1, <1>4 DEF Streams, Answered
<1> QED
  BY <1>2, <1>3, <1>5 DEF Streams

\* The server has one request at most, the front's, and answers it.
LEMMA ServeAnswer ==
  ASSUME Inv, Streams, Serve, Work' = Work
  PROVE  Streams'
<1>1. /\ c2s # <<>> /\ link = "up" /\ UNCHANGED <<op, outcome, rx_size, from, link, wq>>
      /\ outcome \in Outcomes /\ (outcome = "none" <=> op = "none")
      /\ op \in {"none", "write", "size", "body"} /\ wq \in Seq(Calls)
      /\ served \in [Calls -> Nat] /\ s2c \in Seq((Calls \cup {None}) \X (0 .. Parts))
  BY DEF Serve, strand, Inv, TypeOK, OpInv
<1>2. IsSent /\ outcome \notin Errors
  BY <1>1 DEF Streams, NothingLeft, Clean
<1>3. ~((op = "size" /\ outcome = "ok") \/ (op = "body" /\ outcome \in {"pending", "ok"}))
  BY <1>1 DEF Streams, Answered
<1>4. (op = "write" /\ outcome = "ok") \/ (op = "size" /\ outcome = "pending")
  BY <1>1, <1>2, <1>3 DEF IsSent, Outcomes
<1>5. s2c = <<>> /\ c2s \in {<<Work>>, <<Torn>>}
  BY <1>1, <1>4 DEF Streams, Asked
<1>6. Work \in Calls /\ Work # Torn
  BY <1>1, <1>4, FrontWaits, SocketAssumption DEF Work, Inv, OpInv, Torn
<1>7. c2s = <<Work>> /\ Head(c2s) # Torn
  <2>1. c2s = <<Torn>> => Head(c2s) = Torn /\ ~(Len(c2s) > 1)
    BY DEF Torn
  <2>2. c2s # <<Torn>>
    BY <2>1 DEF Serve
  <2>3. c2s = <<Work>>
    BY <1>5, <2>2
  <2>4. Head(<<Work>>) = Work
    OBVIOUS
  <2> QED
    BY <1>6, <2>3, <2>4
<1>8. /\ c2s' = Tail(c2s) /\ s2c' = s2c \o Answer(Head(c2s))
      /\ served' = [served EXCEPT ![Head(c2s)] = @ + 1]
  BY <1>7 DEF Serve
<1>9. c2s' = <<>> /\ Head(c2s) = Work
  <2>1. Tail(<<Work>>) = <<>> /\ Head(<<Work>>) = Work
    OBVIOUS
  <2> QED
    BY <1>7, <1>8, <2>1
<1>10. s2c' = Answer(Work)
  <2>1. Answer(Work) \in Seq((Calls \cup {None}) \X (0 .. Parts))
    BY <1>6, AnswerTyped
  <2> QED
    BY <1>5, <1>8, <1>9, <2>1
<1>11. served'[Work] > 0
  BY <1>1, <1>6, <1>8, <1>9
<1>12. NothingToServe' /\ NothingLeft'
  BY <1>1, <1>2, <1>9 DEF NothingToServe, NothingLeft, IsSent
<1>13. Answer(Work)' = Answer(Work)
  BY DEF Answer
<1>14. Asked'
  BY <1>9, <1>10, <1>11, <1>13 DEF Asked
<1>15. Answered'
  BY <1>1, <1>3 DEF Answered
<1> QED
  BY <1>12, <1>14, <1>15 DEF Streams

\* The socket and the server keep AnswerInv.
LEMMA EnvironmentAnswer ==
  ASSUME Inv, AnswerInv, Environment
  PROVE  AnswerInv'
<1>1. \A c \in Calls : served[c] > 0 => served'[c] > 0
  <2>1. CASE Serve /\ Head(c2s) # Torn
    <3>1. served' = [served EXCEPT ![Head(c2s)] = @ + 1] /\ served \in [Calls -> Nat]
      BY <2>1 DEF Serve, Inv, TypeOK
    <3> QED
      BY <3>1
  <2>2. CASE ~(Serve /\ Head(c2s) # Torn)
    BY <2>2 DEF Environment, Written, SizeRead, BodyRead, OperationFails, Reset, Serve, net
  <2> QED
    BY <2>1, <2>2
<1>2. BufferKept'
  BY EnvironmentInv DEF AnswerInv, BufferKept
<1>3. ASSUME ~ timer'.expired PROVE DoneRight' /\ Streams'
  <2>1. DoneRight' /\ Streams /\ Work' = Work
    BY <1>1, <1>3, EnvironmentKeeps
  <2>2. Streams'
    BY <2>1, WrittenAnswer, SizeReadAnswer, BodyReadAnswer, FailsAnswer, ResetAnswer, ServeAnswer
       DEF Environment
  <2> QED
    BY <2>1, <2>2
<1> QED
  BY <1>2, <1>3 DEF AnswerInv

\* The connection has nothing on it before the first call.
LEMMA InitAnswer == Init => AnswerInv
<1> SUFFICES ASSUME Init PROVE AnswerInv
  OBVIOUS
<1>1. BufferKept /\ DoneRight
  BY DEF Init, BufferKept, DoneRight
<1>2. NothingToServe /\ NothingLeft
  BY DEF Init, NothingToServe, NothingLeft, Clean
<1>3. Asked /\ Answered
  BY DEF Init, Asked, Answered
<1> QED
  BY <1>1, <1>2, <1>3 DEF AnswerInv, Streams

\* Every step keeps AnswerInv.
LEMMA NextAnswer == Inv /\ AnswerInv /\ [Next]_vars => AnswerInv'
<1> SUFFICES ASSUME Inv, AnswerInv, [Next]_vars PROVE AnswerInv'
  OBVIOUS
<1>1. SyncCalls \subseteq Calls
  BY DEF Calls
<1>2. CASE (\E c \in Calls : Call(c)) \/ AddWork \/ UNCHANGED vars
  BY <1>2, QueuedAnswer
<1>3. CASE \E c \in SyncCalls : Reconnect(c) \/ ReconnectRefused(c) \/ Throw(c) \/ Return(c)
  BY <1>1, <1>3, ReconnectAnswer, CallerAnswer
<1>4. CASE OnWrite \/ OnReadSize \/ OnReadBody
  BY <1>4, OnWriteAnswer, OnReadSizeAnswer, OnReadBodyAnswer
<1>5. CASE StartTimeoutTimer
  BY <1>5, TimerAnswer
<1>6. CASE Environment
  BY <1>6, EnvironmentAnswer
<1> QED
  BY <1>2, <1>3, <1>4, <1>5, <1>6 DEF Next, Handlers

-----------------------------------------------------------------------------
(* The theorems.                                                            *)

\* The queue never stalls and forgets nobody (pop_and_execute_next_task, and
\* the assertion of current_rx_buffer): the works that are posted or queued are
\* those of the callers that wait, each once, and an operation is on its way
\* exactly while there is one.
THEOREM TheQueueIsServed == Spec => []QueueServed
<1>1. ASSUME Inv PROVE QueueServed
  <2>1. posted \in Seq(Calls) /\ wq \in Seq(Calls)
    BY <1>1 DEF Inv, TypeOK
  <2>2. /\ ToSet(posted \o wq) = ToSet(posted) \cup ToSet(wq)
        /\ IsInjective(posted \o wq)
    BY <1>1, <2>1, ConcatSet DEF Inv, QueueInv
  <2> QED
    BY <1>1, <2>2 DEF Inv, OpInv, QueueInv, QueueServed
<1> QED
  BY <1>1, InvAlways, PTL

\* send_receive writes its buffer again after a reset, but never the request
\* itself when the server may have read it: no request is carried out twice.
THEOREM RequestsAreServedOnce == Spec => []AtMostOnce
<1>1. OnceInv => AtMostOnce
  BY DEF OnceInv, AtMostOnce
<1> QED
  BY <1>1, InitInv, NextInv, InitOnce, NextOnce, PTL DEF Spec

\* Answers do not say whose they are; the order of the queue does.  As long as no
\* timeout expires, a call that ends without an error has its own answer.
THEOREM AnswersAreOwn == Spec => []OwnAnswer
<1>1. AnswerInv => OwnAnswer
  BY DEF AnswerInv, DoneRight, OwnAnswer
<1> QED
  BY <1>1, InitInv, NextInv, InitAnswer, NextAnswer, PTL DEF Spec
=============================================================================
