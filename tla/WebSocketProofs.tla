--------------------------- MODULE WebSocketProofs ---------------------------
(***************************************************************************)
(* For any calls of both ends: a socket has one async_write at a time, and  *)
(* the sessions implement RemoteCalls.                                      *)
(***************************************************************************)
EXTENDS WebSocketSession, SequenceTheorems, TLAPS

-----------------------------------------------------------------------------
(* The inductive invariant.                                                 *)

Msg == [type : {"request", "answer"}, id : Nat, call : Calls]
Stages == {"idle", "got", "posted", "queued"}

TypeInv ==
  /\ stage \in [Calls -> Stages]
  /\ request_id \in [Calls -> Nat] /\ next_request_id \in [Ends -> Nat]
  /\ pending \in [Ends -> SUBSET (Nat \X Calls)]
  /\ queue \in [Ends -> Seq(Msg)] /\ wire \in [Ends -> Seq(Msg)]
  /\ reading \in [Ends -> BOOLEAN] /\ writing \in [Ends -> BOOLEAN]
  /\ writes \in [Ends -> Nat]
  /\ closed \in [Ends -> BOOLEAN] /\ broken \in BOOLEAN
  /\ served \in [Calls -> Nat]
  /\ outcome \in [Calls -> Seq(Calls \cup {Error})]

\* an open session that does not write has nothing to write
Idle == \A e \in Ends : ~ closed[e] /\ ~ writing[e] => queue[e] = <<>>

\* the front of the queue is with the socket; a closed session writes no more
Unwritten(e) == IF closed[e] \/ queue[e] = <<>> THEN <<>> ELSE Tail(queue[e])

\* what the peer of e may still read
Out(e) == wire[e] \o Unwritten(e)

Numbered(k) == stage[k] \in {"posted", "queued"}
Numbers ==
  \A k \in Calls : Numbered(k) =>
    /\ request_id[k] < next_request_id[Caller(k)]
    /\ \A l \in Calls : Numbered(l) /\ Caller(l) = Caller(k)
                        /\ request_id[l] = request_id[k] => l = k

Untouched == \A k \in Calls : stage[k] # "queued" => served[k] = 0 /\ outcome[k] = <<>>

Waiting ==
  \A e \in Ends : \A p \in pending[e] :
    /\ Caller(p[2]) = e /\ p[1] = request_id[p[2]]
    /\ stage[p[2]] = "queued" /\ outcome[p[2]] = <<>>

\* a request has not been carried out yet, and an answer is to one that has
Sound(e) ==
  {m \in Msg :
    /\ stage[m.call] = "queued" /\ m.id = request_id[m.call]
    /\ m.type = "request" => Caller(m.call) = e /\ served[m.call] = 0
    /\ m.type = "answer" => Caller(m.call) = Peer(e) /\ served[m.call] = 1}

\* a call has one request
Distinct(s) ==
  \A i, j \in 1 .. Len(s) :
    s[i].type = "request" /\ s[j].type = "request" /\ s[i].call = s[j].call => i = j

Travelling ==
  \A e \in Ends : /\ \A i \in 1 .. Len(Out(e)) : Out(e)[i] \in Sound(e)
                  /\ Distinct(Out(e))

IInv == /\ TypeInv /\ OneWrite /\ Idle /\ Numbers
        /\ Untouched /\ Waiting /\ Travelling

\* what a step of the sessions is to RemoteCalls
Step == [Abstract!Next]_<<served, outcome>>

-----------------------------------------------------------------------------
(* Sequences of which one has the elements of the other but for some.       *)

Sub(s, t) ==
  \E f \in [1 .. Len(s) -> 1 .. Len(t)] :
    /\ \A i, j \in 1 .. Len(s) : f[i] = f[j] => i = j
    /\ \A i \in 1 .. Len(s) : s[i] = t[f[i]]

LEMMA SubSelf == ASSUME NEW S, NEW s \in Seq(S) PROVE Sub(s, s)
<1> DEFINE f == [i \in 1 .. Len(s) |-> i]
<1>1. f \in [1 .. Len(s) -> 1 .. Len(s)]  OBVIOUS
<1>2. \A i, j \in 1 .. Len(s) : f[i] = f[j] => i = j  OBVIOUS
<1>3. \A i \in 1 .. Len(s) : s[i] = s[f[i]]  OBVIOUS
<1> QED  BY <1>1, <1>2, <1>3 DEF Sub

\* less at the end
LEMMA SubPrefix ==
  ASSUME NEW S, NEW w \in Seq(S), NEW u \in Seq(S) PROVE Sub(w, w \o u)
<1> DEFINE f == [i \in 1 .. Len(w) |-> i]
<1>0. w \o u \in Seq(S) /\ Len(w \o u) = Len(w) + Len(u) /\ Len(w) \in Nat /\ Len(u) \in Nat
  OBVIOUS
<1>1. f \in [1 .. Len(w) -> 1 .. Len(w \o u)]  BY <1>0
<1>2. \A i, j \in 1 .. Len(w) : f[i] = f[j] => i = j  OBVIOUS
<1>3. \A i \in 1 .. Len(w) : w[i] = (w \o u)[f[i]]  BY <1>0
<1> QED  BY <1>1, <1>2, <1>3 DEF Sub

LEMMA SubAppend ==
  ASSUME NEW S, NEW s \in Seq(S), NEW m \in S PROVE Sub(s, Append(s, m))
<1> DEFINE f == [i \in 1 .. Len(s) |-> i]
<1>0. Len(Append(s, m)) = Len(s) + 1 /\ Len(s) \in Nat  OBVIOUS
<1>1. f \in [1 .. Len(s) -> 1 .. Len(Append(s, m))]  BY <1>0
<1>2. \A i, j \in 1 .. Len(s) : f[i] = f[j] => i = j  OBVIOUS
<1>3. \A i \in 1 .. Len(s) : s[i] = Append(s, m)[f[i]]  OBVIOUS
<1> QED  BY <1>1, <1>2, <1>3 DEF Sub

LEMMA ConcatAt ==
  ASSUME NEW S, NEW w \in Seq(S), NEW u \in Seq(S)
  PROVE  /\ w \o u \in Seq(S) /\ Len(w \o u) = Len(w) + Len(u)
         /\ \A i \in 1 .. Len(w) + Len(u) :
              (w \o u)[i] = IF i <= Len(w) THEN w[i] ELSE u[i - Len(w)]
OBVIOUS

LEMMA TailAt ==
  ASSUME NEW S, NEW q \in Seq(S), q # <<>>
  PROVE  /\ Tail(q) \in Seq(S) /\ Head(q) \in S /\ Head(q) = q[1]
         /\ Len(q) \in Nat /\ Len(q) >= 1 /\ Len(Tail(q)) = Len(q) - 1
         /\ \A i \in 1 .. Len(q) - 1 : Tail(q)[i] = q[i + 1]
OBVIOUS

\* the first of the second part is missing
LEMMA SubSkip ==
  ASSUME NEW S, NEW w \in Seq(S), NEW q \in Seq(S), q # <<>>
  PROVE  Sub(w \o Tail(q), w \o q)
<1> DEFINE t == Tail(q)
           f == [i \in 1 .. Len(w \o t) |-> IF i <= Len(w) THEN i ELSE i + 1]
<1>0. /\ t \in Seq(S) /\ Len(t) = Len(q) - 1 /\ Len(q) \in Nat /\ Len(w) \in Nat
      /\ \A i \in 1 .. Len(q) - 1 : t[i] = q[i + 1]
  BY TailAt
<1> HIDE DEF t
<1>1. /\ Len(w \o t) = Len(w) + Len(q) - 1 /\ Len(w \o q) = Len(w) + Len(q)
      /\ \A i \in 1 .. Len(w) + Len(t) :
           (w \o t)[i] = IF i <= Len(w) THEN w[i] ELSE t[i - Len(w)]
      /\ \A i \in 1 .. Len(w) + Len(q) :
           (w \o q)[i] = IF i <= Len(w) THEN w[i] ELSE q[i - Len(w)]
  BY <1>0, ConcatAt
<1>2. f \in [1 .. Len(w \o t) -> 1 .. Len(w \o q)]  BY <1>0, <1>1
<1>3. \A i, j \in 1 .. Len(w \o t) : f[i] = f[j] => i = j  BY <1>0, <1>1
<1>4. \A i \in 1 .. Len(w \o t) : (w \o t)[i] = (w \o q)[f[i]]
  <2> TAKE i \in 1 .. Len(w \o t)
  <2>1. CASE i <= Len(w)  BY <2>1, <1>0, <1>1
  <2>2. CASE ~ (i <= Len(w))
    <3>1. f[i] = i + 1 /\ i \in Nat  BY <2>2, <1>0, <1>1
    <3>2. (w \o t)[i] = t[i - Len(w)]  BY <2>2, <1>0, <1>1
    <3>4. i - Len(w) \in 1 .. Len(q) - 1  BY <2>2, <1>0, <1>1
    <3>3. (w \o q)[i + 1] = q[i + 1 - Len(w)]  BY <2>2, <1>0, <1>1
    <3>5. t[i - Len(w)] = q[i - Len(w) + 1]  BY <3>4, <1>0
    <3>6. i - Len(w) + 1 = i + 1 - Len(w)  BY <3>1, <1>0
    <3> QED  BY <3>1, <3>2, <3>3, <3>5, <3>6
  <2> QED  BY <2>1, <2>2
<1> HIDE DEF f
<1>5. Sub(w \o t, w \o q)  BY <1>2, <1>3, <1>4 DEF Sub
<1> QED  BY <1>5 DEF t

\* the peer reads the first
LEMMA TailConcat ==
  ASSUME NEW S, NEW w \in Seq(S), NEW u \in Seq(S), w # <<>>
  PROVE  /\ Len(Tail(w) \o u) = Len(w \o u) - 1 /\ Len(w \o u) \in Nat /\ Len(w \o u) >= 1
         /\ \A i \in 1 .. Len(w \o u) - 1 : (Tail(w) \o u)[i] = (w \o u)[i + 1]
         /\ (w \o u)[1] = Head(w)
<1> DEFINE t == Tail(w)
<1>0. /\ t \in Seq(S) /\ Len(t) = Len(w) - 1 /\ Len(u) \in Nat /\ Len(w) \in Nat /\ Len(w) >= 1
      /\ \A i \in 1 .. Len(w) - 1 : t[i] = w[i + 1]
      /\ Head(w) = w[1]
  BY TailAt
<1> HIDE DEF t
<1>1. /\ Len(t \o u) = Len(w) - 1 + Len(u) /\ Len(w \o u) = Len(w) + Len(u)
      /\ \A i \in 1 .. Len(t) + Len(u) :
           (t \o u)[i] = IF i <= Len(t) THEN t[i] ELSE u[i - Len(t)]
      /\ \A i \in 1 .. Len(w) + Len(u) :
           (w \o u)[i] = IF i <= Len(w) THEN w[i] ELSE u[i - Len(w)]
  BY <1>0, ConcatAt
<1>2. \A i \in 1 .. Len(w \o u) - 1 : (t \o u)[i] = (w \o u)[i + 1]
  <2> TAKE i \in 1 .. Len(w \o u) - 1
  <2>1. CASE i <= Len(t)  BY <2>1, <1>0, <1>1
  <2>2. CASE ~ (i <= Len(t))
    <3>1. (t \o u)[i] = u[i - (Len(w) - 1)]  BY <2>2, <1>0, <1>1
    <3>2. (w \o u)[i + 1] = u[i + 1 - Len(w)]  BY <2>2, <1>0, <1>1
    <3> QED  BY <3>1, <3>2, <1>0, <1>1
  <2> QED  BY <2>1, <2>2
<1> QED  BY <1>0, <1>1, <1>2 DEF t

LEMMA SubTail ==
  ASSUME NEW S, NEW w \in Seq(S), NEW u \in Seq(S), w # <<>>
  PROVE  Sub(Tail(w) \o u, w \o u)
<1> DEFINE t == Tail(w) \o u
           v == w \o u
           f == [i \in 1 .. Len(t) |-> i + 1]
<1>0. /\ Len(t) = Len(v) - 1 /\ Len(v) \in Nat /\ Len(v) >= 1
      /\ \A i \in 1 .. Len(v) - 1 : t[i] = v[i + 1]
  BY TailConcat
<1> HIDE DEF t, v
<1>1. f \in [1 .. Len(t) -> 1 .. Len(v)]  BY <1>0
<1>2. \A i, j \in 1 .. Len(t) : f[i] = f[j] => i = j  BY <1>0
<1>3. \A i \in 1 .. Len(t) : t[i] = v[f[i]]  BY <1>0
<1> HIDE DEF f
<1>4. Sub(t, v)  BY <1>1, <1>2, <1>3 DEF Sub
<1> QED  BY <1>4 DEF t, v

\* the first of the second part moves to the end of the first
LEMMA MoveFront ==
  ASSUME NEW S, NEW w \in Seq(S), NEW q \in Seq(S), q # <<>>
  PROVE  Append(w, Head(q)) \o Tail(q) = w \o q
<1>1. /\ Head(q) \in S /\ Tail(q) \in Seq(S) /\ <<Head(q)>> \in Seq(S)
      /\ q = <<Head(q)>> \o Tail(q)
  BY HeadTailProperties, TailAt
<1>2. Append(w, Head(q)) = w \o <<Head(q)>>  BY <1>1, AppendIsConcat
<1>3. (w \o <<Head(q)>>) \o Tail(q) = w \o (<<Head(q)>> \o Tail(q))
  BY <1>1, ConcatAssociative
<1> QED  BY <1>1, <1>2, <1>3

LEMMA AppendToEmpty == ASSUME NEW x PROVE Append(<<>>, x) = <<x>>
<1>1. <<>> \in Seq({x}) /\ <<x>> \in Seq({x})  OBVIOUS
<1>2. Append(<<>>, x) = <<>> \o <<x>>  BY <1>1, AppendIsConcat
<1> QED  BY <1>1, <1>2, ConcatEmptySeq

LEMMA AppendConcat ==
  ASSUME NEW S, NEW w \in Seq(S), NEW u \in Seq(S), NEW m \in S
  PROVE  w \o Append(u, m) = Append(w \o u, m)
<1>1. Append(u, m) = u \o <<m>> /\ Append(w \o u, m) = (w \o u) \o <<m>>
  BY AppendIsConcat, ConcatProperties
<1>2. <<m>> \in Seq(S)  OBVIOUS
<1> QED  BY <1>1, <1>2, ConcatAssociative

-----------------------------------------------------------------------------
(* How the parts of a step change what travels.                             *)

LEMMA OutType == ASSUME TypeInv, NEW e \in Ends
                 PROVE  /\ Unwritten(e) \in Seq(Msg) /\ Out(e) \in Seq(Msg)
                        /\ Peer(e) \in Ends /\ Peer(e) # e /\ Peer(Peer(e)) = e
<1>1. queue[e] \in Seq(Msg) /\ wire[e] \in Seq(Msg)  BY DEF TypeInv
<1>2. Unwritten(e) \in Seq(Msg)  BY <1>1, TailAt DEF Unwritten
<1>3. Peer(e) \in Ends /\ Peer(e) # e /\ Peer(Peer(e)) = e  BY DEF Ends, Peer
<1> QED  BY <1>1, <1>2, <1>3 DEF Out

LEMMA CallerIsEnd == \A k \in Calls : Caller(k) \in Ends
BY DEF Caller, Ends

LEMMA SubDistinct ==
  ASSUME NEW s, NEW t, Sub(s, t), Distinct(t) PROVE Distinct(s)
<1>1. PICK f \in [1 .. Len(s) -> 1 .. Len(t)] :
        /\ \A i, j \in 1 .. Len(s) : f[i] = f[j] => i = j
        /\ \A i \in 1 .. Len(s) : s[i] = t[f[i]]
  BY DEF Sub
<1> SUFFICES ASSUME NEW i \in 1 .. Len(s), NEW j \in 1 .. Len(s),
                    s[i].type = "request", s[j].type = "request", s[i].call = s[j].call
             PROVE  i = j
  BY DEF Distinct
<1>2. f[i] \in 1 .. Len(t) /\ f[j] \in 1 .. Len(t)  BY <1>1
<1>3. s[i] = t[f[i]] /\ s[j] = t[f[j]]  BY <1>1
<1>4. f[i] = f[j]  BY <1>2, <1>3 DEF Distinct
<1> QED  BY <1>1, <1>4

LEMMA SubElement ==
  ASSUME NEW s, NEW t, Sub(s, t), NEW i \in 1 .. Len(s)
  PROVE  \E j \in 1 .. Len(t) : s[i] = t[j]
BY DEF Sub

\* the calls of the messages under way are left alone
CallsKept ==
  \A k \in Calls : stage[k] = "queued" =>
    stage'[k] = "queued" /\ request_id'[k] = request_id[k] /\ served'[k] = served[k]

LEMMA SoundKept ==
  ASSUME CallsKept, NEW e \in Ends PROVE Sound(e) \subseteq Sound(e)'
<1>1. \A m \in Msg : m.call \in Calls  BY DEF Msg
<1> QED  BY <1>1 DEF CallsKept, Sound

\* a step that adds no message to e's
LEMMA TravellingKept ==
  ASSUME TypeInv, Travelling, CallsKept, NEW e \in Ends, Sub(Out(e)', Out(e))
  PROVE  /\ \A i \in 1 .. Len(Out(e)') : Out(e)'[i] \in Sound(e)'
         /\ Distinct(Out(e)')
<1>1. Distinct(Out(e)')  BY SubDistinct DEF Travelling
<1>2. ASSUME NEW i \in 1 .. Len(Out(e)') PROVE Out(e)'[i] \in Sound(e)'
  <2>1. PICK j \in 1 .. Len(Out(e)) : Out(e)'[i] = Out(e)[j]  BY SubElement
  <2> QED  BY <2>1, SoundKept DEF Travelling
<1> QED  BY <1>1, <1>2

\* a message is added to the queue of e, w being on the wires
LEMMA Enqueued ==
  ASSUME TypeInv, OneWrite, Idle, NEW e \in Ends, NEW m \in Msg,
         NEW w \in [Ends -> Seq(Msg)], Enqueue(e, m, w), UNCHANGED <<closed, broken>>
  PROVE  /\ wire' \in [Ends -> Seq(Msg)] /\ queue' \in [Ends -> Seq(Msg)]
         /\ writing' \in [Ends -> BOOLEAN] /\ writes' \in [Ends -> Nat]
         /\ OneWrite' /\ Idle'
         /\ \A d \in Ends : d # e => wire'[d] = w[d] /\ queue'[d] = queue[d]
         /\ Sub(Out(e)', Append(w[e] \o Unwritten(e), m))
<1> DEFINE q == queue[e]
           t == Append(w[e] \o Unwritten(e), m)
<1>1. q \in Seq(Msg) /\ w[e] \in Seq(Msg) /\ Unwritten(e) \in Seq(Msg)
  BY OutType DEF TypeInv
<1>2. /\ queue' \in [Ends -> Seq(Msg)] /\ queue'[e] = Append(q, m)
      /\ \A d \in Ends : d # e => queue'[d] = queue[d]
      /\ Append(q, m) \in Seq(Msg) /\ Append(q, m) # <<>>
  <2>1. Append(q, m) \in Seq(Msg) /\ Append(q, m) # <<>>  BY <1>1, AppendProperties
  <2> QED  BY <2>1 DEF Enqueue, TypeInv
<1>3. closed' = closed /\ broken' = broken  OBVIOUS
<1>4. w[e] \o Unwritten(e) \in Seq(Msg)  BY <1>1
<1>5. Sub(w[e] \o Unwritten(e), t)  BY <1>4, SubAppend
<1>6. CASE closed[e]
  <2>1. wire' = w /\ UNCHANGED <<writing, writes>>  BY <1>6 DEF Enqueue, DoWrite
  <2>2. Unwritten(e) = <<>> /\ Unwritten(e)' = <<>>  BY <1>3, <1>6 DEF Unwritten
  <2>3. Out(e)' = w[e] \o Unwritten(e)  BY <2>1, <2>2 DEF Out
  <2>4. OneWrite'  BY <2>1 DEF OneWrite
  <2>5. Idle'  BY <1>2, <1>3, <1>6, <2>1 DEF Idle
  <2> QED  BY <1>2, <1>5, <2>1, <2>3, <2>4, <2>5 DEF TypeInv
<1>7. CASE ~ closed[e] /\ writing[e]
  <2>1. wire' = w /\ UNCHANGED <<writing, writes>>  BY <1>7 DEF Enqueue, DoWrite
  <2>2. Unwritten(e)' = Tail(Append(q, m))  BY <1>2, <1>3, <1>7 DEF Unwritten
  <2>3. Sub(Out(e)', t)
    <3>1. CASE q = <<>>
      <4>1. Unwritten(e)' = <<>> /\ Unwritten(e) = <<>>  BY <2>2, <3>1, <1>7 DEF Unwritten
      <4>2. Out(e)' = w[e] \o Unwritten(e)  BY <2>1, <4>1 DEF Out
      <4> QED  BY <4>2, <1>5
    <3>2. CASE q # <<>>
      <4>1. Tail(Append(q, m)) = Append(Tail(q), m)  BY <1>1, <3>2
      <4>2. Unwritten(e) = Tail(q)  BY <3>2, <1>7 DEF Unwritten
      <4>3. Out(e)' = w[e] \o Append(Unwritten(e), m)  BY <2>1, <2>2, <4>1, <4>2 DEF Out
      <4>4. Out(e)' = t  BY <4>3, <1>1, AppendConcat
      <4>5. t \in Seq(Msg)  BY <1>4, AppendProperties
      <4> QED  BY <4>4, <4>5, SubSelf
    <3> QED  BY <3>1, <3>2
  <2>4. OneWrite'  BY <2>1 DEF OneWrite
  <2>5. Idle'  BY <1>2, <1>3, <1>7, <2>1 DEF Idle
  <2> QED  BY <1>2, <2>1, <2>3, <2>4, <2>5 DEF TypeInv
<1>8. CASE ~ closed[e] /\ ~ writing[e]
  <2>1. q = <<>> /\ Append(q, m) = <<m>>  BY <1>8, AppendToEmpty DEF Idle
  <2>2. /\ writing' = [writing EXCEPT ![e] = TRUE]
        /\ writes' = [writes EXCEPT ![e] = @ + 1]
        /\ wire' = IF broken THEN w ELSE [w EXCEPT ![e] = Append(@, m)]
    BY <1>8, <1>2, <2>1 DEF Enqueue, DoWrite, WriteNow
  <2>3. Unwritten(e)' = <<>> /\ Unwritten(e) = <<>>  BY <1>2, <1>3, <1>8, <2>1 DEF Unwritten
  <2>4. wire' \in [Ends -> Seq(Msg)] /\ \A d \in Ends : d # e => wire'[d] = w[d]
    BY <2>2, <1>1, AppendProperties
  <2>5. Sub(Out(e)', t)
    <3>1. CASE broken
      <4>1. Out(e)' = w[e] \o Unwritten(e)  BY <2>2, <2>3, <3>1 DEF Out
      <4> QED  BY <4>1, <1>5
    <3>2. CASE ~ broken
      <4>1. Out(e)' = Append(w[e], m) \o <<>>  BY <2>2, <2>3, <3>2 DEF Out
      <4>2. Append(w[e], m) \in Seq(Msg) /\ t = Append(w[e], m)
        BY <1>1, <2>3, AppendProperties, ConcatEmptySeq
      <4>3. Out(e)' = t  BY <4>1, <4>2, ConcatEmptySeq
      <4> QED  BY <4>2, <4>3, SubSelf
    <3> QED  BY <3>1, <3>2
  <2>6. writes[e] = 0 /\ writes \in [Ends -> Nat] /\ writing \in [Ends -> BOOLEAN]
    BY <1>8 DEF OneWrite, TypeInv
  <2>7. OneWrite'
    <3> SUFFICES ASSUME NEW d \in Ends
                 PROVE  writes'[d] <= 1 /\ (writes'[d] = 1 => writing'[d])
      BY DEF OneWrite
    <3>1. CASE d = e  BY <2>2, <2>6, <3>1
    <3>2. CASE d # e  BY <2>2, <2>6, <3>2 DEF OneWrite
    <3> QED  BY <3>1, <3>2
  <2>8. Idle'  BY <1>2, <1>3, <2>2, <2>6 DEF Idle
  <2>9. writing' \in [Ends -> BOOLEAN] /\ writes' \in [Ends -> Nat]  BY <2>2, <2>6
  <2> QED  BY <1>2, <2>4, <2>5, <2>7, <2>8, <2>9
<1> QED  BY <1>6, <1>7, <1>8

LEMMA OutUnchanged ==
  ASSUME TypeInv, NEW e \in Ends, UNCHANGED <<wire, queue, closed>>
  PROVE  Sub(Out(e)', Out(e))
<1>1. Out(e)' = Out(e)  BY DEF Out, Unwritten
<1> QED  BY <1>1, OutType, SubSelf

\* what close does, but for the outstanding operation that fails
LEMMA Closed ==
  ASSUME IInv, NEW e \in Ends, Close(e),
         UNCHANGED <<calls, writing, wire, broken, served>>
  PROVE  /\ queue' \in [Ends -> Seq(Msg)] /\ closed' \in [Ends -> BOOLEAN]
         /\ pending' \in [Ends -> SUBSET (Nat \X Calls)]
         /\ outcome' \in [Calls -> Seq(Calls \cup {Error})]
         /\ Idle' /\ Numbers' /\ Untouched' /\ Waiting' /\ Travelling'
         /\ Step
<1> USE DEF IInv
<1> DEFINE K == {k \in Calls : \E p \in pending[e] : p[2] = k}
<1>0. \A p \in pending[e] : p \in Nat \X Calls  BY DEF TypeInv
<1>1. \A k \in K : outcome[k] = <<>> /\ stage[k] = "queued"  BY DEF Waiting
<1>2. outcome' = [k \in Calls |-> IF k \in K THEN <<Error>> ELSE outcome[k]]
  <2>1. outcome' = [k \in Calls |-> IF k \in K THEN Append(outcome[k], Error) ELSE outcome[k]]
    BY DEF Close
  <2>2. \A k \in K : Append(outcome[k], Error) = <<Error>>  BY <1>1, AppendToEmpty
  <2> QED  BY <2>1, <2>2
<1>3. outcome' \in [Calls -> Seq(Calls \cup {Error})]
  <2>1. <<Error>> \in Seq(Calls \cup {Error})  OBVIOUS
  <2> QED  BY <1>2, <2>1 DEF TypeInv
<1>4. /\ queue' \in [Ends -> Seq(Msg)] /\ queue'[e] = <<>>
      /\ \A d \in Ends : d # e => queue'[d] = queue[d]
  BY DEF Close, TypeInv
<1>5. /\ closed' \in [Ends -> BOOLEAN] /\ closed'[e]
      /\ \A d \in Ends : d # e => closed'[d] = closed[d]
  BY DEF Close, TypeInv
<1>6. /\ pending' \in [Ends -> SUBSET (Nat \X Calls)] /\ pending'[e] = {}
      /\ \A d \in Ends : d # e => pending'[d] = pending[d]
  BY DEF Close, TypeInv
<1>7. UNCHANGED <<stage, request_id, next_request_id, served, wire, writing>>
  BY DEF calls
<1>8. Idle'  BY <1>4, <1>5, <1>7 DEF Idle
<1>9. Numbers'  BY <1>7 DEF Numbers, Numbered
<1>10. Untouched'  BY <1>1, <1>2, <1>7 DEF Untouched
<1>11. Waiting'
  <2> SUFFICES ASSUME NEW d \in Ends, NEW p \in pending'[d]
               PROVE  /\ Caller(p[2]) = d /\ p[1] = request_id[p[2]]
                      /\ stage[p[2]] = "queued" /\ outcome'[p[2]] = <<>>
    BY <1>7 DEF Waiting
  <2>1. d # e /\ p \in pending[d]  BY <1>6
  <2>2. /\ Caller(p[2]) = d /\ p[1] = request_id[p[2]]
        /\ stage[p[2]] = "queued" /\ outcome[p[2]] = <<>>
    BY <2>1 DEF Waiting
  <2>3. p[2] \in Calls  BY <2>1 DEF TypeInv
  <2>4. p[2] \notin K  BY <2>1, <2>2 DEF Waiting
  <2> QED  BY <1>2, <2>2, <2>3, <2>4
<1>12. CallsKept  BY <1>7 DEF CallsKept
<1>13. \A d \in Ends : Sub(Out(d)', Out(d))
  <2> TAKE d \in Ends
  <2>1. CASE d # e
    <3>1. Out(d)' = Out(d)  BY <2>1, <1>4, <1>5, <1>7 DEF Out, Unwritten
    <3> QED  BY <3>1, OutType, SubSelf
  <2>2. CASE d = e
    <3>1. Out(d)' = wire[d] \o <<>> /\ wire[d] \in Seq(Msg)
      BY <2>2, <1>5, <1>7 DEF Out, Unwritten, TypeInv
    <3>2. Out(d)' = wire[d]  BY <3>1, ConcatEmptySeq
    <3> QED  BY <3>1, <3>2, OutType, SubPrefix DEF Out
  <2> QED  BY <2>1, <2>2
<1>14. Travelling'  BY <1>12, <1>13, TravellingKept DEF Travelling
<1>15. Step
  <2>1. K \in SUBSET {k \in Calls : outcome[k] = <<>>}  BY <1>1
  <2>2. Abstract!Fail  BY <2>1, <1>2, <1>7 DEF Abstract!Fail
  <2> QED  BY <2>2 DEF Step, Abstract!Next
<1> QED  BY <1>3, <1>4, <1>5, <1>6, <1>8, <1>9, <1>10, <1>11, <1>14, <1>15

-----------------------------------------------------------------------------
(* One lemma per action: it keeps the invariant, and is a step or a stutter *)
(* of RemoteCalls.                                                          *)

LEMMA InitInv == Init => IInv /\ Abstract!Init
<1> SUFFICES ASSUME Init PROVE IInv /\ Abstract!Init  OBVIOUS
<1> USE DEF Init
<1>1. TypeInv
  <2>1. <<>> \in Seq(Msg) /\ <<>> \in Seq(Calls \cup {Error})  OBVIOUS
  <2> QED  BY <2>1 DEF TypeInv, Stages
<1>2. OneWrite /\ Idle  BY DEF OneWrite, Idle
<1>3. Numbers /\ Untouched /\ Waiting  BY DEF Numbers, Numbered, Untouched, Waiting
<1>4. Travelling
  <2> SUFFICES ASSUME NEW e \in Ends PROVE Len(Out(e)) = 0  BY DEF Travelling, Distinct
  <2>1. wire[e] = <<>> /\ Unwritten(e) = <<>>  BY DEF Unwritten
  <2>2. Out(e) = <<>>  BY <2>1 DEF Out
  <2> QED  BY <2>2
<1>5. Abstract!Init  BY DEF Abstract!Init
<1> QED  BY <1>1, <1>2, <1>3, <1>4, <1>5 DEF IInv

LEMMA StutterIsStep == UNCHANGED <<served, outcome>> => Step
BY DEF Step

LEMMA GetSessionStep ==
  ASSUME IInv, NEW k \in Calls, GetSession(k) PROVE IInv' /\ Step
<1> USE DEF IInv, GetSession, output
<1>1. TypeInv'  BY DEF TypeInv, Stages
<1>2. OneWrite' /\ Idle'  BY DEF OneWrite, Idle
<1>3. /\ stage'[k] = "got" /\ stage[k] = "idle"
      /\ \A l \in Calls : l # k => stage'[l] = stage[l]
  BY DEF TypeInv
<1>4. Numbers'
  <2>1. \A l \in Calls : Numbered(l)' => Numbered(l)  BY <1>3 DEF Numbered
  <2> QED  BY <2>1 DEF Numbers
<1>5. Untouched'  BY <1>3 DEF Untouched
<1>6. Waiting'
  <2>1. \A e \in Ends : \A p \in pending[e] : p[2] \in Calls  BY DEF TypeInv
  <2> QED  BY <1>3, <2>1 DEF Waiting
<1>7. CallsKept  BY <1>3 DEF CallsKept
<1>8. Travelling'  BY <1>7, OutUnchanged, TravellingKept DEF Travelling
<1>9. Step  BY StutterIsStep
<1> QED  BY <1>1, <1>2, <1>4, <1>5, <1>6, <1>8, <1>9

LEMMA PostStep ==
  ASSUME IInv, NEW k \in Calls, Post(k) PROVE IInv' /\ Step
<1> USE DEF IInv, Post, output
<1>0. Caller(k) \in Ends  BY CallerIsEnd
<1>1. TypeInv'  BY <1>0 DEF TypeInv, Stages
<1>2. OneWrite' /\ Idle'  BY DEF OneWrite, Idle
<1>3. /\ stage'[k] = "posted" /\ stage[k] = "got"
      /\ request_id'[k] = next_request_id[Caller(k)]
      /\ next_request_id'[Caller(k)] = next_request_id[Caller(k)] + 1
      /\ next_request_id \in [Ends -> Nat] /\ request_id \in [Calls -> Nat]
      /\ \A e \in Ends : e # Caller(k) => next_request_id'[e] = next_request_id[e]
      /\ \A l \in Calls : l # k => stage'[l] = stage[l] /\ request_id'[l] = request_id[l]
  BY <1>0 DEF TypeInv
<1>4. Numbers'
  <2>1. \A l \in Calls : l # k /\ Numbered(l)' => Numbered(l)  BY <1>3 DEF Numbered
  <2>2. \A l \in Calls : Caller(l) \in Ends  BY CallerIsEnd
  <2>3. ASSUME NEW l \in Calls, l # k, Numbered(l)'
        PROVE  /\ request_id'[l] < next_request_id[Caller(l)]
               /\ next_request_id[Caller(l)] <= next_request_id'[Caller(l)]
    <3>1. request_id'[l] < next_request_id[Caller(l)]  BY <2>1, <2>3, <1>3 DEF Numbers
    <3>2. next_request_id[Caller(l)] <= next_request_id'[Caller(l)]
      BY <1>0, <1>3, <2>2, <2>3
    <3> QED  BY <3>1, <3>2
  <2> SUFFICES ASSUME NEW l \in Calls, Numbered(l)'
               PROVE  /\ request_id'[l] < next_request_id'[Caller(l)]
                      /\ \A i \in Calls : Numbered(i)' /\ Caller(i) = Caller(l)
                                          /\ request_id'[i] = request_id'[l] => i = l
    BY DEF Numbers
  <2>4. request_id'[l] < next_request_id'[Caller(l)]
    <3>1. CASE l = k  BY <1>0, <1>3, <3>1
    <3>2. CASE l # k
      <4>1. /\ request_id'[l] < next_request_id[Caller(l)]
            /\ next_request_id[Caller(l)] <= next_request_id'[Caller(l)]
        BY <2>3, <3>2
      <4>2. request_id'[l] \in Nat /\ next_request_id[Caller(l)] \in Nat
            /\ next_request_id'[Caller(l)] \in Nat
        BY <1>1, <1>3, <2>2 DEF TypeInv
      <4> QED  BY <4>1, <4>2
    <3> QED  BY <3>1, <3>2
  <2>5. ASSUME NEW i \in Calls, Numbered(i)', Caller(i) = Caller(l),
               request_id'[i] = request_id'[l]
        PROVE  i = l
    <3>1. CASE i # k /\ l # k
      <4>1. Numbered(i) /\ Numbered(l)  BY <2>1, <2>5, <3>1
      <4>2. request_id[i] = request_id[l]  BY <1>3, <2>5, <3>1
      <4> QED  BY <4>1, <4>2, <2>5 DEF Numbers
    <3>2. CASE i = k /\ l # k
      <4>1. request_id'[l] < next_request_id[Caller(l)]  BY <2>3, <3>2
      <4>2. request_id'[l] = next_request_id[Caller(l)]  BY <1>3, <2>5, <3>2
      <4> QED  BY <4>1, <4>2, <1>3, <2>2
    <3>3. CASE i # k /\ l = k
      <4>1. request_id'[i] < next_request_id[Caller(i)]  BY <2>3, <2>5, <3>3
      <4>2. request_id'[i] = next_request_id[Caller(i)]  BY <1>3, <2>5, <3>3
      <4> QED  BY <4>1, <4>2, <1>3, <2>2
    <3> QED  BY <3>1, <3>2, <3>3
  <2> QED  BY <2>4, <2>5
<1>5. Untouched'  BY <1>3 DEF Untouched
<1>6. Waiting'
  <2>1. \A e \in Ends : \A p \in pending[e] : p[2] \in Calls /\ p[2] # k
    BY <1>3 DEF TypeInv, Waiting
  <2> QED  BY <1>3, <2>1 DEF Waiting
<1>7. CallsKept  BY <1>3 DEF CallsKept
<1>8. Travelling'  BY <1>7, OutUnchanged, TravellingKept DEF Travelling
<1>9. Step  BY StutterIsStep
<1> QED  BY <1>1, <1>2, <1>4, <1>5, <1>6, <1>8, <1>9

LEMMA BreakStep == ASSUME IInv, Break PROVE IInv' /\ Step
<1> USE DEF IInv, Break, output, calls
<1>1. TypeInv'  BY DEF TypeInv
<1>2. OneWrite' /\ Idle'  BY DEF OneWrite, Idle
<1>3. Numbers' /\ Untouched'  BY DEF Numbers, Numbered, Untouched
<1>4. Waiting'  BY DEF Waiting
<1>5. CallsKept  BY DEF CallsKept
<1>6. Travelling'  BY <1>5, OutUnchanged, TravellingKept DEF Travelling
<1>7. Step  BY StutterIsStep
<1> QED  BY <1>1, <1>2, <1>3, <1>4, <1>6, <1>7

LEMMA ReadFailsStep ==
  ASSUME IInv, NEW e \in Ends, ReadFails(e) PROVE IInv' /\ Step
<1> USE DEF ReadFails
<1>1. Close(e) /\ UNCHANGED <<calls, writing, wire, broken, served>>  OBVIOUS
<1>2. /\ queue' \in [Ends -> Seq(Msg)] /\ closed' \in [Ends -> BOOLEAN]
      /\ pending' \in [Ends -> SUBSET (Nat \X Calls)]
      /\ outcome' \in [Calls -> Seq(Calls \cup {Error})]
      /\ Idle' /\ Numbers' /\ Untouched' /\ Waiting' /\ Travelling' /\ Step
  BY <1>1, Closed
<1>3. TypeInv'  BY <1>2 DEF TypeInv, IInv, calls
<1>4. OneWrite'  BY DEF OneWrite, IInv
<1> QED  BY <1>2, <1>3, <1>4 DEF IInv

LEMMA WriteFailsStep ==
  ASSUME IInv, NEW e \in Ends, WriteFails(e) PROVE IInv' /\ Step
<1> USE DEF WriteFails
<1>1. Close(e) /\ UNCHANGED <<calls, writing, wire, broken, served>>  OBVIOUS
<1>2. /\ queue' \in [Ends -> Seq(Msg)] /\ closed' \in [Ends -> BOOLEAN]
      /\ pending' \in [Ends -> SUBSET (Nat \X Calls)]
      /\ outcome' \in [Calls -> Seq(Calls \cup {Error})]
      /\ Idle' /\ Numbers' /\ Untouched' /\ Waiting' /\ Travelling' /\ Step
  BY <1>1, Closed
<1>3. writes \in [Ends -> Nat] /\ writes[e] = 1
  BY DEF IInv, OneWrite, TypeInv
<1>4. writes' \in [Ends -> Nat] /\ writes'[e] = 0
      /\ \A d \in Ends : d # e => writes'[d] = writes[d]
  BY <1>3
<1>5. TypeInv'  BY <1>2, <1>4 DEF TypeInv, IInv, calls
<1>6. OneWrite'  BY <1>4 DEF OneWrite, IInv
<1> QED  BY <1>2, <1>5, <1>6 DEF IInv

LEMMA OnWriteStep ==
  ASSUME IInv, NEW e \in Ends, OnWrite(e) PROVE IInv' /\ Step
<1> USE DEF IInv
<1> DEFINE q == IF queue[e] = <<>> THEN <<>> ELSE Tail(queue[e])
           again == q # <<>> /\ ~ closed[e]
<1>1. queue[e] \in Seq(Msg) /\ q \in Seq(Msg) /\ wire[e] \in Seq(Msg)
  <2>1. queue[e] \in Seq(Msg) /\ wire[e] \in Seq(Msg)  BY DEF TypeInv
  <2> QED  BY <2>1, TailAt
<1>2. /\ writes[e] > 0
      /\ writes' = [writes EXCEPT ![e] = IF again THEN @ ELSE @ - 1]
      /\ writing' = [writing EXCEPT ![e] = again]
      /\ queue' = [queue EXCEPT ![e] = q]
      /\ wire' = IF again /\ ~ broken THEN [wire EXCEPT ![e] = Append(@, Head(q))] ELSE wire
      /\ UNCHANGED <<calls, pending, reading, closed, broken, served, outcome>>
  BY DEF OnWrite
<1> HIDE DEF q
<1>3. UNCHANGED <<stage, request_id, next_request_id>>  BY <1>2 DEF calls
<1>4. writes \in [Ends -> Nat] /\ writes[e] = 1 /\ writing \in [Ends -> BOOLEAN]
  BY <1>2 DEF OneWrite, TypeInv
<1>5. /\ writes' \in [Ends -> Nat] /\ writes'[e] = IF again THEN 1 ELSE 0
      /\ \A d \in Ends : d # e => writes'[d] = writes[d]
  BY <1>2, <1>4
<1>6. /\ writing' \in [Ends -> BOOLEAN] /\ writing'[e] = again
      /\ \A d \in Ends : d # e => writing'[d] = writing[d]
  BY <1>2, <1>4
<1>7. /\ queue' \in [Ends -> Seq(Msg)] /\ queue'[e] = q
      /\ \A d \in Ends : d # e => queue'[d] = queue[d]
  BY <1>1, <1>2 DEF TypeInv
<1>8. /\ wire' \in [Ends -> Seq(Msg)]
      /\ wire'[e] = IF again /\ ~ broken THEN Append(wire[e], Head(q)) ELSE wire[e]
      /\ \A d \in Ends : d # e => wire'[d] = wire[d]
  <2>1. CASE again /\ ~ broken
    <3>1. Append(wire[e], Head(q)) \in Seq(Msg)  BY <1>1, <2>1, TailAt, AppendProperties
    <3> QED  BY <1>2, <2>1, <3>1 DEF TypeInv
  <2>2. CASE ~ (again /\ ~ broken)  BY <1>2, <2>2 DEF TypeInv
  <2> QED  BY <2>1, <2>2
<1>9. TypeInv'  BY <1>2, <1>3, <1>5, <1>6, <1>7, <1>8 DEF TypeInv
<1>10. OneWrite'
  <2> SUFFICES ASSUME NEW d \in Ends
               PROVE  writes'[d] <= 1 /\ (writes'[d] = 1 => writing'[d])
    BY DEF OneWrite
  <2>1. CASE d = e  BY <1>5, <1>6, <2>1
  <2>2. CASE d # e  BY <1>5, <1>6, <2>2 DEF OneWrite
  <2> QED  BY <2>1, <2>2
<1>11. Idle'  BY <1>2, <1>6, <1>7 DEF Idle
<1>12. Numbers' /\ Untouched'  BY <1>2, <1>3 DEF Numbers, Numbered, Untouched
<1>13. Waiting'  BY <1>2, <1>3 DEF Waiting
<1>14. CallsKept  BY <1>2, <1>3 DEF CallsKept
<1>15. \A d \in Ends : Sub(Out(d)', Out(d))
  <2> TAKE d \in Ends
  <2>1. CASE d # e
    <3>1. Out(d)' = Out(d)  BY <2>1, <1>2, <1>7, <1>8 DEF Out, Unwritten
    <3> QED  BY <3>1, OutType, SubSelf
  <2>2. CASE d = e /\ ~ again
    <3>1. Unwritten(e)' = <<>>  BY <2>2, <1>2, <1>7 DEF Unwritten
    <3>2. Out(e)' = wire[e]  BY <2>2, <3>1, <1>1, <1>8, ConcatEmptySeq DEF Out
    <3> QED  BY <2>2, <3>2, <1>1, OutType, SubPrefix DEF Out
  <2>3. CASE d = e /\ again
    <3>1. Unwritten(e)' = Tail(q)  BY <2>3, <1>2, <1>7 DEF Unwritten
    <3>2. Unwritten(e) = q  BY <2>3 DEF Unwritten, q
    <3>3. CASE broken
      <4>1. Out(e)' = wire[e] \o Tail(q)  BY <2>3, <3>1, <3>3, <1>8 DEF Out
      <4> QED  BY <2>3, <3>2, <4>1, <1>1, SubSkip DEF Out
    <3>4. CASE ~ broken
      <4>1. Out(e)' = Append(wire[e], Head(q)) \o Tail(q)  BY <2>3, <3>1, <3>4, <1>8 DEF Out
      <4>2. Out(e)' = Out(e)  BY <2>3, <3>2, <4>1, <1>1, MoveFront DEF Out
      <4> QED  BY <2>3, <4>2, OutType, SubSelf
    <3> QED  BY <3>3, <3>4
  <2> QED  BY <2>1, <2>2, <2>3
<1>16. Travelling'  BY <1>14, <1>15, TravellingKept DEF Travelling
<1>17. Step  BY <1>2, StutterIsStep
<1> QED  BY <1>9, <1>10, <1>11, <1>12, <1>13, <1>16, <1>17

\* what a message at the end of e's adds to what travels
LEMMA TravellingAdds ==
  ASSUME NEW G, NEW s \in Seq(Msg), NEW m \in Msg, NEW t, Sub(t, Append(s, m)),
         \A i \in 1 .. Len(s) : s[i] \in G, m \in G, Distinct(s),
         m.type = "request" =>
           \A i \in 1 .. Len(s) : s[i].type = "request" => s[i].call # m.call
  PROVE  (\A i \in 1 .. Len(t) : t[i] \in G) /\ Distinct(t)
<1> DEFINE a == Append(s, m)
<1>1. /\ Len(s) \in Nat /\ Len(a) = Len(s) + 1 /\ a[Len(s) + 1] = m
      /\ \A i \in 1 .. Len(s) : a[i] = s[i]
  OBVIOUS
<1> HIDE DEF a
<1>2. ASSUME NEW i \in 1 .. Len(a) PROVE a[i] \in G
  <2>1. CASE i = Len(s) + 1  BY <1>1, <2>1
  <2>2. CASE i \in 1 .. Len(s)  BY <1>1, <2>2
  <2> QED  BY <1>1, <2>1, <2>2
<1>3. Distinct(a)
  <2> SUFFICES ASSUME NEW i \in 1 .. Len(a), NEW j \in 1 .. Len(a),
                      a[i].type = "request", a[j].type = "request", a[i].call = a[j].call
               PROVE  i = j
    BY DEF Distinct
  <2>1. CASE i \in 1 .. Len(s) /\ j \in 1 .. Len(s)  BY <1>1, <2>1 DEF Distinct
  <2>2. CASE i = Len(s) + 1 /\ j \in 1 .. Len(s)  BY <1>1, <2>2
  <2>3. CASE i \in 1 .. Len(s) /\ j = Len(s) + 1  BY <1>1, <2>3
  <2>4. CASE i = Len(s) + 1 /\ j = Len(s) + 1  BY <2>4
  <2> QED  BY <1>1, <2>1, <2>2, <2>3, <2>4
<1>4. Sub(t, a)  BY DEF a
<1>5. Distinct(t)  BY <1>3, <1>4, SubDistinct
<1>6. ASSUME NEW i \in 1 .. Len(t) PROVE t[i] \in G
  <2>1. PICK j \in 1 .. Len(a) : t[i] = a[j]  BY <1>4, SubElement
  <2> QED  BY <1>2, <2>1
<1> QED  BY <1>5, <1>6

LEMMA SendStep ==
  ASSUME IInv, NEW k \in Calls, Send(k) PROVE IInv' /\ Step
<1> USE DEF IInv
<1> DEFINE e == Caller(k)
           m == Request(k)
<1>1. e \in Ends  BY CallerIsEnd
<1>2. /\ stage[k] = "posted"
      /\ stage' = [stage EXCEPT ![k] = "queued"]
      /\ pending' = [pending EXCEPT ![e] = @ \cup {<<request_id[k], k>>}]
      /\ Enqueue(e, m, wire)
      /\ UNCHANGED <<request_id, next_request_id, reading, closed, broken, served, outcome>>
  BY DEF Send
<1>3. m \in Msg /\ m.type = "request" /\ m.call = k /\ m.id = request_id[k]
  BY DEF TypeInv, Msg, Request
<1> HIDE DEF e, m
<1>4. /\ wire' \in [Ends -> Seq(Msg)] /\ queue' \in [Ends -> Seq(Msg)]
      /\ writing' \in [Ends -> BOOLEAN] /\ writes' \in [Ends -> Nat]
      /\ OneWrite' /\ Idle'
      /\ \A d \in Ends : d # e => wire'[d] = wire[d] /\ queue'[d] = queue[d]
      /\ Sub(Out(e)', Append(wire[e] \o Unwritten(e), m))
  <2>1. wire \in [Ends -> Seq(Msg)]  BY DEF TypeInv
  <2> QED  BY <1>1, <1>2, <1>3, <2>1, Enqueued
<1>5. /\ stage' \in [Calls -> Stages] /\ stage'[k] = "queued"
      /\ \A l \in Calls : l # k => stage'[l] = stage[l]
  BY <1>2 DEF TypeInv, Stages
<1>6. /\ pending' \in [Ends -> SUBSET (Nat \X Calls)]
      /\ pending'[e] = pending[e] \cup {<<request_id[k], k>>}
      /\ \A d \in Ends : d # e => pending'[d] = pending[d]
  BY <1>1, <1>2 DEF TypeInv
<1>7. TypeInv'  BY <1>2, <1>4, <1>5, <1>6 DEF TypeInv
<1>8. Numbers'
  <2>1. \A l \in Calls : Numbered(l)' <=> Numbered(l)  BY <1>2, <1>5 DEF Numbered
  <2> QED  BY <1>2, <2>1 DEF Numbers
<1>9. Untouched'  BY <1>2, <1>5 DEF Untouched
<1>10. served[k] = 0 /\ outcome[k] = <<>>  BY <1>2 DEF Untouched
<1>11. Waiting'
  <2> SUFFICES ASSUME NEW d \in Ends, NEW p \in pending'[d]
               PROVE  /\ Caller(p[2]) = d /\ p[1] = request_id[p[2]]
                      /\ stage'[p[2]] = "queued" /\ outcome[p[2]] = <<>>
    BY <1>2 DEF Waiting
  <2>1. CASE p \in pending[d]
    <3>1. p[2] \in Calls  BY <2>1 DEF TypeInv
    <3> QED  BY <2>1, <3>1, <1>5 DEF Waiting
  <2>2. CASE p \notin pending[d]
    <3>1. d = e /\ p = <<request_id[k], k>>  BY <2>2, <1>6
    <3> QED  BY <3>1, <1>5, <1>10 DEF e
  <2> QED  BY <2>1, <2>2
<1>12. CallsKept  BY <1>2, <1>5 DEF CallsKept
<1>13. ASSUME NEW d \in Ends
       PROVE  (\A i \in 1 .. Len(Out(d)') : Out(d)'[i] \in Sound(d)') /\ Distinct(Out(d)')
  <2>1. CASE d # e
    <3>1. Out(d)' = Out(d)  BY <2>1, <1>2, <1>4 DEF Out, Unwritten
    <3>2. Sub(Out(d)', Out(d))  BY <3>1, OutType, SubSelf
    <3> QED  BY <3>2, <1>12, TravellingKept
  <2>2. CASE d = e
    <3> DEFINE s == Out(e)
               t == Out(e)'
    <3>1. s \in Seq(Msg) /\ Sub(t, Append(s, m))  BY <1>1, <1>4, OutType DEF Out
    <3>2. (\A i \in 1 .. Len(s) : s[i] \in Sound(e)) /\ Distinct(s)  BY <1>1 DEF Travelling
    <3>3. \A i \in 1 .. Len(s) : s[i].call # k  BY <3>2, <1>2 DEF Sound
    <3>4. \A i \in 1 .. Len(s) : s[i] \in Sound(e)'  BY <3>2, <1>1, <1>12, SoundKept
    <3>5. m \in Sound(e)'  BY <1>2, <1>3, <1>5, <1>10 DEF Sound, e
    <3> HIDE DEF s, t
    <3>6. (\A i \in 1 .. Len(t) : t[i] \in Sound(e)') /\ Distinct(t)
      BY <1>3, <3>1, <3>2, <3>3, <3>4, <3>5, TravellingAdds
    <3> QED  BY <2>2, <3>6 DEF t
  <2> QED  BY <2>1, <2>2
<1>14. Travelling'  BY <1>13 DEF Travelling
<1>15. Step  BY <1>2, StutterIsStep
<1> QED  BY <1>4, <1>7, <1>8, <1>9, <1>11, <1>14, <1>15

LEMMA OnAnswerStep ==
  ASSUME IInv, NEW e \in Ends, OnAnswer(e) PROVE IInv' /\ Step
<1> USE DEF IInv
<1> DEFINE d == Peer(e)
           m == Message(e)
           k == m.call
<1>1. d \in Ends /\ d # e /\ Peer(d) = e  BY OutType
<1>2. /\ wire[d] # <<>> /\ m = Head(wire[d]) /\ m.type = "answer"
      /\ reading' = [reading EXCEPT ![e] = ~ closed[e]]
      /\ outcome' = [l \in Calls |-> IF <<m.id, l>> \in pending[e]
                                     THEN Append(outcome[l], k) ELSE outcome[l]]
      /\ pending' = [pending EXCEPT ![e] = {p \in @ : p[1] # m.id}]
      /\ wire' = [wire EXCEPT ![d] = Tail(@)]
      /\ UNCHANGED <<stage, request_id, next_request_id, queue, writing, writes, closed,
                     broken, served>>
  BY DEF OnAnswer, Received, Message, WireAfter, calls
<1>3. /\ wire[d] \in Seq(Msg) /\ Unwritten(d) \in Seq(Msg) /\ Tail(wire[d]) \in Seq(Msg)
  <2>1. wire[d] \in Seq(Msg) /\ Unwritten(d) \in Seq(Msg)  BY <1>1, OutType DEF TypeInv
  <2> QED  BY <1>2, <2>1, TailAt
<1>4. m = Out(d)[1] /\ 1 \in 1 .. Len(Out(d))  BY <1>2, <1>3, TailConcat DEF Out
<1>5. m \in Sound(d)  BY <1>1, <1>4 DEF Travelling
<1> HIDE DEF m
<1>6. /\ k \in Calls /\ m.id = request_id[k] /\ stage[k] = "queued"
      /\ Caller(k) = e /\ served[k] = 1
  BY <1>1, <1>2, <1>5 DEF Sound, Msg
<1> HIDE DEF k, d
\* the number finds no call but the one that is answered
<1>7. \A p \in pending[e] : p[1] = m.id => p[2] = k /\ p = <<m.id, k>>
  <2> SUFFICES ASSUME NEW p \in pending[e], p[1] = m.id PROVE p[2] = k /\ p = <<m.id, k>>
    OBVIOUS
  <2>1. p \in Nat \X Calls /\ p[2] \in Calls /\ p = <<p[1], p[2]>>  BY DEF TypeInv
  <2>2. Caller(p[2]) = e /\ p[1] = request_id[p[2]] /\ stage[p[2]] = "queued"
    BY DEF Waiting
  <2>3. p[2] = k  BY <1>6, <2>1, <2>2 DEF Numbers, Numbered
  <2> QED  BY <2>1, <2>3
<1>8. \A l \in Calls : <<m.id, l>> \in pending[e] => l = k
  <2> SUFFICES ASSUME NEW l \in Calls, <<m.id, l>> \in pending[e] PROVE l = k  OBVIOUS
  <2>1. <<m.id, l>>[1] = m.id /\ <<m.id, l>>[2] = l  OBVIOUS
  <2> QED  BY <1>7, <2>1
<1>9. /\ outcome' \in [Calls -> Seq(Calls \cup {Error})]
      /\ \A l \in Calls : l # k => outcome'[l] = outcome[l]
      /\ Step
  <2>1. outcome \in [Calls -> Seq(Calls \cup {Error})]  BY DEF TypeInv
  <2>2. \A l \in Calls : l # k => outcome'[l] = outcome[l]  BY <1>2, <1>8
  <2>3. CASE <<m.id, k>> \notin pending[e]
    <3>1. outcome' = outcome  BY <1>2, <1>8, <2>1, <2>3
    <3> QED  BY <1>2, <2>1, <2>2, <3>1, StutterIsStep
  <2>4. CASE <<m.id, k>> \in pending[e]
    <3>1. <<m.id, k>>[2] = k  OBVIOUS
    <3>2. outcome[k] = <<>>  BY <2>4, <3>1 DEF Waiting
    <3>3. outcome'[k] = Append(outcome[k], k)  BY <1>2, <1>6, <2>4
    <3>4. outcome'[k] = <<k>>  BY <3>2, <3>3, AppendToEmpty
    <3>5. outcome' = [outcome EXCEPT ![k] = <<k>>]  BY <1>2, <2>1, <2>2, <3>4
    <3>6. <<k>> \in Seq(Calls \cup {Error})  BY <1>6
    <3>7. outcome' \in [Calls -> Seq(Calls \cup {Error})]  BY <2>1, <3>5, <3>6
    <3>8. Abstract!Answer(k)  BY <1>2, <1>6, <3>2, <3>5 DEF Abstract!Answer
    <3>9. Step  BY <1>6, <3>8 DEF Step, Abstract!Next
    <3> QED  BY <2>2, <3>7, <3>9
  <2> QED  BY <2>3, <2>4
<1>10. /\ wire' \in [Ends -> Seq(Msg)] /\ wire'[d] = Tail(wire[d])
       /\ \A b \in Ends : b # d => wire'[b] = wire[b]
  BY <1>1, <1>2, <1>3 DEF TypeInv
<1>11. /\ pending' \in [Ends -> SUBSET (Nat \X Calls)]
       /\ pending'[e] = {p \in pending[e] : p[1] # m.id}
       /\ \A b \in Ends : b # e => pending'[b] = pending[b]
  BY <1>2 DEF TypeInv
<1>12. TypeInv'  BY <1>2, <1>9, <1>10, <1>11 DEF TypeInv
<1>13. OneWrite' /\ Idle' /\ Numbers'  BY <1>2 DEF OneWrite, Idle, Numbers, Numbered
<1>14. Untouched'  BY <1>2, <1>6, <1>9 DEF Untouched
<1>15. Waiting'
  <2> SUFFICES ASSUME NEW b \in Ends, NEW p \in pending'[b]
               PROVE  /\ Caller(p[2]) = b /\ p[1] = request_id[p[2]]
                      /\ stage[p[2]] = "queued" /\ outcome'[p[2]] = <<>>
    BY <1>2 DEF Waiting
  <2>1. p \in pending[b] /\ (b = e => p[1] # m.id)  BY <1>11
  <2>2. /\ Caller(p[2]) = b /\ p[1] = request_id[p[2]]
        /\ stage[p[2]] = "queued" /\ outcome[p[2]] = <<>>
    BY <2>1 DEF Waiting
  <2>3. p[2] \in Calls  BY <2>1 DEF TypeInv
  <2>4. p[2] # k  BY <1>6, <2>1, <2>2
  <2> QED  BY <1>9, <2>2, <2>3, <2>4
<1>16. CallsKept  BY <1>2 DEF CallsKept
<1>17. \A b \in Ends : Sub(Out(b)', Out(b))
  <2> TAKE b \in Ends
  <2>1. CASE b # d
    <3>1. Out(b)' = Out(b)  BY <2>1, <1>2, <1>10 DEF Out, Unwritten
    <3> QED  BY <3>1, OutType, SubSelf
  <2>2. CASE b = d
    <3>1. Unwritten(d)' = Unwritten(d)  BY <1>2 DEF Unwritten
    <3>2. Out(d)' = Tail(wire[d]) \o Unwritten(d)  BY <3>1, <1>10 DEF Out
    <3> QED  BY <2>2, <3>2, <1>2, <1>3, SubTail DEF Out
  <2> QED  BY <2>1, <2>2
<1>18. Travelling'  BY <1>16, <1>17, TravellingKept DEF Travelling
<1> QED  BY <1>9, <1>12, <1>13, <1>14, <1>15, <1>18

LEMMA OnRequestStep ==
  ASSUME IInv, NEW e \in Ends, OnRequest(e) PROVE IInv' /\ Step
<1> USE DEF IInv
<1> DEFINE d == Peer(e)
           m == Message(e)
           k == m.call
           a == [m EXCEPT !.type = "answer"]
           w == WireAfter(e)
<1>1. d \in Ends /\ d # e /\ Peer(d) = e  BY OutType
<1>2. /\ wire[d] # <<>> /\ m = Head(wire[d]) /\ m.type = "request"
      /\ reading' = [reading EXCEPT ![e] = ~ closed[e]]
      /\ served' = [served EXCEPT ![k] = @ + 1]
      /\ w = [wire EXCEPT ![d] = Tail(@)]
      /\ Enqueue(e, a, w)
      /\ UNCHANGED <<stage, request_id, next_request_id, pending, closed, broken, outcome>>
  BY DEF OnRequest, Received, Message, WireAfter, calls
<1>3. /\ wire[d] \in Seq(Msg) /\ Unwritten(d) \in Seq(Msg) /\ Tail(wire[d]) \in Seq(Msg)
  <2>1. wire[d] \in Seq(Msg) /\ Unwritten(d) \in Seq(Msg)  BY <1>1, OutType DEF TypeInv
  <2> QED  BY <1>2, <2>1, TailAt
<1>4. m = Out(d)[1] /\ 1 \in 1 .. Len(Out(d))  BY <1>2, <1>3, TailConcat DEF Out
<1>5. m \in Sound(d)  BY <1>1, <1>4 DEF Travelling
<1> HIDE DEF m, w
<1>6. /\ k \in Calls /\ m.id = request_id[k] /\ stage[k] = "queued"
      /\ Caller(k) = d /\ served[k] = 0 /\ m \in Msg
  BY <1>1, <1>2, <1>5 DEF Sound, Msg
<1>7. a \in Msg /\ a.type = "answer" /\ a.call = k /\ a.id = m.id  BY <1>6 DEF Msg
<1> HIDE DEF k, d, a
<1>8. w \in [Ends -> Seq(Msg)] /\ w[d] = Tail(wire[d]) /\ w[e] = wire[e]
  BY <1>1, <1>2, <1>3 DEF TypeInv
<1>9. /\ wire' \in [Ends -> Seq(Msg)] /\ queue' \in [Ends -> Seq(Msg)]
      /\ writing' \in [Ends -> BOOLEAN] /\ writes' \in [Ends -> Nat]
      /\ OneWrite' /\ Idle'
      /\ \A b \in Ends : b # e => wire'[b] = w[b] /\ queue'[b] = queue[b]
      /\ Sub(Out(e)', Append(w[e] \o Unwritten(e), a))
  <2>1. Enqueue(e, a, w) /\ UNCHANGED <<closed, broken>> /\ a \in Msg  BY <1>2, <1>7
  <2>2. TypeInv /\ OneWrite /\ Idle /\ w \in [Ends -> Seq(Msg)]  BY <1>8
  <2> QED  BY <2>1, <2>2, Enqueued
<1>10. /\ served' \in [Calls -> Nat] /\ served'[k] = 1
       /\ \A l \in Calls : l # k => served'[l] = served[l]
       /\ served' = [served EXCEPT ![k] = 1]
  BY <1>2, <1>6 DEF TypeInv
<1>11. TypeInv'  BY <1>2, <1>9, <1>10 DEF TypeInv
<1>12. Numbers'  BY <1>2 DEF Numbers, Numbered
<1>13. Untouched'  BY <1>2, <1>6, <1>10 DEF Untouched
<1>14. Waiting'  BY <1>2 DEF Waiting
<1>15. Step
  <2>1. Abstract!Serve(k)  BY <1>2, <1>6, <1>10 DEF Abstract!Serve
  <2> QED  BY <1>6, <2>1 DEF Step, Abstract!Next
\* no other request of the call travels, and no answer to it
<1>16. \A n \in Msg : n.call # k =>
         \A b \in Ends : n \in Sound(b) => n \in Sound(b)'
  <2>1. \A n \in Msg : n.call \in Calls  BY DEF Msg
  <2> QED  BY <1>2, <1>10, <2>1 DEF Sound
<1>17. (\A i \in 1 .. Len(Out(e)') : Out(e)'[i] \in Sound(e)') /\ Distinct(Out(e)')
  <2> DEFINE s == Out(e)
             t == Out(e)'
  <2>1. s \in Seq(Msg) /\ Sub(t, Append(s, a))  BY <1>8, <1>9, OutType DEF Out
  <2>2. (\A i \in 1 .. Len(s) : s[i] \in Sound(e)) /\ Distinct(s)  BY DEF Travelling
  <2>3. \A i \in 1 .. Len(s) : s[i].call # k
    <3> SUFFICES ASSUME NEW i \in 1 .. Len(s), s[i].call = k PROVE FALSE  OBVIOUS
    <3>1. s[i] \in Sound(e) /\ s[i].type \in {"request", "answer"}  BY <2>2 DEF Sound, Msg
    <3> QED  BY <3>1, <1>1, <1>6 DEF Sound, d
  <2>4. \A i \in 1 .. Len(s) : s[i] \in Sound(e)'
    <3>1. \A i \in 1 .. Len(s) : s[i] \in Msg  BY <2>2 DEF Sound
    <3> QED  BY <2>2, <2>3, <3>1, <1>16
  <2>5. a \in Sound(e)'  BY <1>2, <1>6, <1>7, <1>10 DEF Sound, d
  <2> HIDE DEF s, t
  <2>6. (\A i \in 1 .. Len(t) : t[i] \in Sound(e)') /\ Distinct(t)
    BY <1>7, <2>1, <2>2, <2>4, <2>5, TravellingAdds
  <2> QED  BY <2>6 DEF t
<1>18. (\A i \in 1 .. Len(Out(d)') : Out(d)'[i] \in Sound(d)') /\ Distinct(Out(d)')
  <2> DEFINE s == Out(d)
             t == Out(d)'
  <2>1. Unwritten(d)' = Unwritten(d)  BY <1>1, <1>2, <1>9 DEF Unwritten
  <2>2. t = Tail(wire[d]) \o Unwritten(d)  BY <2>1, <1>1, <1>8, <1>9 DEF Out
  <2>3. Sub(t, s)  BY <2>2, <1>2, <1>3, SubTail DEF Out
  <2>4. /\ Len(t) = Len(s) - 1 /\ Len(s) \in Nat /\ Len(s) >= 1
        /\ \A i \in 1 .. Len(s) - 1 : t[i] = s[i + 1]
    <3>1. s = wire[d] \o Unwritten(d)  BY DEF Out
    <3> DEFINE u == Unwritten(d)
               v == wire[d]
    <3>2. u \in Seq(Msg) /\ v \in Seq(Msg) /\ v # <<>>  BY <1>2, <1>3
    <3>3. s = v \o u /\ t = Tail(v) \o u  BY <2>2, <3>1
    <3> HIDE DEF s, t, u, v
    <3> QED  BY <3>2, <3>3, TailConcat
  <2>5. (\A i \in 1 .. Len(s) : s[i] \in Sound(d)) /\ Distinct(s)  BY <1>1 DEF Travelling
  <2>6. s[1] = m  BY <1>4
  <2> HIDE DEF s, t
  <2>7. Distinct(t)  BY <2>3, <2>5, SubDistinct
  <2>8. ASSUME NEW i \in 1 .. Len(t) PROVE t[i] \in Sound(d)'
    <3>1. i + 1 \in 1 .. Len(s) /\ 1 \in 1 .. Len(s) /\ t[i] = s[i + 1] /\ i + 1 # 1
      BY <2>4
    <3>2. t[i] \in Sound(d) /\ t[i] \in Msg  BY <2>5, <3>1 DEF Sound
    <3>3. t[i].call # k
      <4> SUFFICES ASSUME t[i].call = k PROVE FALSE  OBVIOUS
      <4>1. t[i].type # "answer"  BY <1>1, <1>6, <3>2 DEF Sound
      <4>2. t[i].type = "request"  BY <3>2, <4>1 DEF Msg
      <4> QED  BY <1>2, <2>5, <2>6, <3>1, <4>2 DEF Distinct, k
    <3> QED  BY <1>1, <1>16, <3>2, <3>3
  <2> QED  BY <2>7, <2>8 DEF t
<1>19. \A b \in Ends : b = e \/ b = d  BY DEF Ends, Peer, d
<1>20. Travelling'  BY <1>17, <1>18, <1>19 DEF Travelling
<1> QED  BY <1>9, <1>11, <1>12, <1>13, <1>14, <1>15, <1>20

-----------------------------------------------------------------------------
(* The theorems.                                                            *)

LEMMA NextInv == IInv /\ [Next]_vars => IInv' /\ Step
<1> SUFFICES ASSUME IInv, [Next]_vars PROVE IInv' /\ Step  OBVIOUS
<1>1. ASSUME NEW k \in Calls, GetSession(k) \/ Post(k) \/ Send(k) PROVE IInv' /\ Step
  BY <1>1, GetSessionStep, PostStep, SendStep
<1>2. ASSUME NEW e \in Ends, Strand(e) PROVE IInv' /\ Step
  BY <1>2, OnRequestStep, OnAnswerStep, ReadFailsStep, OnWriteStep, WriteFailsStep DEF Strand
<1>3. CASE Break  BY <1>3, BreakStep
<1>4. CASE UNCHANGED vars
  <2> USE <1>4 DEF vars, calls, output
  <2>1. TypeInv' /\ OneWrite' /\ Idle'  BY DEF IInv, TypeInv, OneWrite, Idle
  <2>2. Numbers' /\ Untouched' /\ Waiting'
    BY DEF IInv, Numbers, Numbered, Untouched, Waiting
  <2>3. Travelling'
    <3>1. CallsKept /\ TypeInv /\ Travelling  BY DEF CallsKept, IInv
    <3> QED  BY <3>1, OutUnchanged, TravellingKept DEF Travelling
  <2>4. Step  BY StutterIsStep
  <2> QED  BY <2>1, <2>2, <2>3, <2>4 DEF IInv
<1> QED  BY <1>1, <1>2, <1>3, <1>4 DEF Next

(***************************************************************************)
(* The invariant of the sessions: what travels in either direction are      *)
(* requests of calls that were not carried out and answers to calls that    *)
(* were, and whoever waits does so under the number of his request.         *)
(***************************************************************************)
THEOREM SessionsInvariant == Spec => []IInv
<1> QED  BY InitInv, NextInv, PTL DEF Spec

(***************************************************************************)
(* do_write, on_write and close never have two async_writes on a socket     *)
(* (websocket_session.cpp:111).                                             *)
(***************************************************************************)
THEOREM SocketWritesOneAtATime == Spec => []OneWrite
<1>1. IInv => OneWrite  BY DEF IInv
<1> QED  BY <1>1, SessionsInvariant, PTL

(***************************************************************************)
(* However calls, answers, writes and failures of both ends interleave, a   *)
(* call is carried out at most once and its handler is called at most once, *)
(* with its own answer or an error (websocket_session.cpp:95, :182).        *)
(***************************************************************************)
THEOREM SessionsImplementCalls == Spec => ImplementsCalls
<1>1. Init => IInv /\ Abstract!Init  BY InitInv
<1>2. IInv /\ [Next]_vars => IInv' /\ [Abstract!Next]_<<served, outcome>>
  BY NextInv DEF Step
<1> QED  BY <1>1, <1>2, PTL DEF Spec, ImplementsCalls, Abstract!Spec

=============================================================================
